CONSTANTS
    c1 = c1
    c2 = c2
    c3 = c3
    i1 = i1
    i2 = i2
    NoCall = NoCall
    Calls <- MCCalls
    Ids <- MCIds
    IdOf <- MCIdOf
CHECK_DEADLOCK FALSE
SPECIFICATION FairSpec
PROPERTY
    EveryAppendIsAnswered
