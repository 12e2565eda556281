CONSTANTS
    r1 = r1
    r2 = r2
    browserName = browserName
    args = args
    Original = Original
    Nobody = Nobody
    Settings <- MCSettings
    Changes <- MCChanges
    IdleTimeout = 1
    MaxAttempts = 2
    MaxTimeout = 1
    ConfMaxTimeout = 1
    ChildGrace = 3
    RecordLimit = 0
    Requests = {r1}
    Stoppers = {}
    SwapLimit = 2
    RotateLimit = 2
    LockTTL = 5
    RecorderAnswers = FALSE
    MaxFaults = 0
SPECIFICATION FairSpec
PROPERTIES
    RefreshEnds
