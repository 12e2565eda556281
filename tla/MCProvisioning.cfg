CONSTANTS
    s1 = s1
    s2 = s2
    i1 = i1
    i2 = i2
    Starts <- MCStarts
    FirstHost <- MCFirstHost
    Demand <- MCDemand
    Instances <- MCInstances
    Weight <- MCWeight
    InstanceResources <- MCInstanceResources
    MinSize = 0
    MaxSize = 2
    ReservePercent = 25
    ReserveMaxCapacity = 1
    PoolLimit = 0
    Nowhere = Nowhere
    MaxFaults = 1
SPECIFICATION FairSpec
INVARIANTS
    TypeOK
    OnlyExposedTasksAreKilled
    DesiredWithinGroup
PROPERTIES
    EveryStartIsPlaced
    ReservationIsReleased
    IdleCapacityIsReleased
