CONSTANTS
    r1 = r1
    r2 = r2
    browserName = browserName
    args = args
    Original = Original
    Nobody = Nobody
    Settings <- MCSettings
    Changes <- MCChanges
    IdleTimeout = 0
    MaxAttempts = 2
    MaxTimeout = 0
    ConfMaxTimeout = 0
    ChildGrace = 3
    RecordLimit = 0
    Requests = {r1}
    Stoppers = {"close", "taskLoop"}
    SwapLimit = 1
    RotateLimit = 1
    LockTTL = 3
    RecorderAnswers = TRUE
    MaxFaults = 1
SPECIFICATION FairSpec
INVARIANTS
    ArtifactsAreReachable
PROPERTIES
    LockIsFreed
    RefreshEnds
