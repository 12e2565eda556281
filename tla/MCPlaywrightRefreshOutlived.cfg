CONSTANTS
    r1 = r1
    r2 = r2
    browserName = browserName
    args = args
    Original = Original
    Nobody = Nobody
    Settings <- MCSettings
    Changes <- MCChanges
    IdleTimeout = 1
    MaxAttempts = 2
    MaxTimeout = 5
    ConfMaxTimeout = 1
    ChildGrace = 3
    RecordLimit = 0
    Requests = {r1}
    Stoppers = {"taskLoop"}
    SwapLimit = 1
    RotateLimit = 1
    LockTTL = 3
    RecorderAnswers = TRUE
    MaxFaults = 0
SPECIFICATION Spec
INVARIANTS
    ArtifactsAreReachable
