CONSTANTS
    r1 = r1
    r2 = r2
    t1 = t1
    t2 = t2
    q1 = q1
    q2 = q2
    NoTask = NoTask
    Home = r1
    Routers <- MCRouters
    RouterOf <- MCRouterOf
    OpsOf <- MCOpsOf
    Kinds = {"generic", "cypress", "playwright", "browser"}
    Tasks = {t1, t2}
    Requests = {q1, q2}
    Asked = {"abort", "finish", "close", "use"}
    Watch = {"usage"}
    MaxFaults = 1
    Torn = TRUE
    OnTime = FALSE
CHECK_DEADLOCK FALSE
SPECIFICATION Spec
INVARIANTS
    TypeOK
    UsageReportedAtMostOnce
    FinalizerOverwritesWhatItSaw
    RejectedTaskIsStopped
PROPERTIES
    ImplementsLife
