CONSTANTS
    r1 = r1
    r2 = r2
    t1 = t1
    t2 = t2
    q1 = q1
    q2 = q2
    NoTask = NoTask
    Home = r1
    Routers <- MCRouters
    RouterOf <- MCRouterOf
    OpsOf <- MCOpsOf
    Kinds = {"generic", "cypress", "browser"}
    Tasks = {t1}
    Requests = {}
    Asked = {"use"}
    Watch = {"usage", "idle", "unhealthy", "lost"}
    MaxFaults = 1
    Torn = FALSE
    OnTime = TRUE
CHECK_DEADLOCK FALSE
SPECIFICATION FairSpec
INVARIANTS
    UsageReportedAtMostOnce
PROPERTIES
    NoTaskRunsForever
    SessionIsForgotten
    ServedIsAccounted
