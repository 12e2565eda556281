CONSTANTS
    r1 = r1
    r2 = r2
    t1 = t1
    t2 = t2
    q1 = q1
    q2 = q2
    NoTask = NoTask
    Home = r1
    Routers <- MCRouters
    RouterOf <- MCRouterOf
    OpsOf <- MCOpsOf
    Kinds = {"generic"}
    Tasks = {t1}
    Requests = {q1}
    Asked = {"finish"}
    Watch = {}
    MaxFaults = 0
    Torn = TRUE
    OnTime = TRUE
CHECK_DEADLOCK FALSE
SPECIFICATION Spec
INVARIANTS
    FinishedTaskIsAccounted
