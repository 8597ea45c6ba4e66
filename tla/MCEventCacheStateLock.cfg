CONSTANTS
    Process = {app, nse}
    Thread = {t1, t2}
    app = app
    nse = nse
    t1 = t1
    t2 = t2
    Callers <- AppTwoNseOne
    NoProcess = NoProcess
    Restarts = 1
    StoreFails = TRUE
    Ops = {"read", "write", "clear", "direct"}
SPECIFICATION FairSpec
INVARIANTS
    CacheExclusion
    StalenessRemembered
PROPERTY OperationsEnd
