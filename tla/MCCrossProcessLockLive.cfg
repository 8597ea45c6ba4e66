CONSTANTS
    Process = {app, nse}
    Thread = {t1}
    app = app
    nse = nse
    t1 = t1
    t2 = t2
    Lease = 2
    Extend = 1
    MaxDelay = 1
    InitialBackoff = 1
    MaxBackoff = 4
    MaxU32 = 7
    StoreErrors = TRUE
    MaxGeneration = 2
    NoProcess = NoProcess
    NoThread = NoThread
    RenewTask = RenewTask
    Stop = Stop
SPECIFICATION FairSpec
PROPERTIES
    SpinLockEnds
    LeaseGivenUp
