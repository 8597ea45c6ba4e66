CONSTANTS
    Process = {app, nse}
    Thread = {t1, t2}
    app = app
    nse = nse
    t1 = t1
    t2 = t2
    Lease = 2
    Extend = 1
    MaxDelay = 1
    InitialBackoff = 1
    MaxBackoff = 2
    MaxU32 = 7
    StoreErrors = FALSE
    MaxGeneration = 3
    NoProcess = NoProcess
    NoThread = NoThread
    RenewTask = RenewTask
    Stop = Stop
SPECIFICATION Spec
SYMMETRY ProcessSymmetry
INVARIANTS
    TypeOK
    MutualExclusion
    ActiveWhileUsed
    DirtyDetected
    LockInv
    DirtyIsJustified
    ReleaseExcludesAcquisition
PROPERTIES
    RenewalKeepsGeneration
    ImplementsExclusiveLock
