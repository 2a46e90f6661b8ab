SPECIFICATION Spec
CONSTANTS
    t1 = t1
    t2 = t2
    NoThread = NoThread
    Misr = Misr
    Threads <- MCThreads
    EntryPoints <- FaultEntryPoints
    KCCBSize = 1
    DeferredMax = 1
    MaxIdleRetries = 1
    DefaultState = "ON"
    FwMayTimeOut = TRUE
    SysPowerFailures = {"PRE", "POST"}
SYMMETRY Symmetry
INVARIANTS
    PowerLockOwnership
    SystemOffDeviceOff
