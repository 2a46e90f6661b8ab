SPECIFICATION Spec
CONSTANTS
    t1 = t1
    t2 = t2
    NoThread = NoThread
    Misr = Misr
    Threads <- MCThreads
    EntryPoints <- AllEntryPoints
    KCCBSize = 2
    DeferredMax = 1
    MaxIdleRetries = 1
    DefaultState = "OFF"
    FwMayTimeOut = FALSE
    SysPowerFailures = {}
SYMMETRY Symmetry
INVARIANTS
    TypeOK
    DriverMatchesDevice
    OffMeansDrained
    ForcedIdleUnderLock
    ClockChangedWhileIdle
    NoInterruptLeftBehind
PROPERTIES
    CommandReachesLiveFirmware
