SPECIFICATION FairSpec
CONSTANTS
    t1 = t1
    t2 = t2
    NoThread = NoThread
    Misr = Misr
    Threads <- OneThread
    EntryPoints <- LiveEntryPoints
    KCCBSize = 2
    DeferredMax = 1
    MaxIdleRetries = 1
    DefaultState = "OFF"
    FwMayTimeOut = FALSE
    SysPowerFailures = {}
PROPERTIES
    OperationsReturn
    DeferredIsSent
    QuietGpuPowersDown
