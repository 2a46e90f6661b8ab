SPECIFICATION CleanupSpec
CONSTANTS
    t1 = t1
    Cleaner = Cleaner
    Misr = Misr
    NoThread = NoThread
    NoCommand = NoCommand
    NoValue = NoValue
    Threads <- MCThreads
    EntryPoints <- KickOps
    RingSize = 2
    DeferredMax = 1
    MaxChanges = 4
    SyncModulus = 128
    FirstUpdate = 127
    WrapWindow = 120
    AllocMayFail = TRUE
    PowerMayFail = TRUE
INVARIANTS
    CleanupTypeOK
    KickedIsInvalidated
