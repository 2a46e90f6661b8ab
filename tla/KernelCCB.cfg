SPECIFICATION Spec
CONSTANTS
    t1 = t1
    t2 = t2
    Misr = Misr
    NoThread = NoThread
    NoCommand = NoCommand
    NoValue = NoValue
    Threads <- MCThreads
    EntryPoints <- AllOps
    RingSize = 3
    DeferredMax = 2
    MaxChanges = 2
    SyncModulus = 4
    FirstUpdate = 3
    AllocMayFail = FALSE
    PowerMayFail = TRUE
SYMMETRY Symmetry
INVARIANTS
    KickSeesItsPageTables
    SlotAnswerIsOwn
PROPERTIES
    FifoSpec
