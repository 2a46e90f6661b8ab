SPECIFICATION Spec
CONSTANTS
    t1 = t1
    t2 = t2
    c1 = c1
    c2 = c2
    b1 = b1
    b2 = b2
    Destroyer = Destroyer
    NoCheckpoint = NoCheckpoint
    Threads <- MCThreads
    Checkpoints <- MCCheckpoints
    Blocks <- MCBlocks
    BlockOf <- MCBlockOf
    InitialPool <- EmptyPool
    PoolSize = 1
    MaxEnqueued = 2
SYMMETRY Symmetry
CHECK_DEADLOCK FALSE
INVARIANTS
    TypeOK
    OnePlace
    ContextOutlivesUsers
    DestroyLeavesNothing
PROPERTIES
    LifeSpec
