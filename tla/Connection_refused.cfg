SPECIFICATION ConnectionSpec
CONSTANTS
    t1 = t1
    t2 = t2
    t3 = t3
    c1 = c1
    c2 = c2
    p1 = p1
    p2 = p2
    ctx = ctx
    priv = priv
    freelist = freelist
    dataset = dataset
    fence = fence
    NoHandle = NoHandle
    NoBase = NoBase
    NoConn = NoConn
    Process = Process
    Threads <- MCThreads
    Conns <- MCConns
    ProcBases <- MCProcBases
    Bases <- MCBases
    ConnOf <- MCConnOf
    Handles <- MCHandles
    HomeOf <- MCHomeOf
    Parent <- MCParent
    Targets <- MCTargets
    Busyable <- MCBusyable
    Rank <- MCRank
    RetryCount = 1
    RetryModulus = 4
INVARIANTS
    NothingLeaks
CHECK_DEADLOCK FALSE
