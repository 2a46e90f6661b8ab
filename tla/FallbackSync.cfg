SPECIFICATION LiveSpec
CONSTANTS
    ta = ta
    tb = tb
    A = A
    B = B
    c1 = c1
    c2 = c2
    Cleaner = Cleaner
    Clients <- MCClients
    Processes = {A, B}
    Proc <- MCProc
    Mortal = {A}
    Timelines = {1, 2}
    SWTimelines = {1}
    Owner <- MCOwner
    Contexts = {c1, c2}
    Native = c1
    ContextOf <- MCContextOf
    CallsOf <- MCCallsOf
    MaxPoints = 2
    MaxFences = 3
    MaxAttached = 2
CHECK_DEADLOCK FALSE
INVARIANTS
    TypeOK
    AttachedFollow
    ReachedIsWhole
    MergedWaitsForAll
PROPERTIES
    WaitersReturn
