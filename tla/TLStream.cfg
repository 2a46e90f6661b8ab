SPECIFICATION LiveSpec
CONSTANTS
    w1 = w1
    w2 = w2
    Writers <- MCWriters
    PacketSizes = {2, 3}
    ui32Size = 9
    FivePercent = 4
    OpModes <- AllModes
    ReconfigureAnyTime = FALSE
INVARIANTS
    TypeOK
PROPERTIES
    FifoSpec
    WritersProceed
CHECK_DEADLOCK FALSE
