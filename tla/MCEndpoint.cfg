CONSTANTS
    DL = 3
    SeqMod = 4
    ClockMod = 4
    RxMax = 6
    TxMax = 6
    BlockSize = 1
    StMin = 0
    RxTimeout = 1
    TxTimeout = 1
    MaxWait = 1
    FullDuplex = FALSE
    Fill = Fill
    S3Timeout = 2
    S3Mod = 4
    RingSlots = 3
    Mailboxes = {m1, m2}
    Ops = {"PRESENT", "READ", "RESET"}
    Functional = {"PRESENT"}
    Multi = TRUE
    DiagPeriod = 2
    Pipelined = TRUE
    MaxFrames = 3
    MaxTxLoss = 1
    MaxBusOff = 1
SPECIFICATION Spec
INVARIANTS TypeOK ResetAfterAnswer MarksAreCurrent
