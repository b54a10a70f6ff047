CONSTANTS
    DL = 3
    SeqMod = 4
    ClockMod = 4
    RxMax = 6
    TxMax = 6
    BlockSize = 1
    StMin = 0
    RxTimeout = 1
    TxTimeout = 1
    MaxWait = 1
    FullDuplex = FALSE
    Fill = Fill
    S3Timeout = 2
    S3Mod = 4
    RingSlots = 3
    Mailboxes = {m1, m2}
    Ops = {"EXTENDED", "DEFAULT", "RESET"}
    Functional = {}
    Multi = FALSE
    DiagPeriod = 2
    Pipelined = FALSE
    MaxFrames = 3
    MaxTxLoss = 0
    MaxBusOff = 0
SPECIFICATION FairSpec
PROPERTIES ListensAgain
