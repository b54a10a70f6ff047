CONSTANTS
    DL = 3
    SeqMod = 4
    ClockMod = 6
    RxMax = 10
    TxMax = 11
    BlockSize = 2
    StMin = 1
    RxTimeout = 2
    TxTimeout = 2
    MaxWait = 1
    FullDuplex = FALSE
    Fill = Fill
    Lengths = {2, 10, 11}
    MaxMsgs = 3
    MaxLoss = 2
    QuietMsgs = 2
SPECIFICATION FairSpec
INVARIANTS TypeOK BuffersRespected ReceiverConsistent
PROPERTIES ServiceSpec Recovery SidesReleased
CHECK_DEADLOCK FALSE
