CONSTANTS
    MarkerMod = 4
    FirstMarker = 2
    TxDepth = 2
    EventDepth = 2
    Handoff = 1
    Wirings <- AllWirings
    MaxRx = 3
    MaxForeign = 2
SPECIFICATION FairSpec
INVARIANTS OutcomeIsOwn
PROPERTIES TransmitterReleased
