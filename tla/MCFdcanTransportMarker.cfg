CONSTANTS
    MarkerMod = 256
    FirstMarker = 210
    TxDepth = 3
    EventDepth = 3
    Handoff = 50
    Wirings <- AllWirings
    MaxRx = 3
    MaxForeign = 2
SPECIFICATION Spec
INVARIANT MatchingEventOnly
