SPECIFICATION BridgeSpec
CONSTANTS
    b = b
    s = s
    a1 = a1
    a2 = a2
    Bridge = b
    Reader <- OneBridge
    SSID <- OneNet
    BSSID <- TwoAPs
    NoSSID = NoSSID
    NoAP = NoAP
    NoAssociation = NoAssociation
    Nearby <- PrivateAPs
    GuestRequests <- AnyOrPinned
    SeqMod = 4
    StartSequences <- FirstLoad
    ConnTicks = 1
    ScanTicks = 1
    MaxConnections = 2
    MaxScans = 0
    MaxLowerEvents = 0
    MaxMacMoves = 1
    MaxFailures = 1
    MaxCrashes = 0
CONSTRAINT LowerHasCarrier
SYMMETRY APSymmetry
INVARIANTS
    LinkReal
