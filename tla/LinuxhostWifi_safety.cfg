SPECIFICATION Spec
CONSTANTS
    net = net
    ap1 = ap1
    ap2 = ap2
    none = none
    zero = zero
    r1 = r1
    SSID <- OneNet
    BSSID <- TwoAPs
    NoSSID = none
    NoAP = zero
    Reader <- OneReader
    SeqMod = 4
    StartSequences = {2}
    ConnTicks = 1
    ScanTicks = 1
    MaxConnections = 2
    MaxScans = 2
    MaxLowerEvents = 1
SYMMETRY APSymmetry
CONSTRAINT OneDisturbance
INVARIANTS LinkKept RequestGuarded CarrierTruth
PROPERTY NoEarlyTimeout
