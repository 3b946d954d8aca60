SPECIFICATION Spec
CONSTANTS
    net = net
    ap1 = ap1
    ap2 = ap2
    none = none
    zero = zero
    r1 = r1
    SSID <- OneNet
    BSSID <- OneAP
    NoSSID = none
    NoAP = zero
    Reader <- OneReader
    SeqMod = 2
    StartSequences = {0}
    ConnTicks = 1
    ScanTicks = 1
    MaxConnections = 2
    MaxScans = 0
    MaxLowerEvents = 1
INVARIANTS NoCarrierWithoutLink
