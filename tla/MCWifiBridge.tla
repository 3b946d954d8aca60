---------------------------- MODULE MCWifiBridge ----------------------------
(* Instances of WifiBridge for TLC: one network with two access points.     *)
EXTENDS WifiBridge, TLC

CONSTANTS b, s, a1, a2

OneBridge == {b}
OneNet == {s}
TwoAPs == {a1, a2}

PrivateAPs == {[ssid |-> s, bssid |-> a, security |-> "psk"] : a \in TwoAPs}

AnyOrPinned == {[ssid |-> s, bssid |-> a, psk |-> TRUE] : a \in TwoAPs \cup {NoAP}}

FirstLoad == {0}

\* The bridge reads nothing of the lower device: one value of its carrier will do.
LowerHasCarrier == lower.carrier

\* Scans are explored apart from connection requests. One connection request
\* meets every combination of a death of the bridge, a failure and a move of the
\* Mac; two meet a death or a failure (and, in a run of their own, moves).
OneDisturbance ==
    /\ LowerHasCarrier
    /\ used.scans = 0 \/ used.connections = 0
    /\ \/ used.connections <= 1
       \/ bridge.crashes + mac.failures <= 1 /\ mac.moves = 0

APSymmetry == Permutations(TwoAPs)
=============================================================================
