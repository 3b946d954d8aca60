-------------------------- MODULE MCLinuxhostWifi --------------------------
(* Small instances of the cfg80211 driver for TLC.                           *)
EXTENDS LinuxhostWifi, TLC

CONSTANTS net, ap1, ap2, none, zero, r1

OneNet == {net}
OneAP == {ap1}
TwoAPs == {ap1, ap2}
OneReader == {r1}

\* Scans and changes of the lower device are explored apart, and each of them
\* with at most one connection request.
OneDisturbance ==
    /\ used.scans = 0 \/ used.lower = 0
    /\ used.scans + used.lower = 0 \/ used.connections <= 1

APSymmetry == Permutations(TwoAPs)
=============================================================================
