-------------------------- MODULE MCControlChannel --------------------------
(* Instances of ControlChannel for TLC. *)
EXTENDS ControlChannel, TLC

CONSTANTS c1, c2, c3

ThreeClients == {c1, c2, c3}

\* A second fault is explored while one of the clients has not called.
TwoFaultsTwoCalls ==
  faults < 2 \/ \E c \in Client : client[c].stage = "idle"

ClientSymmetry == Permutations(ThreeClients)
=============================================================================
