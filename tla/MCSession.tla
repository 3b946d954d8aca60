----------------------------- MODULE MCSession ------------------------------
(* Instances of Session for TLC. *)
EXTENDS Session

Session_(arms, ends, deaths, switches) ==
  [arms |-> arms, ends |-> ends, deaths |-> deaths, switches |-> switches]

\* An armed action with a fault of each kind; two session changes; more ends
\* of the app and of children than are retried.
SessionInstances ==
  {Session_(1, 1, 1, 0), Session_(1, 0, 0, 2), Session_(0, 4, 0, 0), Session_(0, 0, 4, 0)}
=============================================================================
