---------------------------- MODULE RemoteCalls ----------------------------
(***************************************************************************)
(* What the private control channel promises a local guest client, without *)
(* sessions, identifiers, queues or reconnects: a call is executed at most *)
(* once, an answer is the outcome of the caller's own execution, and a     *)
(* refusal means that the call was not and will never be executed.  A call *)
(* whose connection is closed without an answer ("failed") is uncertain:   *)
(* it may have been executed, may still be executing, or may start later.  *)
(***************************************************************************)

CONSTANTS
  Client      \* local connections to the broker, one call each

VARIABLES
  call,       \* what the client knows of its call
  served      \* what the host did with it

vars == <<call, served>>

\* Nobody has called yet.
Init ==
  /\ call = [c \in Client |-> "idle"]
  /\ served = [c \in Client |-> "no"]

\* A client connects and makes its call.
Ask(c) ==
  /\ call[c] = "idle"
  /\ call' = [call EXCEPT ![c] = "waiting"]
  /\ UNCHANGED served

\* The host starts the call: at most once, and never after a refusal.
Serve(c) ==
  /\ served[c] = "no"
  /\ call[c] \in {"waiting", "failed"}
  /\ served' = [served EXCEPT ![c] = "running"]
  /\ UNCHANGED call

\* The host's worker finishes, whether or not anybody still waits for it.
Finish(c) ==
  /\ served[c] = "running"
  /\ served' = [served EXCEPT ![c] = "done"]
  /\ UNCHANGED call

\* The client gets the outcome of its own call.
Answer(c) ==
  /\ call[c] = "waiting" /\ served[c] = "done"
  /\ call' = [call EXCEPT ![c] = "answered"]
  /\ UNCHANGED served

\* The client is told that its call was not carried out.
Refuse(c) ==
  /\ call[c] = "waiting" /\ served[c] = "no"
  /\ call' = [call EXCEPT ![c] = "refused"]
  /\ UNCHANGED served

\* Connections are closed without an answer, several at once when the broker
\* dies; also a client that is turned away when it connects.
Fail(S) ==
  /\ S # {} /\ \A c \in S : call[c] \in {"idle", "waiting"}
  /\ call' = [c \in Client |-> IF c \in S THEN "failed" ELSE call[c]]
  /\ UNCHANGED served

Next ==
  \/ \E c \in Client :
       Ask(c) \/ Serve(c) \/ Finish(c) \/ Answer(c) \/ Refuse(c)
  \/ \E S \in SUBSET Client : Fail(S)

Spec == Init /\ [][Next]_vars
=============================================================================
