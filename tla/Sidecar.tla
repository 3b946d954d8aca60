------------------------------- MODULE Sidecar -------------------------------
(***************************************************************************)
(* Requests to the Mac's display helper: src/host/devices/                 *)
(* SidecarService.swift.  Each request runs a child process of its own;    *)
(* its output is read on a global queue, everything else happens on the    *)
(* main queue.  Requests and children are numbered alike.                  *)
(***************************************************************************)
EXTENDS Integers, FiniteSets

CONSTANTS DisplayRequests  \* bound: requests that start a child

ASSUME SidecarAssumption == DisplayRequests \in Nat

VARIABLES
  sidecar,   \* process: the child whose request is open, 0 for none; requests so far
  children,  \* children running, killed and not yet gone, and those that ended
  blocks,    \* what is queued: deadlines, reads, and results for the main queue
  replies    \* history: <<request, child>>: whose result answered a request

sideVars == <<sidecar, children, blocks, replies>>

\* request: refused while another is open, or without a helper that starts.
SidecarRequest ==
  /\ sidecar.process = 0 /\ sidecar.count < DisplayRequests
  /\ LET c == sidecar.count + 1
     IN /\ sidecar' = [process |-> c, count |-> c]
        /\ children' = [children EXCEPT !.running = @ \cup {c}]
        /\ blocks' = [blocks EXCEPT !.deadlines = @ \cup {c}, !.reads = @ \cup {c}]
  /\ UNCHANGED replies

\* The deadline's block is cancelled if it has not begun.
finish(c) ==
  /\ sidecar' = [sidecar EXCEPT !.process = 0]
  /\ replies' = replies \cup {<<sidecar.process, c>>}

cancel ==
  /\ children' = [children EXCEPT !.running = @ \ {sidecar.process},
                                  !.killed = @ \cup ({sidecar.process} \cap children.running)]
  /\ finish(sidecar.process)

\* A block of an earlier child finds another process, or none.
OwnBlock_open(c) == sidecar.process # 0
OwnBlock(c) == sidecar.process = c

Deadline(c) ==
  /\ c \in blocks.deadlines
  /\ blocks' = [blocks EXCEPT !.deadlines = @ \ {c}]
  /\ IF OwnBlock(c) THEN cancel ELSE UNCHANGED <<sidecar, children, replies>>

\* The service stops, or the session is left.
CancelAll ==
  /\ sidecar.process # 0
  /\ cancel
  /\ blocks' = [blocks EXCEPT !.deadlines = @ \ {sidecar.process}]

HelperEnds(c) ==
  /\ c \in children.running \cup children.killed
  /\ children' = [running |-> children.running \ {c}, killed |-> children.killed \ {c}]
  /\ UNCHANGED <<sidecar, blocks, replies>>

\* The reader saw the end of the output, and waited for the child to exit; it
\* kills a child that says too much.
ReadOverflow(c) ==
  /\ c \in blocks.reads \cap children.running
  /\ children' = [running |-> children.running \ {c}, killed |-> children.killed \cup {c}]
  /\ UNCHANGED <<sidecar, blocks, replies>>

ReadEnds(c) ==
  /\ c \in blocks.reads \ (children.running \cup children.killed)
  /\ blocks' = [blocks EXCEPT !.reads = @ \ {c}, !.results = @ \cup {c}]
  /\ UNCHANGED <<sidecar, children, replies>>

Result(c) ==
  /\ c \in blocks.results
  /\ IF OwnBlock(c)
     THEN /\ finish(c)
          /\ blocks' = [blocks EXCEPT !.results = @ \ {c}, !.deadlines = @ \ {c}]
     ELSE /\ blocks' = [blocks EXCEPT !.results = @ \ {c}]
          /\ UNCHANGED <<sidecar, replies>>
  /\ UNCHANGED children

SideInit ==
  /\ sidecar = [process |-> 0, count |-> 0]
  /\ children = [running |-> {}, killed |-> {}]
  /\ blocks = [deadlines |-> {}, reads |-> {}, results |-> {}]
  /\ replies = {}

SideChild(c) == Deadline(c) \/ HelperEnds(c) \/ ReadOverflow(c) \/ ReadEnds(c) \/ Result(c)
SideNext == SidecarRequest \/ CancelAll \/ \E c \in 1..sidecar.count : SideChild(c)

SideSpec == SideInit /\ [][SideNext]_sideVars

-----------------------------------------------------------------------------
(* Properties *)

\* A request is answered once, and only with the result of its own child.
AnsweredByItsOwn ==
  /\ \A r \in replies : r[1] = r[2]
  /\ Cardinality(replies) = sidecar.count - (IF sidecar.process = 0 THEN 0 ELSE 1)

\* The private framework runs in one child at a time: any other is dead or
\* killed.
OneHelper == children.running \subseteq {sidecar.process}

\* Helpers run one at a time, and each answers for itself, once.
HelpersApart == AnsweredByItsOwn /\ OneHelper

=============================================================================
