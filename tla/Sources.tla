------------------------------- MODULE Sources -------------------------------
(***************************************************************************)
(* Preparing a patched source tree: Sources.prepare of src/tools/          *)
(* sources.py, run by several builds at once, any of which may be killed,  *)
(* while a developer edits the recipe, the pins or the patches (one        *)
(* version stands for all of them).                                        *)
(***************************************************************************)
EXTENDS Integers

CONSTANTS
  Builds,   \* concurrent runs of prepare
  Edits,    \* bound: edits of the inputs
  Mishaps   \* bound: builds killed, downloads that fail or are wrong

ASSUME SourcesAssumption == Edits \in Nat /\ Mishaps \in Nat

VARIABLES
  inputs,   \* the version of recipe, pins and patches
  target,   \* build/sources/<name>: content, receipt; history: made while the
            \* inputs were edited (mixed)
  cache,    \* build/downloads/<archive>.tar: none, or good
  build,    \* each run: where it is, the identity it computed, what it built
  mishaps   \* what is left of the bound

srcVars == <<inputs, target, cache, build, mishaps>>

NoTarget == [there |-> FALSE, content |-> 0, receipt |-> 0, mixed |-> FALSE]
NoBuild == [pc |-> "idle", identity |-> 0, content |-> 0, edited |-> FALSE]

At(b, pc) == build[b].pc = pc
Goes(b, pc) == build' = [build EXCEPT ![b].pc = pc]
Mishap == mishaps > 0 /\ mishaps' = mishaps - 1

Identify(b) ==
  /\ At(b, "idle")
  /\ build' = [build EXCEPT ![b] = [NoBuild EXCEPT !.pc = "look", !.identity = inputs]]
  /\ UNCHANGED <<inputs, target, cache, mishaps>>

\* The receipt of a tree that exists decides whether it is still good.
ReceiptMatches_always(b) == TRUE
ReceiptMatches(b) == target.receipt = build[b].identity

Look(b) ==
  /\ At(b, "look")
  /\ Goes(b, IF ~target.there THEN "fetch" ELSE IF ReceiptMatches(b) THEN "ready" ELSE "refused")
  /\ UNCHANGED <<inputs, target, cache, mishaps>>

\* A download becomes the cached archive, in one step, once its digest is right.
Fetch(b) ==
  /\ At(b, "fetch")
  /\ \/ Goes(b, "extract") /\ cache' = TRUE /\ UNCHANGED mishaps
     \/ ~cache /\ Mishap /\ Goes(b, "refused") /\ UNCHANGED cache
  /\ UNCHANGED <<inputs, target>>

\* Extracted, patched and copied into, in a directory of the run's own: the
\* inputs are read again.
Extract(b) ==
  /\ At(b, "extract")
  /\ build' = [build EXCEPT ![b].pc = "rename", ![b].content = inputs]
  /\ UNCHANGED <<inputs, target, cache, mishaps>>

Tree(b) ==
  [there |-> TRUE, content |-> build[b].content, receipt |-> build[b].identity,
   mixed |-> build[b].edited]

\* With its receipt inside, the tree is renamed; onto one that exists it is not.
Rename(b) ==
  /\ At(b, "rename")
  /\ IF target.there THEN Goes(b, "refused") /\ UNCHANGED target
     ELSE /\ target' = Tree(b)
          /\ Goes(b, "ready")
  /\ UNCHANGED <<inputs, cache, mishaps>>

\* The caller is done with the tree, or reports the error, and starts anew.
Done(b) ==
  /\ build[b].pc \in {"ready", "refused"}
  /\ build' = [build EXCEPT ![b] = NoBuild]
  /\ UNCHANGED <<inputs, target, cache, mishaps>>

Killed(b) ==
  /\ ~At(b, "idle") /\ Mishap
  /\ build' = [build EXCEPT ![b] = NoBuild]
  /\ UNCHANGED <<inputs, target, cache>>

\* Inputs change; after a refusal the developer removes the tree.
Edit ==
  /\ inputs <= Edits
  /\ inputs' = inputs + 1
  /\ build' = [b \in Builds |-> [build[b] EXCEPT !.edited = ~At(b, "idle")]]
  /\ UNCHANGED <<target, cache, mishaps>>

Remove ==
  /\ target.there /\ \A b \in Builds : build[b].pc \in {"idle", "refused"}
  /\ \E b \in Builds : At(b, "refused")
  /\ target' = NoTarget
  /\ UNCHANGED <<inputs, cache, build, mishaps>>

SrcInit ==
  /\ inputs = 1 /\ target = NoTarget /\ cache = FALSE /\ mishaps = Mishaps
  /\ build = [b \in Builds |-> NoBuild]

SrcBuild(b) ==
  Identify(b) \/ Look(b) \/ Fetch(b) \/ Extract(b) \/ Rename(b) \/ Done(b) \/ Killed(b)
SrcNext == Edit \/ Remove \/ \E b \in Builds : SrcBuild(b)

SrcSpec == SrcInit /\ [][SrcNext]_srcVars

-----------------------------------------------------------------------------
(* Properties *)

\* A build goes on only with a tree made from the very inputs it saw, unless
\* they were edited while it ran or while the tree was made.
BuildsFromItsInputs ==
  \A b \in Builds :
    At(b, "ready") /\ ~build[b].edited
      => /\ target.receipt = build[b].identity /\ build[b].identity = inputs
         /\ target.mixed \/ target.content = inputs
=============================================================================
