---------------------------- MODULE MCServices ----------------------------
(* The FIDO2 relay, Bluetooth and the preparation of sources for TLC.  As  *)
(* in MCDevices each behaviour moves one of them, the focus.               *)
EXTENDS Fido2, Bluetooth, Sources

VARIABLE focus    \* the component that moves

\* A budget with which nothing happens.
Nobody ==
  [k \in {"boot", "ops", "cli", "changes", "news", "switches", "calls", "agents",
          "scans", "losses", "stales", "minutes", "lapses", "leaves",
          "quits"} |-> 0]

SrvInit ==
  /\ focus \in {"fido", "bluetooth", "sources"}
  /\ FidoInit /\ BtInit /\ SrcInit
  /\ focus # "fido" => fidoLeft = CHOOSE b \in FidoBudgets : TRUE
  /\ focus # "bluetooth" => host.paired /\ btLeft = Nobody

SrvNext ==
  /\ UNCHANGED focus
  /\ \/ focus = "fido" /\ FidoNext /\ UNCHANGED <<btVars, srcVars>>
     \/ focus = "bluetooth" /\ BtNext /\ UNCHANGED <<fidoVars, srcVars>>
     \/ focus = "sources" /\ SrcNext /\ UNCHANGED <<fidoVars, btVars>>

srvVars == <<fidoVars, btVars, srcVars, focus>>

\* The fairness of each component, while it is the one that moves.
SrvFairness ==
  /\ WF_fidoVars(focus = "fido" /\ FidoTick)
  /\ WF_fidoVars(focus = "fido" /\ Timeouts)
  /\ WF_fidoVars(focus = "fido" /\ HostDeadline)
  /\ WF_fidoVars(/\ focus = "fido" /\ core.current # None /\ core.current.cancelled
                 /\ HostComplete(FALSE))
  /\ WF_btVars(focus = "bluetooth" /\ PendingChange)
  /\ WF_btVars(focus = "bluetooth" /\ ConnectionDone)
  /\ WF_btVars(focus = "bluetooth" /\ AttemptEnds)
  /\ WF_btVars(focus = "bluetooth" /\ ScanEnds)
  /\ WF_btVars(focus = "bluetooth" /\ Publish)
  /\ WF_btVars(focus = "bluetooth" /\ status_changed)
  /\ WF_btVars(focus = "bluetooth" /\ Expiry)
  /\ WF_btVars(focus = "bluetooth" /\ Refresh)
  /\ WF_btVars(focus = "bluetooth" /\ Retry)
  /\ WF_btVars(focus = "bluetooth" /\ bz.key = NoKey /\ Reconcile)
  /\ WF_btVars(focus = "bluetooth" /\ ReadFinished)
  /\ WF_btVars(focus = "bluetooth" /\ Read)
  /\ WF_btVars(focus = "bluetooth" /\ expire_state)
  /\ WF_btVars(focus = "bluetooth" /\ FifteenSeconds)
  /\ \A c \in {"bluez", "cli"} : WF_btVars(focus = "bluetooth" /\ Turn(c))
  /\ \A s \in Senders : WF_btVars(focus = "bluetooth" /\ owner_changed(s))

SrvSpec == SrvInit /\ [][SrvNext]_srvVars /\ SrvFairness

\* Two ceremonies with a loss or a stop of the relay; one with a revocation
\* too; one with more channels than the relay keeps.
FidoInstances ==
  {[inits |-> 1, ceremonies |-> 2, revokes |-> 0, cuts |-> 1],
   [inits |-> 1, ceremonies |-> 1, revokes |-> 1, cuts |-> 1],
   [inits |-> 3, ceremonies |-> 1, revokes |-> 0, cuts |-> 0]}

\* Two operations and an agent; a start with the Mac switching away; a
\* discovery whose client leaves; a silent feed; the bridge's end; two agents;
\* a second change while the first is being read.
BtInstances ==
  {Nobody,
   [Nobody EXCEPT !.ops = 1, !.cli = 1, !.agents = 1],
   [Nobody EXCEPT !.boot = 1, !.changes = 1, !.switches = 1, !.losses = 1, !.news = 2],
   [Nobody EXCEPT !.changes = 1, !.calls = 1, !.scans = 1, !.leaves = 1, !.news = 1],
   [Nobody EXCEPT !.changes = 1, !.stales = 1, !.lapses = 1, !.minutes = 1, !.news = 1],
   [Nobody EXCEPT !.ops = 1, !.losses = 1, !.quits = 1, !.news = 1],
   [Nobody EXCEPT !.ops = 1, !.agents = 2, !.leaves = 1],
   [Nobody EXCEPT !.changes = 2, !.news = 2]}
=============================================================================
