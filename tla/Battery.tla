------------------------------- MODULE Battery -------------------------------
(***************************************************************************)
(* The Mac's battery in the guest: src/guest/drivers/battery/feed.py       *)
(* watches the status file the agent replaces and writes the driver of     *)
(* src/guest/drivers/battery/linuxhost_battery.c, which forgets a value    *)
(* that is not renewed.  Time is counted in units of 5 seconds.            *)
(***************************************************************************)
EXTENDS Integers, FiniteSetsExt

CONSTANTS
  Statuses,   \* bound: status files written
  Removals    \* bound: times the runtime directory is replaced

ASSUME BatteryAssumption == Statuses \in Nat /\ Removals \in Nat

VARIABLES
  status,  \* the file: its number, age, and whether its telemetry is valid
  watch,   \* StatusWatch: installed, an event waits, the directory was replaced
  feed,    \* main: where it is, and the number of the file it read last
  supply,  \* the driver: present, time since the write, age of what it shows
  batLeft  \* what is left of the bounds

batVars == <<status, watch, feed, supply, batLeft>>

Fresh == 4    \* publish takes a file of at most 20 seconds
Watchdog == 6 \* the driver forgets after 30 seconds
Old == Fresh + Watchdog + 2

\* The age of the file is checked, then its telemetry is written.
publish_any == status.valid
publish == status.valid /\ status.age <= Fresh

Publishes ==
  /\ supply' = IF publish THEN [present |-> TRUE, updated |-> 0, shown |-> status.age, due |-> supply.due]
               ELSE supply
  /\ feed' = [pc |-> "wait", read |-> status.number]

NoWatch == [armed |-> FALSE, event |-> FALSE, lost |-> FALSE]

\* StatusWatch: fails, and is tried again, while there is no directory.
Install ==
  /\ feed.pc = "install" /\ status.number > 0
  /\ watch' = [NoWatch EXCEPT !.armed = TRUE]
  /\ feed' = [feed EXCEPT !.pc = "publish"]
  /\ UNCHANGED <<status, supply, batLeft>>

FirstPublish ==
  /\ feed.pc = "publish"
  /\ Publishes
  /\ UNCHANGED <<status, watch, batLeft>>

\* wait returns: the file was replaced, or the directory and all is retried.
Wait ==
  /\ feed.pc = "wait"
  /\ \/ watch.event /\ ~watch.lost /\ Publishes /\ watch' = [watch EXCEPT !.event = FALSE]
     \/ watch.lost /\ watch' = NoWatch /\ feed' = [feed EXCEPT !.pc = "install"] /\ UNCHANGED supply
  /\ UNCHANGED <<status, batLeft>>

\* The agent renames a new snapshot over the file.
AgentWrites ==
  /\ batLeft.statuses > 0
  /\ batLeft' = [batLeft EXCEPT !.statuses = @ - 1]
  /\ \E v \in BOOLEAN :
       status' = [number |-> Statuses - batLeft.statuses + 1, age |-> 0, valid |-> v]
  /\ watch' = [watch EXCEPT !.event = @ \/ (watch.armed /\ ~watch.lost)]
  /\ UNCHANGED <<feed, supply>>

\* The agent's runtime directory is replaced, and its file with it.
DirectoryReplaced ==
  /\ batLeft.removals > 0 /\ batLeft.statuses > 0
  /\ batLeft' = [batLeft EXCEPT !.removals = @ - 1]
  /\ status' = [number |-> 0, age |-> 0, valid |-> FALSE]
  /\ watch' = [watch EXCEPT !.lost = watch.armed]
  /\ UNCHANGED <<feed, supply>>

expire ==
  /\ supply.due
  /\ supply' = [supply EXCEPT !.due = FALSE, !.present = @ /\ supply.updated <= Watchdog]
  /\ UNCHANGED <<status, watch, feed, batLeft>>

\* The driver's work runs every 5 seconds; the feed runs when it can.
FiveSeconds ==
  /\ ~supply.due
  /\ status' = [status EXCEPT !.age = Min({Old, @ + 1})]
  /\ supply' = [supply EXCEPT !.due = TRUE, !.updated = Min({Old, @ + 1}),
                              !.shown = Min({Old, @ + 1})]
  /\ UNCHANGED <<watch, feed, batLeft>>

BatInit ==
  /\ status = [number |-> 0, age |-> 0, valid |-> FALSE]
  /\ watch = NoWatch
  /\ feed = [pc |-> "install", read |-> 0]
  /\ supply = [present |-> FALSE, updated |-> 0, shown |-> 0, due |-> FALSE]
  /\ batLeft = [statuses |-> Statuses, removals |-> Removals]

BatNext ==
  Install \/ FirstPublish \/ Wait \/ AgentWrites \/ DirectoryReplaced \/ expire \/ FiveSeconds

BatSpec == BatInit /\ [][BatNext]_batVars

-----------------------------------------------------------------------------
(* Properties *)

\* A feed that waits has read the latest file, or is about to be woken: no
\* file is lost between the watch and the read, nor with its directory.
UpdateNotLost ==
  feed.pc = "wait" => feed.read = status.number \/ watch.event \/ watch.lost

\* What the guest shows of the battery is never older than a file may be
\* when it is read and the driver keeps it, and one round of its work.
ShownIsRecent == supply.present => supply.shown <= Fresh + Watchdog + 1

\* The battery shown is the Mac's: no reading is missed, and none outlives its
\* time.
BatteryShown == UpdateNotLost /\ ShownIsRecent
=============================================================================
