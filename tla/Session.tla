------------------------------ MODULE Session ------------------------------
(***************************************************************************)
(* One VM session: the supervisor src/host/session/session.py with its     *)
(* service children (user_services.py), QEMU and its QMP socket, the app   *)
(* behind the launcher (src/host/frontend/Launcher.swift), the armed power *)
(* action of src/host/control/Control.swift and the root power helper,     *)
(* src/helpers/power/PowerHelper.swift.  The guest arms an action, shuts   *)
(* down, QEMU reports the shutdown and exits, the supervisor tells the app,*)
(* and the app has the helper carry the action out.  Crashes, stops, the   *)
(* session switching away and deadlines intervene anywhere.                *)
(***************************************************************************)
EXTENDS Integers, Sequences, FiniteSets

CONSTANTS
  MaxDisplayRetries, \* restarts of the display within 60 s, 3 in the code
  SessionBudgets     \* bounds, one record per instance explored: actions
                     \* armed (arms), ends of the app (ends), deaths of a
                     \* child (deaths), session changes (switches)

ASSUME SessionAssumption ==
  /\ MaxDisplayRetries \in Nat
  /\ SessionBudgets \subseteq
       [arms : Nat, ends : Nat, deaths : Nat, switches : Nat]

VARIABLES
  sup,      \* the supervisor: where it is, STOP, the shutdown deadline
  qemu,     \* QEMU: its state, unread QMP events, whether the guest shut down
  app,      \* launcher and app: view, the pending action, its deadline
  power,    \* the action on its way: the app's timer, the helper's
  service,  \* UserServices: the one service child; the video child
  acts,     \* history: actions armed, withdrawn, executed
  sessLeft  \* what is left of the budget

sessVars == <<sup, qemu, app, power, service, acts, sessLeft>>

SessSpend(kind) ==
  /\ sessLeft[kind] > 0
  /\ sessLeft' = [sessLeft EXCEPT ![kind] = @ - 1]

SessInit ==
  /\ sup = [at |-> "networks", stop |-> FALSE, deadline |-> "none",
            retries |-> 0, clean |-> FALSE]
  /\ qemu = [at |-> "none", events |-> <<>>, off |-> FALSE]
  /\ app = [view |-> "none", pending |-> 0, due |-> FALSE, active |-> TRUE]
  /\ power = [at |-> "none", act |-> 0]
  /\ service = [at |-> "none", cleaned |-> FALSE, retries |-> 0,
                stray |-> FALSE, video |-> "none", videoRetries |-> 0]
  /\ acts = [armed |-> 0, withdrawn |-> {}, owed |-> {}, done |-> {}]
  /\ sessLeft \in SessionBudgets

QemuAlive == qemu.at \in {"paused", "running", "ending"}

-----------------------------------------------------------------------------
(* main: startup.  Anything that fails ends in the finally clause.         *)

StartFailed ==
  /\ sup.at \in {"networks", "qmp", "control"}
  /\ sup' = [sup EXCEPT !.at = "finally"]
  /\ UNCHANGED <<qemu, app, power, service, acts, sessLeft>>

\* Both network helpers answer: services, video and QEMU, paused, start.
NetworksReady ==
  /\ sup.at = "networks" /\ ~sup.stop
  /\ sup' = [sup EXCEPT !.at = "qmp"]
  /\ service' = [service EXCEPT !.at = "up", !.video = "up"]
  /\ qemu' = [qemu EXCEPT !.at = "paused"]
  /\ UNCHANGED <<app, power, acts, sessLeft>>

\* QMP answers; the launcher starts the app.
QmpReady ==
  /\ sup.at = "qmp" /\ QemuAlive
  /\ sup' = [sup EXCEPT !.at = "control"]
  /\ app' = [app EXCEPT !.view = "starting"]
  /\ UNCHANGED <<qemu, power, service, acts, sessLeft>>

\* The app's control endpoint answers: the guest may run.
ControlReady ==
  /\ sup.at = "control" /\ app.view = "up"
  /\ sup' = [sup EXCEPT !.at = "loop"]
  /\ qemu' = [qemu EXCEPT !.at = IF @ = "paused" THEN "running" ELSE @]
  /\ UNCHANGED <<app, power, service, acts, sessLeft>>

-----------------------------------------------------------------------------
(* main: the loop *)

\* UserServices.poll: a dead child is reaped and the rest of its group
\* signalled once; a new child starts unless it was tried three times, or in
\* the last ten seconds ("may").
poll(s, may) ==
  LET reaped == [s EXCEPT !.at = "reaped", !.cleaned = TRUE,
                          !.stray = @ \/ (~s.cleaned /\ s.at = "reaped")]
  IN IF s.at \notin {"dead", "reaped"} THEN s
     ELSE IF may /\ s.retries < 3
     THEN [reaped EXCEPT !.at = "up", !.cleaned = FALSE, !.retries = @ + 1]
     ELSE reaped

\* The video child is started again up to three times a minute.
Video(s) ==
  IF s.video = "dead" /\ s.videoRetries < 3
  THEN [s EXCEPT !.video = "up", !.videoRetries = @ + 1] ELSE s

\* As Turn, but the order and its deadline are given anew on every turn.
Turn_renews(s, view) ==
  [s EXCEPT !.at = "select",
            !.deadline = IF s.stop \/ view = "exit0" THEN "set" ELSE @]

\* The rest of a turn: the shutdown order on STOP or when the user closed
\* the app, a new launcher when the app crashed.
Turn(s, view) ==
  IF s.deadline # "none"
  THEN [s EXCEPT !.at = IF s.deadline = "due" THEN "finally" ELSE "select"]
  ELSE IF s.stop \/ view = "exit0"
  THEN [s EXCEPT !.at = "select", !.deadline = "set"]
  ELSE IF view # "exit1" THEN [s EXCEPT !.at = "select"]
  ELSE IF s.retries >= MaxDisplayRetries THEN [s EXCEPT !.at = "finally"]
  ELSE [s EXCEPT !.at = "select", !.retries = @ + 1]

\* A turn of the loop up to select; the loop ends once QEMU has exited.
LoopTop ==
  /\ sup.at = "loop"
  /\ UNCHANGED <<qemu, power, acts, sessLeft>>
  /\ IF ~QemuAlive
     THEN sup' = [sup EXCEPT !.at = "after"] /\ UNCHANGED <<app, service>>
     ELSE /\ sup' = Turn(sup, app.view)
          /\ app' = IF app.view = "exit1" /\ sup'.retries > sup.retries
                    THEN [app EXCEPT !.view = "starting"] ELSE app
          /\ IF sup.stop \/ sup.deadline # "none" THEN UNCHANGED service
             ELSE \E may \in BOOLEAN : service' = Video(poll(service, may))

\* As LoopSelect, but any SHUTDOWN event counts as the guest's.
LoopSelect_any ==
  /\ sup.at = "select"
  /\ \/ sup' = [sup EXCEPT !.at = "loop"] /\ UNCHANGED qemu
     \/ /\ qemu.events # <<>>
        /\ sup' = [sup EXCEPT !.at = "loop", !.clean = TRUE]
        /\ qemu' = [qemu EXCEPT !.events = <<>>]
  /\ UNCHANGED <<app, power, service, acts, sessLeft>>

\* select and the reading of QMP: nothing yet, the events that have come, or
\* the end of the stream.  The last SHUTDOWN event decides.
LoopSelect ==
  /\ sup.at = "select"
  /\ \/ /\ qemu.events = <<>> /\ QemuAlive
        /\ sup' = [sup EXCEPT !.at = "loop"]
        /\ UNCHANGED qemu
     \/ /\ qemu.events # <<>>
        /\ sup' = [sup EXCEPT !.at = "loop",
                     !.clean = qemu.events[Len(qemu.events)] = "guest"]
        /\ qemu' = [qemu EXCEPT !.events = <<>>]
     \/ /\ qemu.events = <<>> /\ ~QemuAlive
        /\ sup' = [sup EXCEPT !.at = "after"]
        /\ UNCHANGED qemu
  /\ UNCHANGED <<app, power, service, acts, sessLeft>>

-----------------------------------------------------------------------------
(* Control in the app.  Actions are numbered in the order they are armed.  *)

Withdraw(a, act) == [a EXCEPT !.withdrawn = @ \cup ({act} \ {0})]

\* The supervisor's word: the pending action is taken unless its time is up
\* or the session is not active.
vm_stopped ==
  /\ power' = IF app.pending # 0 /\ ~app.due /\ app.active
              THEN [at |-> "queued", act |-> app.pending] ELSE power
  /\ app' = [app EXCEPT !.pending = 0]
  /\ acts' = IF power' = power THEN Withdraw(acts, app.pending) ELSE acts

\* After the loop: a clean stop is reported to an app that still runs.  A
\* call that fails ends in the finally clause like everything else.
After ==
  /\ sup.at = "after" /\ ~QemuAlive
  /\ sup' = [sup EXCEPT !.at = "finally"]
  /\ IF sup.clean /\ app.view = "up" THEN vm_stopped
     ELSE UNCHANGED <<app, power, acts>>
  /\ UNCHANGED <<qemu, service, sessLeft>>

\* finally: a last order to shut down (its 30 s are the step below), then the
\* children and the services are stopped.  The supervisor slept three
\* seconds after its report, longer than the app's timer of one.
Finally ==
  /\ sup.at = "finally" /\ power.at # "queued"
  /\ sup' = [sup EXCEPT !.at = IF QemuAlive THEN "ending" ELSE "reaping"]
  /\ UNCHANGED <<qemu, app, power, service, acts, sessLeft>>

\* QEMU obeyed, or its 30 seconds are over and it is terminated.
Terminate ==
  /\ sup.at = "ending"
  /\ sup' = [sup EXCEPT !.at = "reaping"]
  /\ qemu' = [qemu EXCEPT !.at = IF QemuAlive THEN "failed" ELSE @]
  /\ UNCHANGED <<app, power, service, acts, sessLeft>>

\* UserServices.stop; the video child is one of the children.
stop(s) ==
  [s EXCEPT !.at = "none", !.video = "none",
            !.stray = @ \/ (s.at = "reaped" /\ ~s.cleaned)]

\* As Reap, but the launcher is not among the children.
Reap_without_view ==
  /\ sup.at = "reaping"
  /\ sup' = [sup EXCEPT !.at = "stopped"]
  /\ service' = stop(service)
  /\ UNCHANGED <<app, qemu, power, acts, sessLeft>>

\* The children are terminated, killed after five seconds, and waited for;
\* the launcher takes the app with it.
Reap ==
  /\ sup.at = "reaping"
  /\ sup' = [sup EXCEPT !.at = "stopped"]
  /\ app' = [app EXCEPT !.view = "none", !.pending = 0]
  /\ service' = stop(service)
  /\ UNCHANGED <<qemu, power, acts, sessLeft>>

SupStep == \/ StartFailed \/ NetworksReady \/ QmpReady \/ ControlReady
           \/ LoopTop \/ LoopSelect \/ After \/ Finally \/ Terminate \/ Reap

-----------------------------------------------------------------------------
(* The environment of the supervisor *)

\* SIGTERM or SIGINT.
Signal ==
  /\ ~sup.stop /\ sup.at # "stopped"
  /\ sup' = [sup EXCEPT !.stop = TRUE]
  /\ UNCHANGED <<qemu, app, power, service, acts, sessLeft>>

\* The 60 seconds of the shutdown order pass.
DeadlinePasses ==
  /\ sup.deadline = "set"
  /\ sup' = [sup EXCEPT !.deadline = "due"]
  /\ UNCHANGED <<qemu, app, power, service, acts, sessLeft>>

\* A minute after it, a restart of the display, of the service or of the
\* video child counts no more.
RetryForgotten ==
  /\ sup.at = "loop"
  /\ \/ /\ sup.retries > 0
        /\ sup' = [sup EXCEPT !.retries = @ - 1] /\ UNCHANGED service
     \/ /\ service.retries > 0
        /\ service' = [service EXCEPT !.retries = @ - 1] /\ UNCHANGED sup
     \/ /\ service.videoRetries > 0
        /\ service' = [service EXCEPT !.videoRetries = @ - 1] /\ UNCHANGED sup
  /\ UNCHANGED <<qemu, app, power, acts, sessLeft>>

\* An action that a clean shutdown must now complete.
Owed == IF app.view = "up" /\ app.pending # 0 /\ ~app.due
        THEN {app.pending} ELSE {}

\* The guest shuts down, or QEMU is told to by a signal.
Shutdown(by) ==
  /\ qemu.at = "running"
  /\ by = "host" => SessSpend("deaths")
  /\ by = "guest" => UNCHANGED sessLeft
  /\ qemu' = [qemu EXCEPT !.at = "ending", !.off = by = "guest",
                          !.events = Append(@, by)]
  /\ acts' = IF by = "guest" THEN [acts EXCEPT !.owed = Owed] ELSE acts
  /\ UNCHANGED <<sup, app, power, service>>

QemuExit ==
  /\ qemu.at = "ending"
  /\ qemu' = [qemu EXCEPT !.at = "gone"]
  /\ UNCHANGED <<sup, app, power, service, acts, sessLeft>>

QemuCrash ==
  /\ QemuAlive /\ SessSpend("deaths")
  /\ qemu' = [qemu EXCEPT !.at = "failed"]
  /\ UNCHANGED <<sup, app, power, service, acts>>

ServiceDies ==
  /\ SessSpend("deaths")
  /\ \/ service.at = "up" /\ service' = [service EXCEPT !.at = "dead"]
     \/ service.video = "up" /\ service' = [service EXCEPT !.video = "dead"]
  /\ UNCHANGED <<sup, qemu, app, power, acts>>

AppStarts ==
  /\ app.view = "starting"
  /\ app' = [app EXCEPT !.view = "up", !.due = FALSE]
  /\ UNCHANGED <<sup, qemu, power, service, acts, sessLeft>>

\* The app is closed or crashes; what was pending is gone with it.
AppEnds ==
  /\ app.view = "up" /\ SessSpend("ends")
  /\ \E to \in {"closed", "crashed"} :
       app' = [app EXCEPT !.view = to, !.pending = 0]
  /\ power' = IF power.at = "queued" THEN [at |-> "none", act |-> 0] ELSE power
  /\ acts' = Withdraw(Withdraw(acts, app.pending),
                      IF power.at = "queued" THEN power.act ELSE 0)
  /\ UNCHANGED <<sup, qemu, service>>

\* The launcher sees the app's end and exits: 0 with a clean receipt.
applicationExited ==
  /\ app.view \in {"closed", "crashed"}
  /\ app' = [app EXCEPT !.view = IF @ = "closed" THEN "exit0" ELSE "exit1"]
  /\ UNCHANGED <<sup, qemu, power, service, acts, sessLeft>>

-----------------------------------------------------------------------------
(* The armed action *)

\* poweroff, restart or logout from the guest, which then shuts down.
Arm ==
  /\ app.view = "up" /\ qemu.at = "running"
  /\ app.active /\ app.pending = 0
  /\ SessSpend("arms")
  /\ acts' = [acts EXCEPT !.armed = @ + 1]
  /\ app' = [app EXCEPT !.pending = acts.armed + 1, !.due = FALSE]
  /\ UNCHANGED <<sup, qemu, power, service>>

\* 120 seconds pass; within two more the timer drops the action.
ArmedTooLong ==
  /\ app.pending # 0 /\ ~app.due
  /\ app' = [app EXCEPT !.due = TRUE]
  /\ acts' = Withdraw(acts, app.pending)
  /\ UNCHANGED <<sup, qemu, power, service, sessLeft>>

TimerDrops ==
  /\ app.pending # 0 /\ app.due
  /\ app' = [app EXCEPT !.pending = 0]
  /\ UNCHANGED <<sup, qemu, power, service, acts, sessLeft>>

\* Another user's session comes to the front, which drops a pending action
\* when the notification is handled; an action under way is not withdrawn.
Switch ==
  /\ SessSpend("switches")
  /\ app' = [app EXCEPT !.active = ~@,
                        !.pending = IF app.active THEN 0 ELSE @]
  /\ acts' = IF app.active THEN Withdraw(acts, app.pending) ELSE acts
  /\ UNCHANGED <<sup, qemu, power, service>>

NoPower == [at |-> "none", act |-> 0]

\* The action goes on if it may, else it is dropped.
Forward(may, to) ==
  /\ power' = IF may THEN [power EXCEPT !.at = to] ELSE NoPower
  /\ acts' = IF may THEN acts ELSE Withdraw(acts, power.act)
  /\ UNCHANGED <<sup, qemu, app, service, sessLeft>>

\* The app's one-second timer: dropped if the session has changed.
PowerTimer == power.at = "queued" /\ Forward(app.active, "helper")

\* The helper checks the session, the policy and the other users, then waits
\* a second and checks the session again before it executes.
Helper(allowed) ==
  power.at = "helper" /\ Forward(allowed /\ app.active, "waiting")

HelperExecutes ==
  /\ power.at = "waiting"
  /\ IF app.active
     THEN /\ power' = NoPower
          /\ acts' = [acts EXCEPT !.done = @ \cup {power.act}]
          /\ UNCHANGED <<sup, qemu, app, service, sessLeft>>
     ELSE Forward(FALSE, "none")

SessNext ==
  \/ SupStep \/ Signal \/ DeadlinePasses \/ RetryForgotten
  \/ \E by \in {"guest", "host"} : Shutdown(by)
  \/ QemuExit \/ QemuCrash \/ ServiceDies
  \/ AppStarts \/ AppEnds \/ applicationExited
  \/ Arm \/ ArmedTooLong \/ TimerDrops \/ Switch \/ PowerTimer
  \/ \E allowed \in BOOLEAN : Helper(allowed)
  \/ HelperExecutes

\* The supervisor, the launcher and the timers run; a QEMU that has reported
\* its shutdown exits.
SessFairness ==
  /\ WF_sessVars(SupStep) /\ WF_sessVars(DeadlinePasses)
  /\ WF_sessVars(QemuExit) /\ WF_sessVars(applicationExited)
  /\ WF_sessVars(PowerTimer)

SessSpec == SessInit /\ [][SessNext]_sessVars /\ SessFairness

-----------------------------------------------------------------------------
(* Properties *)

\* An action leaves the app only after the guest shut itself down and QEMU is
\* gone, never after a crash or a shutdown ordered by a signal, and one
\* that was withdrawn (its 120 seconds passed, the session was switched away
\* while it was pending, the app ended) is never executed later.
PowerAfterCleanStop ==
  /\ power.at # "none" => qemu.off /\ ~QemuAlive
  /\ (acts.done \cup {power.act}) \cap acts.withdrawn = {}

\* When the supervisor has stopped, however it came to that, neither QEMU
\* nor the app nor a service is left running without it.
NothingLeftRunning ==
  sup.at = "stopped" => /\ ~QemuAlive
                        /\ app.view \in {"none", "exit0", "exit1"}
                        /\ service.at = "none" /\ service.video = "none"

\* A process group is signalled by UserServices only while its leader has
\* not been reaped, or right when it is: later its number may belong to
\* another process.
NoStraySignal == ~service.stray

\* The supervisor ends all it started and signals nothing else.
EndsItsOwn == NothingLeftRunning /\ NoStraySignal

\* A stop signal or a closed app ends the session, whatever QEMU, the guest
\* and the app do.
SessionEnds ==
  []<>(sup.stop \/ app.view = "exit0" => sup.at = "stopped")

\* A clean shutdown of the guest completes the armed action: once the
\* supervisor has stopped, the action pending when the guest shut down was
\* handed on, or was withdrawn.
CleanStopCompletes ==
  sup.at = "stopped" =>
    acts.owed \subseteq acts.withdrawn \cup acts.done \cup {power.act}
=============================================================================
