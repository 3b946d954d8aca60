--------------------------- MODULE Services_proofs ---------------------------
(***************************************************************************)
(* Proofs about services of the host and the guest: QEMU and its           *)
(* supervisor, the prepared source trees, the power of the radio, and the  *)
(* touchpad.                                                               *)
(***************************************************************************)
EXTENDS Session, Sources, WifiPower, Trackpad, TLAPS, FiniteSetTheorems

-----------------------------------------------------------------------------
(* QEMU and its supervisor *)

SupStates == {"networks", "qmp", "control", "loop", "select", "after", "finally",
              "ending", "reaping", "stopped"}
QemuStates == {"none", "paused", "running", "ending", "gone", "failed"}

SupTypes ==
  /\ sup \in [at : SupStates, stop : BOOLEAN, deadline : {"none", "set", "due"},
              retries : Int, clean : BOOLEAN]
  /\ qemu \in [at : QemuStates, events : {<<>>, <<"guest">>, <<"host">>}, off : BOOLEAN]
  /\ power = [at |-> power.at, act |-> power.act]

\* A QEMU that has not ended has reported nothing.  What the supervisor read,
\* or will read, as the guest's own shutdown was that.  An action is under way
\* only after it, and QEMU does not come back.
StopInv ==
  /\ SupTypes
  /\ qemu.at \in {"none", "paused", "running"} =>
       qemu.events = <<>> /\ ~qemu.off /\ ~sup.clean
  /\ qemu.events = <<"guest">> \/ sup.clean => qemu.off
  /\ sup.at = "networks" => qemu.at = "none"
  /\ sup.at \in {"reaping", "stopped"} => ~QemuAlive
  /\ power.at # "none" => qemu.off /\ ~QemuAlive

\* Every step keeps the invariant.
LEMMA StopStep == StopInv /\ [SessNext]_sessVars => StopInv'
<1> SUFFICES ASSUME StopInv, [SessNext]_sessVars PROVE StopInv'
  OBVIOUS
<1> USE DEF StopInv, SupTypes, SupStates, QemuStates, QemuAlive
<1>1. CASE StartFailed
  BY <1>1, Zenon DEF StartFailed
<1>2. CASE NetworksReady
  BY <1>2, Zenon DEF NetworksReady
<1>3. CASE QmpReady
  BY <1>3, Zenon DEF QmpReady
<1>4. CASE ControlReady
  BY <1>4, Zenon DEF ControlReady
<1>5. CASE LoopTop
  <2>1. CASE ~QemuAlive
    BY <1>5, <2>1 DEF LoopTop
  <2>2. CASE QemuAlive
    <3>1. sup' = Turn(sup, app.view) /\ UNCHANGED <<qemu, power>>
      BY <1>5, <2>2, Zenon DEF LoopTop
    <3>2. /\ sup' \in [at : {"select", "finally"}, stop : BOOLEAN,
                       deadline : {"none", "set", "due"}, retries : Int, clean : BOOLEAN]
          /\ sup'.clean = sup.clean
      <4>1. \/ sup' = [sup EXCEPT !.at = "finally"]
            \/ sup' = [sup EXCEPT !.at = "select"]
            \/ sup' = [sup EXCEPT !.at = "select", !.deadline = "set"]
            \/ sup' = [sup EXCEPT !.at = "select", !.retries = @ + 1]
        BY <3>1, Zenon DEF Turn
      <4>2. CASE sup' = [sup EXCEPT !.at = "finally"]
        BY <4>2, Zenon
      <4>3. CASE sup' = [sup EXCEPT !.at = "select"]
        BY <4>3, Zenon
      <4>4. CASE sup' = [sup EXCEPT !.at = "select", !.deadline = "set"]
        BY <4>4, Zenon
      <4>5. CASE sup' = [sup EXCEPT !.at = "select", !.retries = @ + 1]
        <5>1. sup.retries + 1 \in Int
          OBVIOUS
        <5> QED
          BY <4>5, <5>1, Zenon
      <4> QED
        BY <4>1, <4>2, <4>3, <4>4, <4>5, Zenon
    <3> QED
      BY <3>1, <3>2, Zenon
  <2> QED
    BY <2>1, <2>2, Zenon
<1>6. CASE LoopSelect
  <2>1. CASE qemu.events = <<>>
    BY <1>6, <2>1 DEF LoopSelect
  <2>2. CASE qemu.events # <<>>
    <3>1. PICK by \in {"guest", "host"} : qemu.events = <<by>>
      BY <2>2, Zenon
    <3>2. qemu.events[Len(qemu.events)] = by
      BY <3>1
    <3>3. /\ sup' = [sup EXCEPT !.at = "loop", !.clean = by = "guest"]
          /\ qemu' = [qemu EXCEPT !.events = <<>>] /\ UNCHANGED power
      BY <1>6, <2>2, <3>2, Zenon DEF LoopSelect
    <3>4. by = "guest" => qemu.off
      BY <3>1, Zenon
    <3>5. qemu.at \notin {"none", "paused", "running"}
      BY <2>2, Zenon
    <3> QED
      BY <3>3, <3>4, <3>5, Zenon
  <2> QED
    BY <2>1, <2>2, Zenon
<1>7. CASE After
  BY <1>7 DEF After, vm_stopped
<1>8. CASE Finally
  BY <1>8, Zenon DEF Finally
<1>9. CASE Terminate
  BY <1>9, Zenon DEF Terminate
<1>10. CASE Reap
  BY <1>10, Zenon DEF Reap
<1>11. CASE Signal \/ DeadlinePasses
  BY <1>11, Zenon DEF Signal, DeadlinePasses
<1>12. CASE RetryForgotten
  BY <1>12 DEF RetryForgotten
<1>13. ASSUME NEW by \in {"guest", "host"}, Shutdown(by) PROVE StopInv'
  <2>1. qemu.at = "running" /\ Append(qemu.events, by) = <<by>>
    <3>1. qemu.at = "running" /\ qemu.events = <<>>
      BY <1>13, Zenon DEF Shutdown
    <3>2. Append(<<>>, by) = <<by>>
      OBVIOUS
    <3> QED
      BY <3>1, <3>2, Zenon
  <2>2. /\ qemu' = [qemu EXCEPT !.at = "ending", !.off = by = "guest", !.events = <<by>>]
        /\ UNCHANGED <<sup, power>>
    BY <1>13, <2>1, Zenon DEF Shutdown
  <2>3. <<by>> \in {<<>>, <<"guest">>, <<"host">>} /\ (<<by>> = <<"guest">> => by = "guest")
    OBVIOUS
  <2> QED
    BY <2>1, <2>2, <2>3, Zenon
<1>14. CASE QemuExit \/ QemuCrash
  BY <1>14 DEF QemuExit, QemuCrash
<1>15. CASE ServiceDies \/ AppStarts \/ applicationExited
  BY <1>15, Zenon DEF ServiceDies, AppStarts, applicationExited
<1>16. CASE AppEnds
  BY <1>16 DEF AppEnds
<1>17. CASE Arm \/ ArmedTooLong \/ TimerDrops \/ Switch
  BY <1>17 DEF Arm, ArmedTooLong, TimerDrops, Switch
<1>18. CASE PowerTimer
  BY <1>18 DEF PowerTimer, Forward, NoPower
<1>19. ASSUME NEW allowed \in BOOLEAN, Helper(allowed) PROVE StopInv'
  BY <1>19 DEF Helper, Forward, NoPower
<1>20. CASE HelperExecutes
  BY <1>20 DEF HelperExecutes, Forward, NoPower
<1>21. CASE UNCHANGED sessVars
  BY <1>21 DEF sessVars
<1> QED
  BY <1>1, <1>2, <1>3, <1>4, <1>5, <1>6, <1>7, <1>8, <1>9, <1>10, <1>11, <1>12, <1>13,
     <1>14, <1>15, <1>16, <1>17, <1>18, <1>19, <1>20, <1>21, Zenon DEF SessNext, SupStep
-----------------------------------------------------------------------------
(* The armed action *)

\* With p pending in an app that shows view, and x on its way: actions are
\* numbered; each is pending in a running app, on its way, executed or
\* withdrawn, and one whose time is up is withdrawn though still pending.
ActsHold(view, p, due, x, a) ==
  /\ a = [armed |-> a.armed, withdrawn |-> a.withdrawn, owed |-> a.owed, done |-> a.done]
  /\ a.armed \in Nat /\ p \in 0..a.armed /\ x \in 0..a.armed
  /\ a.done \cup a.withdrawn \subseteq 1..a.armed
  /\ p # 0 => view = "up" /\ p # x /\ p \notin a.done /\ (due \/ p \notin a.withdrawn)
  /\ x \notin a.done \cup a.withdrawn
  /\ a.done \cap a.withdrawn = {}

\* The same of the state; and there is no app before QEMU answers.
ActsInv ==
  /\ app = [view |-> app.view, pending |-> app.pending, due |-> app.due,
             active |-> app.active]
  /\ power = [at |-> power.at, act |-> power.act]
  /\ power.at = "none" <=> power.act = 0
  /\ sup.at \in {"networks", "qmp"} => app.view = "none"
  /\ ActsHold(app.view, app.pending, app.due, power.act, acts)

\* Withdraw, with or without dropping what was pending.
LEMMA Withdrawn ==
  ASSUME NEW view, NEW p, NEW due, NEW x, NEW a, ActsHold(view, p, due, x, a)
  PROVE  /\ \A v, d : ActsHold(v, 0, d, x, Withdraw(a, p))
         /\ ActsHold(view, p, TRUE, x, Withdraw(a, p))
         /\ ActsHold(view, p, due, 0, Withdraw(a, x))
<1>1. ASSUME NEW y \in {p, x}
      PROVE  /\ Withdraw(a, y) = [armed |-> a.armed, withdrawn |-> a.withdrawn \cup ({y} \ {0}),
                                   owed |-> a.owed, done |-> a.done]
  BY DEF ActsHold, Withdraw
<1> QED
  BY <1>1 DEF ActsHold
\* An action is executed, a new one is armed, the guest shuts down.
LEMMA Carried ==
  ASSUME NEW view, NEW p, NEW due, NEW x, NEW a, ActsHold(view, p, due, x, a)
  PROVE  /\ x # 0 => ActsHold(view, p, due, 0, [a EXCEPT !.done = @ \cup {x}])
         /\ view = "up" /\ p = 0 =>
              ActsHold(view, a.armed + 1, FALSE, x, [a EXCEPT !.armed = @ + 1])
         /\ \A o : ActsHold(view, p, due, x, [a EXCEPT !.owed = o])
<1>1. ASSUME x # 0 PROVE ActsHold(view, p, due, 0, [a EXCEPT !.done = @ \cup {x}])
  <2>1. [a EXCEPT !.done = @ \cup {x}] =
          [armed |-> a.armed, withdrawn |-> a.withdrawn, owed |-> a.owed, done |-> a.done \cup {x}]
    BY DEF ActsHold
  <2> QED
    BY <1>1, <2>1 DEF ActsHold
<1>2. ASSUME view = "up", p = 0
      PROVE  ActsHold(view, a.armed + 1, FALSE, x, [a EXCEPT !.armed = @ + 1])
  <2>1. [a EXCEPT !.armed = @ + 1] =
          [armed |-> a.armed + 1, withdrawn |-> a.withdrawn, owed |-> a.owed, done |-> a.done]
    BY DEF ActsHold
  <2> QED
    BY <1>2, <2>1 DEF ActsHold
<1>3. ASSUME NEW o PROVE ActsHold(view, p, due, x, [a EXCEPT !.owed = o])
  <2>1. [a EXCEPT !.owed = o] =
          [armed |-> a.armed, withdrawn |-> a.withdrawn, owed |-> o, done |-> a.done]
    BY DEF ActsHold
  <2> QED
    BY <2>1, Zenon DEF ActsHold
<1> QED
  BY <1>1, <1>2, <1>3, Zenon

\* Every step keeps the invariant.
LEMMA ActsStep == StopInv /\ ActsInv /\ [SessNext]_sessVars => ActsInv'
<1> SUFFICES ASSUME StopInv, ActsInv, [SessNext]_sessVars PROVE ActsInv'
  OBVIOUS
<1> USE DEF StopInv, SupTypes, ActsInv
<1>1. CASE \/ StartFailed \/ NetworksReady \/ ControlReady \/ LoopSelect
           \/ Finally \/ Terminate \/ Signal \/ DeadlinePasses \/ RetryForgotten
           \/ QemuExit \/ QemuCrash \/ ServiceDies
           \/ UNCHANGED sessVars
  BY <1>1, Zenon DEF StartFailed, NetworksReady, ControlReady, LoopSelect, Finally,
     Terminate, Signal, DeadlinePasses, RetryForgotten, QemuExit, QemuCrash, ServiceDies,
     sessVars
<1>2. CASE QmpReady \/ AppStarts \/ applicationExited
  BY <1>2, Zenon DEF QmpReady, AppStarts, applicationExited, ActsHold
<1>3. CASE LoopTop
  BY <1>3, ZenonT(40) DEF LoopTop, Turn, ActsHold
<1>4. CASE After
  <2>1. CASE sup.clean /\ app.view = "up"
    <3>1. vm_stopped /\ sup' = [sup EXCEPT !.at = "finally"]
      BY <1>4, <2>1, Zenon DEF After
    <3>2. CASE app.pending # 0 /\ ~app.due /\ app.active
      <4>1. /\ power' = [at |-> "queued", act |-> app.pending]
            /\ app' = [app EXCEPT !.pending = 0]
        BY <3>1, <3>2, Zenon DEF vm_stopped
      <4>2. power' # power
        BY <3>2, <4>1 DEF ActsHold
      <4>3. acts' = acts
        BY <3>1, <4>2, Zenon DEF vm_stopped
      <4>4. ActsHold(app.view, 0, app.due, app.pending, acts)
        BY <3>2 DEF ActsHold
      <4> QED
        BY <3>1, <3>2, <4>1, <4>3, <4>4, Zenon
    <3>3. CASE ~(app.pending # 0 /\ ~app.due /\ app.active)
      BY <3>1, <3>3, Withdrawn, Zenon DEF vm_stopped
    <3> QED
      BY <3>2, <3>3, Zenon
  <2>2. CASE ~(sup.clean /\ app.view = "up")
    BY <1>4, <2>2, Zenon DEF After
  <2> QED
    BY <2>1, <2>2, Zenon
<1>5. CASE Reap
  <2>1. ActsHold("none", 0, app.due, power.act, acts)
    BY DEF ActsHold
  <2> QED
    BY <1>5, <2>1, Zenon DEF Reap
<1>6. ASSUME NEW by \in {"guest", "host"}, Shutdown(by) PROVE ActsInv'
  BY <1>6, Carried, Zenon DEF Shutdown
<1>7. CASE AppEnds
  <2>1. PICK to \in {"closed", "crashed"} : app' = [app EXCEPT !.view = to, !.pending = 0]
    BY <1>7, Zenon DEF AppEnds
  <2>2. ActsHold(to, 0, app.due, power.act, Withdraw(acts, app.pending))
    BY Withdrawn, Zenon
  <2>3. UNCHANGED sup /\ app.view = "up"
    BY <1>7, Zenon DEF AppEnds
  <2>4. CASE power.at = "queued"
    <3>1. ActsHold(to, 0, app.due, 0, Withdraw(Withdraw(acts, app.pending), power.act))
      BY <2>2, Withdrawn, Zenon
    <3>2. /\ power' = [at |-> "none", act |-> 0]
          /\ acts' = Withdraw(Withdraw(acts, app.pending), power.act)
      BY <1>7, <2>4, Zenon DEF AppEnds
    <3> QED
      BY <2>1, <2>3, <3>1, <3>2, Zenon
  <2>5. CASE power.at # "queued"
    <3>1. UNCHANGED power /\ acts' = Withdraw(Withdraw(acts, app.pending), 0)
      BY <1>7, <2>5, Zenon DEF AppEnds
    <3>2. Withdraw(Withdraw(acts, app.pending), 0) = Withdraw(acts, app.pending)
      <4>1. \A b : b = [armed |-> b.armed, withdrawn |-> b.withdrawn, owed |-> b.owed,
                        done |-> b.done] => Withdraw(b, 0) = b
        BY DEF Withdraw
      <4> QED
        BY <2>2, <4>1, Zenon DEF ActsHold
    <3> QED
      BY <2>1, <2>2, <2>3, <3>1, <3>2, Zenon
  <2> QED
    BY <2>4, <2>5, Zenon
<1>8. CASE Arm
  BY <1>8, Carried, Zenon DEF Arm
<1>9. CASE ArmedTooLong
  BY <1>9, Withdrawn, Zenon DEF ArmedTooLong
<1>10. CASE TimerDrops
  <2>1. ActsHold(app.view, 0, app.due, power.act, acts)
    BY DEF ActsHold
  <2> QED
    BY <1>10, <2>1, Zenon DEF TimerDrops
<1>11. CASE Switch
  BY <1>11, Withdrawn, Zenon DEF Switch
<1>12. ASSUME NEW may, NEW to \in {"helper", "waiting"}, Forward(may, to), power.at # "none"
       PROVE  ActsInv'
  BY <1>12, Withdrawn, Zenon DEF Forward, NoPower
<1>13. CASE PowerTimer
  BY <1>12, <1>13, Zenon DEF PowerTimer
<1>14. ASSUME NEW allowed \in BOOLEAN, Helper(allowed) PROVE ActsInv'
  BY <1>12, <1>14, Zenon DEF Helper
<1>15. CASE HelperExecutes
  <2>1. CASE app.active
    <3>1. ActsHold(app.view, app.pending, app.due, 0, [acts EXCEPT !.done = @ \cup {power.act}])
      BY <1>15, Carried, Zenon DEF HelperExecutes
    <3>2. /\ power' = [at |-> "none", act |-> 0] /\ UNCHANGED <<sup, app>>
          /\ acts' = [acts EXCEPT !.done = @ \cup {power.act}]
      BY <1>15, <2>1, Zenon DEF HelperExecutes, NoPower
    <3> QED
      BY <3>1, <3>2, Zenon
  <2>2. CASE ~app.active
    <3>1. ActsHold(app.view, app.pending, app.due, 0, Withdraw(acts, power.act))
      BY Withdrawn, Zenon
    <3> QED
      BY <1>15, <2>2, <3>1 DEF HelperExecutes, Forward, NoPower
  <2> QED
    BY <2>1, <2>2, Zenon
<1> QED
  BY <1>1, <1>2, <1>3, <1>4, <1>5, <1>6, <1>7, <1>8, <1>9, <1>10, <1>11, <1>13, <1>14,
     <1>15, Zenon
  DEF SessNext, SupStep
-----------------------------------------------------------------------------
(* The services and the app *)

\* A reaped service has had its group signalled, and nothing was signalled later.
ServiceKept(s) ==
  /\ s = [at |-> s.at, cleaned |-> s.cleaned, retries |-> s.retries, stray |-> s.stray,
          video |-> s.video, videoRetries |-> s.videoRetries]
  /\ s.stray = FALSE
  /\ s.at = "reaped" => s.cleaned = TRUE

\* When the supervisor has stopped neither a service nor the app is left.
EndsInv ==
  /\ ServiceKept(service)
  /\ app = [view |-> app.view, pending |-> app.pending, due |-> app.due,
             active |-> app.active]
  /\ sup.at = "stopped" => /\ app.view = "none"
                            /\ service.at = "none" /\ service.video = "none"

\* A turn of the loop reaps, signals and restarts.
LEMMA PollKeeps ==
  ASSUME NEW s, ServiceKept(s), NEW may \in BOOLEAN
  PROVE  ServiceKept(Video(poll(s, may)))
<1> DEFINE t == poll(s, may)
<1>1. ServiceKept(t)
  BY Zenon DEF ServiceKept, poll
<1> HIDE DEF t
<1>2. \/ Video(t) = t
      \/ Video(t) = [t EXCEPT !.video = "up", !.videoRetries = @ + 1]
  BY Zenon DEF Video
<1> QED
  BY <1>1, <1>2, Zenon DEF ServiceKept, t

\* Every step keeps the invariant.
LEMMA EndsStep == StopInv /\ EndsInv /\ [SessNext]_sessVars => EndsInv'
<1> SUFFICES ASSUME StopInv, EndsInv, [SessNext]_sessVars PROVE EndsInv'
  OBVIOUS
<1> USE DEF StopInv, SupTypes, EndsInv, ServiceKept
<1>1. CASE \/ StartFailed \/ ControlReady \/ LoopSelect \/ Finally \/ Terminate \/ Signal
           \/ DeadlinePasses \/ QemuExit \/ QemuCrash \/ UNCHANGED sessVars
  BY <1>1, Zenon DEF StartFailed, ControlReady, LoopSelect, Finally, Terminate, Signal,
     DeadlinePasses, QemuExit, QemuCrash, sessVars
<1>2. CASE NetworksReady
  BY <1>2, Zenon DEF NetworksReady
<1>3. CASE QmpReady \/ AppStarts \/ applicationExited \/ AppEnds
  BY <1>3, Zenon DEF QmpReady, AppStarts, applicationExited, AppEnds
<1>4. CASE LoopTop
  <2>1. sup'.at # "stopped"
    BY <1>4, Zenon DEF LoopTop, Turn
  <2>2. UNCHANGED service \/ \E may \in BOOLEAN : service' = Video(poll(service, may))
    BY <1>4, Zenon DEF LoopTop
  <2>3. app' = app \/ app' = [app EXCEPT !.view = "starting"]
    BY <1>4, Zenon DEF LoopTop
  <2>4. ServiceKept(service')
    <3> HIDE DEF ServiceKept
    <3> QED
      BY <2>2, PollKeeps
  <2> QED
    BY <2>1, <2>3, <2>4, Zenon
<1>5. CASE After
  BY <1>5, Zenon DEF After, vm_stopped
<1>6. CASE Reap
  BY <1>6, Zenon DEF Reap, stop
<1>7. CASE RetryForgotten
  BY <1>7 DEF RetryForgotten
<1>8. CASE ServiceDies
  BY <1>8, Zenon DEF ServiceDies
<1>9. ASSUME NEW by \in {"guest", "host"}, Shutdown(by) PROVE EndsInv'
  BY <1>9, Zenon DEF Shutdown
<1>10. CASE Arm \/ ArmedTooLong \/ TimerDrops \/ Switch
  BY <1>10, Zenon DEF Arm, ArmedTooLong, TimerDrops, Switch
<1>11. ASSUME NEW allowed \in BOOLEAN, PowerTimer \/ Helper(allowed) \/ HelperExecutes
       PROVE  EndsInv'
  BY <1>11, Zenon DEF PowerTimer, Helper, HelperExecutes, Forward
<1> QED
  BY <1>1, <1>2, <1>3, <1>4, <1>5, <1>6, <1>7, <1>8, <1>9, <1>10, <1>11, Zenon DEF SessNext, SupStep

-----------------------------------------------------------------------------
(* Theorems *)

\* The three invariants hold together.
SessInv == StopInv /\ ActsInv /\ EndsInv

\* Every step of the session keeps them.
LEMMA SessInvariant == SessSpec => []SessInv
<1>1. SessInit => SessInv
  <2> SUFFICES ASSUME SessInit PROVE SessInv
    OBVIOUS
  <2>1. StopInv
    BY DEF SessInit, StopInv, SupTypes, SupStates, QemuStates, QemuAlive
  <2>2. ActsInv
    BY DEF SessInit, ActsInv, ActsHold
  <2>3. EndsInv
    BY Zenon DEF SessInit, EndsInv, ServiceKept
  <2> QED
    BY <2>1, <2>2, <2>3, Zenon DEF SessInv
<1>2. SessInv /\ [SessNext]_sessVars => SessInv'
  BY StopStep, ActsStep, EndsStep, Zenon DEF SessInv
<1> QED
  BY <1>1, <1>2, PTL DEF SessSpec

\* main of session.py, Control and PowerHelper: the Mac's power action leaves
\* the app only after the guest shut itself down and QEMU is gone, and one
\* that was withdrawn is never executed.
THEOREM PowerOnlyAfterCleanStop == SessSpec => []PowerAfterCleanStop
<1>1. SessInv => PowerAfterCleanStop
  BY Zenon DEF SessInv, StopInv, ActsInv, ActsHold, PowerAfterCleanStop
<1> QED
  BY <1>1, SessInvariant, PTL

\* The finally clause of session.py and UserServices: however the session
\* ends, QEMU, the app and the services end with it, and no process group is
\* signalled after its leader was reaped and cleaned up.
THEOREM SessionEndsItsOwn == SessSpec => []EndsItsOwn
<1>1. SessInv => EndsItsOwn
  BY Zenon
  DEF SessInv, StopInv, EndsInv, ServiceKept, EndsItsOwn, NothingLeftRunning,
     NoStraySignal
<1> QED
  BY <1>1, SessInvariant, PTL

-----------------------------------------------------------------------------
(* Prepared source trees: any builds, edits and mishaps *)

\* What one build knows: unless the inputs were edited while it ran, it
\* computed their identity and extracted their content; once it is ready, the
\* tree is there and bears its identity.
BuildInv(b) ==
  /\ build[b].pc # "idle" /\ ~build[b].edited => build[b].identity = inputs
  /\ build[b].pc = "rename" /\ ~build[b].edited => build[b].content = inputs
  /\ build[b].pc = "ready" => target.there /\ target.receipt = build[b].identity

Runs == [pc : {"idle", "look", "fetch", "extract", "rename", "ready", "refused"},
         identity : Int, content : Int, edited : BOOLEAN]

\* Builds keep to BuildInv, and a tree holds what its receipt names unless it
\* was made while the inputs were edited.
SrcInv ==
  /\ build \in [Builds -> Runs]
  /\ inputs \in Int
  /\ target.there => target.mixed \/ target.content = target.receipt
  /\ \A b \in Builds : BuildInv(b)

\* A step of one build, to state r, leaves the others' knowledge alone.
LEMMA OneBuild ==
  ASSUME SrcInv, NEW c \in Builds, NEW r \in Runs,
         build' = [build EXCEPT ![c] = r], UNCHANGED <<inputs, target>>,
         r.pc # "idle" /\ ~r.edited => r.identity = inputs,
         r.pc = "rename" /\ ~r.edited => r.content = inputs,
         r.pc = "ready" => target.there /\ target.receipt = r.identity
  PROVE  SrcInv'
<1>1. build' \in [Builds -> Runs]
  BY Zenon DEF SrcInv
<1>2. ASSUME NEW b \in Builds PROVE BuildInv(b)'
  <2>1. CASE b = c
    BY <2>1, Zenon DEF SrcInv, BuildInv
  <2>2. CASE b # c
    BY <2>2, Zenon DEF SrcInv, BuildInv
  <2> QED
    BY <2>1, <2>2, Zenon
<1> QED
  BY <1>1, <1>2, Zenon DEF SrcInv

\* Every step keeps the invariant.
LEMMA SrcStep == SrcInv /\ [SrcNext]_srcVars => SrcInv'
<1> SUFFICES ASSUME SrcInv, [SrcNext]_srcVars PROVE SrcInv'
  OBVIOUS
<1>1. CASE Edit
  <2>1. ASSUME NEW b \in Builds
        PROVE  /\ build'[b] = [build[b] EXCEPT !.edited = ~At(b, "idle")]
               /\ build'[b] \in Runs /\ BuildInv(b)'
    <3>1. build'[b] = [build[b] EXCEPT !.edited = ~At(b, "idle")] /\ build[b] \in Runs
      BY <1>1, Zenon DEF Edit, SrcInv
    <3>2. /\ build'[b] \in Runs
          /\ build'[b].pc = build[b].pc /\ build'[b].identity = build[b].identity
          /\ build'[b].edited = ~At(b, "idle")
      BY <3>1, Zenon DEF Runs, At
    <3> QED
      BY <1>1, <3>1, <3>2, Zenon DEF Edit, SrcInv, BuildInv, At
  <2>2. build' \in [Builds -> Runs]
    BY <1>1, <2>1, Zenon DEF Edit
  <2> QED
    BY <1>1, <2>1, <2>2 DEF Edit, SrcInv
<1>2. CASE Remove
  BY <1>2, Zenon DEF Remove, NoTarget, SrcInv, BuildInv
<1>3. ASSUME NEW c \in Builds, SrcBuild(c) PROVE SrcInv'
  <2> DEFINE me == build[c]
  <2>0. me \in Runs /\ BuildInv(c) /\ inputs \in Int
    BY Zenon DEF SrcInv
  <2>1. CASE Identify(c)
    <3> DEFINE r == [NoBuild EXCEPT !.pc = "look", !.identity = inputs]
    <3>1. NoBuild \in Runs
      BY DEF NoBuild, Runs
    <3>3. r \in Runs /\ r.pc = "look" /\ r.identity = inputs
      BY <2>0, <3>1, Zenon DEF Runs
    <3>2. build' = [build EXCEPT ![c] = r] /\ UNCHANGED <<inputs, target>>
      BY <2>1, Zenon DEF Identify
    <3> HIDE DEF r
    <3> QED
      BY <3>2, <3>3, OneBuild, Zenon
  <2>2. ASSUME NEW pc \in {"fetch", "extract", "refused"}, Goes(c, pc),
               me.pc # "idle", UNCHANGED <<inputs, target>>
        PROVE  SrcInv'
    <3> DEFINE r == [me EXCEPT !.pc = pc]
    <3>1. r \in Runs /\ r.pc = pc /\ r.identity = me.identity /\ r.edited = me.edited
      BY <2>0, <2>2, Zenon DEF Runs
    <3>2. build' = [build EXCEPT ![c] = r]
      BY <2>2, Zenon DEF Goes, SrcInv
    <3> HIDE DEF r
    <3> QED
      BY <2>0, <2>2, <3>1, <3>2, OneBuild, Zenon DEF BuildInv
  <2>3. CASE Look(c)
    <3>1. CASE target.there /\ ReceiptMatches(c)
      <4> DEFINE r == [me EXCEPT !.pc = "ready"]
      <4>1. r \in Runs /\ r.pc = "ready" /\ r.identity = me.identity /\ r.edited = me.edited
        BY <2>0, Zenon DEF Runs
      <4>2. build' = [build EXCEPT ![c] = r] /\ UNCHANGED <<inputs, target>>
        BY <2>3, <3>1, Zenon DEF Look, Goes, SrcInv
      <4>3. me.pc = "look" /\ target.receipt = me.identity
        BY <2>3, <3>1, Zenon DEF Look, At, ReceiptMatches
      <4> HIDE DEF r
      <4> QED
        BY <2>0, <3>1, <4>1, <4>2, <4>3, OneBuild, Zenon DEF BuildInv
    <3> QED
      BY <2>2, <2>3, <3>1, Zenon DEF Look, At
  <2>4. CASE Fetch(c)
    BY <2>2, <2>4, Zenon DEF Fetch, At
  <2>5. CASE Extract(c)
    <3> DEFINE r == [me EXCEPT !.pc = "rename", !.content = inputs]
    <3>1. /\ r \in Runs /\ r.pc = "rename" /\ r.content = inputs
          /\ r.identity = me.identity /\ r.edited = me.edited
      BY <2>0, Zenon DEF Runs
    <3>2. build' = [build EXCEPT ![c] = r] /\ UNCHANGED <<inputs, target>>
      BY <2>5, Zenon DEF Extract, SrcInv
    <3>3. me.pc = "extract"
      BY <2>5, Zenon DEF Extract, At
    <3> HIDE DEF r
    <3> QED
      BY <2>0, <3>1, <3>2, <3>3, OneBuild, Zenon DEF BuildInv
  <2>6. CASE Rename(c)
    <3>1. CASE target.there
      BY <2>2, <2>6, <3>1, Zenon DEF Rename, At
    <3>2. CASE ~target.there
      <4> DEFINE r == [me EXCEPT !.pc = "ready"]
      <4>1. r \in Runs /\ r.pc = "ready" /\ r.identity = me.identity /\ r.edited = me.edited
        BY <2>0, Zenon DEF Runs
      <4>2. build' = [build EXCEPT ![c] = r] /\ UNCHANGED inputs /\ me.pc = "rename"
        BY <2>6, <3>2, Zenon DEF Rename, Goes, SrcInv, At
      <4>3. /\ target'.there /\ target'.receipt = me.identity
            /\ target'.content = me.content /\ target'.mixed = me.edited
        BY <2>6, <3>2 DEF Rename, Tree
      <4>4. target'.mixed \/ target'.content = target'.receipt
        BY <2>0, <4>2, <4>3, Zenon DEF BuildInv
      <4> HIDE DEF r
      <4>5. build' \in [Builds -> Runs]
        BY <4>1, <4>2, Zenon DEF SrcInv
      <4>6. ASSUME NEW b \in Builds PROVE BuildInv(b)'
        <5>1. CASE b = c
          BY <2>0, <4>1, <4>2, <4>3, <5>1, Zenon DEF SrcInv, BuildInv
        <5>2. CASE b # c
          BY <3>2, <4>2, <5>2, Zenon DEF SrcInv, BuildInv
        <5> QED
          BY <5>1, <5>2, Zenon
      <4> QED
        BY <2>0, <4>2, <4>4, <4>5, <4>6, Zenon DEF SrcInv
    <3> QED
      BY <3>1, <3>2, Zenon
  <2>7. CASE Done(c) \/ Killed(c)
    <3>1. NoBuild \in Runs /\ NoBuild.pc = "idle"
      BY DEF NoBuild, Runs
    <3>2. build' = [build EXCEPT ![c] = NoBuild] /\ UNCHANGED <<inputs, target>>
      BY <2>7, Zenon DEF Done, Killed
    <3> QED
      BY <3>1, <3>2, OneBuild, Zenon
  <2> QED
    BY <1>3, <2>1, <2>3, <2>4, <2>5, <2>6, <2>7, Zenon DEF SrcBuild
<1>4. CASE UNCHANGED srcVars
  BY <1>4, Zenon DEF srcVars, SrcInv, BuildInv
<1> QED
  BY <1>1, <1>2, <1>3, <1>4, Zenon DEF SrcNext

\* Sources.prepare: a build goes on only with a tree whose receipt names the
\* inputs it saw and whose content is theirs, however many builds run, are
\* killed or meet an edit, unless an edit fell into that build or into the
\* making of the tree.
THEOREM PreparedFromInputs == SrcSpec => []BuildsFromItsInputs
<1>1. SrcInit => SrcInv
  BY DEF SrcInit, SrcInv, BuildInv, NoBuild, NoTarget, Runs
<1>2. SrcInv => BuildsFromItsInputs
  BY Zenon DEF SrcInv, BuildInv, BuildsFromItsInputs, At
<1> QED
  BY <1>1, <1>2, SrcStep, PTL DEF SrcSpec

-----------------------------------------------------------------------------
(* The power of the radio *)

-----------------------------------------------------------------------------
(* Induction *)

\* A set of naturals that is not empty has a least element.
LEMMA LeastNat ==
  ASSUME NEW T, T \subseteq Nat, T # {}
  PROVE  \E s \in T : \A t \in T : s <= t
<1> DEFINE R == OpToRel(<, Nat)
<1>1. IsWellFoundedOn(R, Nat)
  BY NatLessThanWellFounded, Zenon
<1>2. PICK s \in T : \A t \in T : ~ (<<t, s>> \in R)
  <2> HIDE DEF R
  <2> QED
    BY <1>1, WFMin, Zenon
<1>3. ASSUME NEW t \in T PROVE s <= t
  <2>1. ~ (<<t, s>> \in {ss \in Nat \X Nat : ss[1] < ss[2]})
    BY <1>2, Zenon DEF OpToRel
  <2> QED
    BY <2>1
<1> QED
  BY <1>2, <1>3, Zenon

\* Induction over the numbers, with a set where the library's theorem has an
\* operator.
LEMMA SetInduction ==
  ASSUME NEW S, 0 \in S, \A n \in Nat : n \in S => n + 1 \in S
  PROVE  Nat \subseteq S
<1>1. SUFFICES ASSUME Nat \ S # {} PROVE FALSE
  OBVIOUS
<1>2. PICK x \in Nat \ S : \A y \in Nat \ S : x <= y
  BY <1>1, LeastNat, Zenon
<1>3. x # 0 /\ x - 1 \in Nat /\ x - 1 < x
  BY <1>2
<1>4. x - 1 \in S
  BY <1>2, <1>3
<1>5. (x - 1) + 1 = x
  BY <1>2
<1> QED
  BY <1>2, <1>3, <1>4, <1>5, Zenon

\* Observed is the recursive function its definition writes: reading the queue
\* takes the events one after another, starting from what the service knows.
LEMMA ObservedSteps ==
  ASSUME queue \in Seq([soft : {0, 1}, by : {"user", "service"}])
  PROVE  Observed = [n \in 0..Len(queue) |->
           IF n = 0 THEN radio ELSE observe(Observed[n - 1], queue[n].soft)]
<1> DEFINE Is(g, m) == g = [n \in 0..m |->
             IF n = 0 THEN radio ELSE observe(g[n - 1], queue[n].soft)]
           S == {m \in Nat : \E g : Is(g, m)}
<1>1. 0 \in S
  <2>1. Is([n \in 0..0 |-> radio], 0)
    OBVIOUS
  <2> QED
    BY <2>1, Zenon
<1>2. ASSUME NEW m \in Nat, m \in S PROVE m + 1 \in S
  <2>1. PICK g : Is(g, m)
    BY <1>2, Zenon
  <2> DEFINE h == [n \in 0..(m + 1) |->
               IF n <= m THEN g[n] ELSE observe(g[m], queue[m + 1].soft)]
  <2>2. ASSUME NEW n \in 0..(m + 1)
        PROVE  h[n] = IF n = 0 THEN radio ELSE observe(h[n - 1], queue[n].soft)
    <3>1. CASE n = 0
      BY <2>1, <3>1
    <3>2. CASE n \in 1..m
      <4>1. n - 1 \in 0..m /\ n \in 0..m /\ n # 0 /\ n - 1 <= m /\ n <= m
            /\ n - 1 \in 0..(m + 1)
        BY <3>2
      <4>2. h[n] = g[n] /\ h[n - 1] = g[n - 1]
        BY <4>1, Zenon
      <4> HIDE DEF h
      <4>3. g[n] = observe(g[n - 1], queue[n].soft)
        BY <2>1, <4>1, Zenon
      <4> QED
        BY <4>1, <4>2, <4>3, Zenon
    <3>3. CASE n = m + 1
      <4>1. n # 0 /\ n - 1 = m /\ ~(n <= m) /\ m \in 0..(m + 1) /\ m <= m
        BY <3>3
      <4>2. h[n] = observe(g[m], queue[m + 1].soft) /\ h[m] = g[m]
        BY <4>1, Zenon
      <4> HIDE DEF h
      <4> QED
        BY <3>3, <4>1, <4>2, Zenon
    <3> QED
      BY <3>1, <3>2, <3>3
  <2>3. h = [n \in 0..(m + 1) |-> h[n]]
    OBVIOUS
  <2> HIDE DEF h
  <2>4. Is(h, m + 1)
    BY <2>2, <2>3, Zenon
  <2>5. m + 1 \in Nat
    OBVIOUS
  <2> HIDE DEF Is
  <2> QED
    BY <2>4, <2>5, Zenon
<1>3. Nat \subseteq S
  <2> HIDE DEF S
  <2> QED BY <1>1, <1>2, SetInduction, Zenon
<1>4. PICK g : Is(g, Len(queue))
  BY <1>3
<1> QED
  BY <1>4, Zenon DEF Observed

-----------------------------------------------------------------------------
(* The invariant *)

Choice == [serial : Nat, powered : BOOLEAN]
Key == {<<>>} \cup (Nat \X BOOLEAN)
Event == [soft : {0, 1}, by : {"user", "service"}]
RadioState ==
  [soft : {0, 1}, initialized : BOOLEAN, expected : {Nothing, 0, 1}, serial : Nat,
   pending : Choice]
LoopState ==
  [key : Key, busy : BOOLEAN, dirty : BOOLEAN, refresh : BOOLEAN, retry : BOOLEAN]
WorkState ==
  [at : {"idle", "fetch", "status", "done", "apply"}, attempt : Choice, key : Key,
   problem : BOOLEAN, known : BOOLEAN, powered : BOOLEAN]
MacState ==
  [powered : BOOLEAN, late : Seq(BOOLEAN), revision : Nat, active : BOOLEAN]
HistoryState ==
  [submitted : Seq(Nat), echo : BOOLEAN, raced : BOOLEAN, window : Nat]

PowType ==
  /\ soft \in {0, 1} /\ queue \in Seq(Event) /\ radio \in RadioState
  /\ loop \in LoopState /\ work \in WorkState /\ mac \in MacState
  /\ history \in HistoryState

\* While the worker has a turn the loop starts no other.
OneTurn == work.at \in {"fetch", "status", "done"} => loop.busy

\* All submitted choices are older than c.
Newer(c) == \A i \in DOMAIN history.submitted : history.submitted[i] < c.serial

\* A choice that is pending, or about to be submitted, has not been submitted:
\* it is newer than all that have, or it is the one the worker has submitted
\* in this turn.
NotYet ==
  /\ radio.pending.serial <= radio.serial /\ work.attempt.serial <= radio.serial
  /\ \A i \in DOMAIN history.submitted : history.submitted[i] <= radio.serial
  /\ radio.pending # NoChoice =>
       \/ Newer(radio.pending)
       \/ work.at \in {"status", "done"} /\ radio.pending = work.attempt
  /\ (work.at = "fetch" /\ work.attempt # NoChoice) =>
       /\ Newer(work.attempt)
       /\ radio.pending # NoChoice =>
            \/ radio.pending = work.attempt
            \/ radio.pending.serial > work.attempt.serial

\* The switch is what the last unread event says, or what was read last.  The
\* service's own event, if it is unread, is the next one and says what the
\* service knows; between its read and its write there are only the user's.
Echoes ==
  /\ IF queue = <<>> THEN radio.soft = soft ELSE queue[Len(queue)].soft = soft
  /\ work.at = "apply" =>
       /\ history.window = 0 => queue = <<>>
       /\ history.window = 1 => soft # radio.soft
       /\ \A n \in DOMAIN queue : queue[n].by = "user"
  /\ ~history.raced =>
       \A n \in DOMAIN queue :
         queue[n].by = "service" => n = 1 /\ queue[n].soft = radio.soft

\* The inductive invariant.
PowInv == PowType /\ OneTurn /\ NotYet /\ SubmittedOnce /\ Echoes /\ EchoIgnored

-----------------------------------------------------------------------------
(* Reading the queue *)

\* One event makes at most one choice, and none if the switch is as known.
LEMMA ObserveOne ==
  ASSUME NEW r \in RadioState, NEW v \in {0, 1}
  PROVE  /\ observe(r, v) \in RadioState
         /\ observe(r, v).soft = v
         /\ \/ /\ observe(r, v).serial = r.serial /\ observe(r, v).pending = r.pending
            \/ /\ observe(r, v).serial = r.serial + 1
               /\ observe(r, v).pending.serial = r.serial + 1
         /\ v = r.soft => observe(r, v).serial = r.serial
<1>1. r.serial \in Nat /\ Nothing \in {Nothing, 0, 1}
  BY Zenon DEF RadioState
<1> DEFINE s == r.serial + 1
           c == [serial |-> s, powered |-> v = 0]
<1>2. s \in Nat /\ c \in Choice /\ c.serial = s
  BY <1>1 DEF Choice
<1>3. CASE v = r.expected \/ v = r.soft \/ ~r.initialized
  <2>1. observe(r, v) = [r EXCEPT !.soft = v, !.expected = Nothing]
    BY <1>3, Zenon DEF observe
  <2> QED
    BY <1>1, <2>1, Zenon DEF RadioState
<1>4. CASE ~(v = r.expected \/ v = r.soft \/ ~r.initialized)
  <2>1. observe(r, v) = [r EXCEPT !.soft = v, !.expected = Nothing, !.serial = s,
                                  !.pending = c]
    BY <1>4, Zenon DEF observe
  <2> HIDE DEF c, s
  <2>2. /\ observe(r, v) \in RadioState /\ observe(r, v).soft = v
        /\ observe(r, v).serial = s /\ observe(r, v).pending = c
    BY <1>1, <1>2, <2>1, Zenon DEF RadioState
  <2>3. s = r.serial + 1
    BY Zenon DEF s
  <2> QED
    BY <1>2, <1>4, <2>2, <2>3, Zenon
<1> QED
  BY <1>3, <1>4, Zenon

\* What the queued events make of the intent, by induction on their number.
LEMMA ObservedAll ==
  ASSUME PowType, NEW n \in 0..Len(queue)
  PROVE  /\ Observed[n] \in RadioState
         /\ Observed[n].serial >= radio.serial
         /\ \/ Observed[n].pending = radio.pending
            \/ /\ Observed[n].pending.serial > radio.serial
               /\ Observed[n].pending.serial <= Observed[n].serial
         /\ Observed[n].soft = IF n = 0 THEN radio.soft ELSE queue[n].soft
<1> DEFINE Good(m) ==
      /\ Observed[m] \in RadioState
      /\ Observed[m].serial >= radio.serial
      /\ \/ Observed[m].pending = radio.pending
         \/ /\ Observed[m].pending.serial > radio.serial
            /\ Observed[m].pending.serial <= Observed[m].serial
      /\ Observed[m].soft = IF m = 0 THEN radio.soft ELSE queue[m].soft
      S == {m \in Nat : m <= Len(queue) => Good(m)}
<1>1. /\ radio \in RadioState /\ queue \in Seq(Event) /\ Len(queue) \in Nat
      /\ radio.serial \in Nat
  BY DEF PowType, RadioState
<1>2. /\ Observed[0] = radio
      /\ \A m \in 1..Len(queue) : Observed[m] = observe(Observed[m - 1], queue[m].soft)
  BY <1>1, ObservedSteps DEF Event
<1>3. 0 \in S
  <2>1. Good(0)
    BY <1>1, <1>2
  <2> HIDE DEF Good
  <2> QED
    BY <2>1, Zenon
<1>4. ASSUME NEW m \in Nat, m \in S PROVE m + 1 \in S
  <2>1. SUFFICES ASSUME m + 1 <= Len(queue) PROVE Good(m + 1)
    <3> HIDE DEF Good
    <3> QED
      OBVIOUS
  <2>2. m <= Len(queue) /\ m + 1 \in 1..Len(queue) /\ (m + 1) - 1 = m /\ m + 1 # 0
    BY <1>1, <2>1
  <2>3. Good(m)
    <3> HIDE DEF Good
    <3> QED
      BY <1>4, <2>2, Zenon
  <2> DEFINE v == queue[m + 1].soft
             r == Observed[m]
             q == Observed[m + 1]
  <2>4. v \in {0, 1} /\ q = observe(r, v)
    <3>1. queue[m + 1] \in Event
      BY <1>1, <2>2
    <3>2. Observed[m + 1] = observe(Observed[(m + 1) - 1], queue[m + 1].soft)
      BY <1>2, <2>2, Zenon
    <3> QED
      BY <2>2, <3>1, <3>2, Zenon DEF Event
  <2>5. r \in RadioState /\ r.serial \in Nat /\ q.serial \in Nat /\ q.pending.serial \in Nat
        /\ r.pending.serial \in Nat
    BY <2>3, <2>4, ObserveOne, Zenon DEF RadioState, Choice
  <2>6. /\ q \in RadioState /\ q.soft = v
        /\ \/ q.serial = r.serial /\ q.pending = r.pending
           \/ q.serial = r.serial + 1 /\ q.pending.serial = r.serial + 1
    <3> HIDE DEF q, r, v
    <3> QED
      BY <2>4, <2>5, ObserveOne, Zenon
  <2>7. /\ r.serial >= radio.serial
        /\ \/ r.pending = radio.pending
           \/ r.pending.serial > radio.serial /\ r.pending.serial <= r.serial
    BY <2>3, Zenon
  <2> HIDE DEF q, r
  <2>8. /\ q.serial >= radio.serial
        /\ \/ q.pending = radio.pending
           \/ q.pending.serial > radio.serial /\ q.pending.serial <= q.serial
    BY <1>1, <2>5, <2>6, <2>7
  <2> QED
    BY <2>2, <2>6, <2>8, Zenon DEF q
<1>5. Nat \subseteq S
  <2> HIDE DEF S
  <2> QED
    BY <1>3, <1>4, SetInduction, Zenon
<1>6. n \in S /\ n <= Len(queue)
  BY <1>1, <1>5
<1> QED
  BY <1>6, Zenon

\* After reading everything the service knows the last position, and holds
\* either the choice it held or a newer one.
LEMMA DrainedFacts ==
  ASSUME PowType
  PROVE  /\ Drained \in RadioState
         /\ Drained.serial >= radio.serial /\ Drained.serial \in Nat
         /\ \/ Drained.pending = radio.pending
            \/ /\ Drained.pending.serial > radio.serial
               /\ Drained.pending.serial <= Drained.serial
         /\ Drained.soft = IF queue = <<>> THEN radio.soft ELSE queue[Len(queue)].soft
<1>1. queue \in Seq(Event) /\ Len(queue) \in Nat /\ (queue = <<>> <=> Len(queue) = 0)
  BY DEF PowType
<1>2. Len(queue) \in 0..Len(queue)
  BY <1>1
<1>3. /\ Drained \in RadioState
      /\ Drained.serial >= radio.serial
      /\ \/ Drained.pending = radio.pending
         \/ /\ Drained.pending.serial > radio.serial
            /\ Drained.pending.serial <= Drained.serial
      /\ Drained.soft = IF Len(queue) = 0 THEN radio.soft ELSE queue[Len(queue)].soft
  BY <1>2, ObservedAll, Zenon DEF Drained
<1> QED
  BY <1>1, <1>3, Zenon DEF RadioState

\* Unless the switch was flipped twice behind the service's back, an unread
\* event of its own is not taken for a choice.
LEMMA NoEchoTaken ==
  ASSUME PowType, Echoes, ~history.raced
  PROVE  ~EchoTaken
<1>1. SUFFICES ASSUME NEW n \in 1..Len(queue), queue[n].by = "service"
               PROVE  Observed[n].serial = Observed[n - 1].serial
  BY Zenon DEF EchoTaken
<1>2. queue \in Seq(Event) /\ DOMAIN queue = 1..Len(queue) /\ Len(queue) \in Nat
  BY DEF PowType
<1>3. n = 1 /\ queue[1].soft = radio.soft
  BY <1>1, <1>2, Zenon DEF Echoes
<1>4. Observed[0] = radio /\ Observed[1] = observe(Observed[0], queue[1].soft)
  BY <1>1, <1>2, <1>3, ObservedSteps DEF Event
<1>5. radio \in RadioState /\ radio.soft \in {0, 1} /\ 1 - 1 = 0
  BY DEF PowType, RadioState
<1>6. Observed[1].serial = Observed[0].serial
  BY <1>3, <1>4, <1>5, ObserveOne
<1> QED
  BY <1>3, <1>5, <1>6, Zenon

\* notify only asks for a turn.
LEMMA NotifyKeeps ==
  ASSUME NEW l \in LoopState
  PROVE  notify(l) \in LoopState /\ notify(l).busy = l.busy
BY Zenon DEF notify, LoopState

\* attempted drops the choice that was submitted, and nothing else.
LEMMA AttemptedFacts ==
  ASSUME NEW r \in RadioState, NEW a \in Choice
  PROVE  /\ attempted(r, a) \in RadioState
         /\ attempted(r, a).serial = r.serial /\ attempted(r, a).soft = r.soft
         /\ IF a # NoChoice /\ r.pending = a THEN attempted(r, a).pending = NoChoice
                                             ELSE attempted(r, a) = r
<1>1. NoChoice \in Choice
  BY Zenon DEF NoChoice, Choice
<1> QED
  BY <1>1, Zenon DEF attempted, RadioState

-----------------------------------------------------------------------------
(* The steps, by what they do to the intent, the turn and the history *)

\* The queued events are read into d; the attempt stays pending or is over.
Reads(d) ==
  /\ queue' = <<>> /\ soft' = soft
  /\ d = Drained
  /\ radio'.serial = d.serial /\ radio'.soft = d.soft
  /\ history'.submitted = history.submitted /\ history'.raced = history.raced
  /\ history'.echo = (history.echo \/ EchoTaken)

\* radio_ready.
ReadOnly ==
  /\ Reads(Drained) /\ radio'.pending = Drained.pending
  /\ UNCHANGED work /\ work.at # "apply" /\ loop'.busy = loop.busy

\* A refresh that starts a turn of the worker.
ReadTurn ==
  /\ Reads(Drained) /\ radio'.pending = Drained.pending
  /\ work.at # "apply" /\ ~loop.busy /\ loop'.busy
  /\ work'.at = "fetch" /\ work'.attempt \in {NoChoice, Drained.pending}

\* finish takes up what the worker brought.
ReadFinish ==
  /\ Reads(Drained) /\ work.at = "done" /\ history'.window = 0
  /\ radio'.pending = attempted(Drained, work.attempt).pending
  /\ work'.attempt \in {NoChoice, work.attempt}
  /\ work'.at \in {"idle", "apply"}

\* The worker submits the choice it was given.
Submits ==
  /\ work.at = "fetch" /\ work.attempt # NoChoice
  /\ work'.at = "status" /\ work'.attempt = work.attempt
  /\ history'.submitted = Append(history.submitted, work.attempt.serial)
  /\ history'.raced = history.raced /\ history'.echo = history.echo
  /\ history'.window = history.window
  /\ UNCHANGED <<soft, queue, radio, loop>>

\* Nothing is read and nothing is submitted; a choice may be forgotten.
Quiet ==
  /\ UNCHANGED <<soft, queue, history>>
  /\ radio'.serial = radio.serial /\ radio'.soft = radio.soft
  /\ radio'.pending \in {NoChoice, radio.pending}
  /\ loop'.busy = loop.busy
  /\ work'.attempt = work.attempt
  /\ \/ work'.at = work.at
     \/ work'.at = "done" /\ (work.at = "status" \/ work.attempt = NoChoice)
        /\ work.at \in {"status", "fetch"}

\* What the Mac reported is applied to the switch.
Applies ==
  /\ work.at = "apply" /\ work'.at = "idle" /\ work'.attempt = NoChoice
  /\ apply
  /\ radio'.serial = radio.serial /\ radio'.pending \in {NoChoice, radio.pending}
  /\ history'.submitted = history.submitted /\ history'.echo = history.echo

\* A new process knows the switch and nothing else.
Restarts ==
  /\ queue' = <<>> /\ soft' = soft
  /\ radio'.soft = soft /\ radio'.serial = 0 /\ radio'.pending = NoChoice
  /\ work'.at = "idle" /\ work'.attempt = NoChoice
  /\ history'.submitted = <<>> /\ history'.raced = history.raced
  /\ history'.echo = history.echo

\* The user flips the switch.
Toggles ==
  /\ soft' = 1 - soft
  /\ queue' = Append(queue, [soft |-> 1 - soft, by |-> "user"])
  /\ history'.submitted = history.submitted /\ history'.raced = history.raced
  /\ history'.echo = history.echo
  /\ history'.window = IF work.at = "apply" THEN history.window + 1 ELSE history.window
  /\ UNCHANGED <<radio, loop, work>>

\* Every step is of one of these kinds.
PowStep ==
  ReadOnly \/ ReadTurn \/ ReadFinish \/ Submits \/ Quiet \/ Applies \/ Restarts \/ Toggles

\* The history after queued events are read.
LEMMA RecordFacts ==
  ASSUME NEW h \in HistoryState, NEW e \in BOOLEAN
  PROVE  /\ Record(h, e) \in HistoryState
         /\ Record(h, e).submitted = h.submitted /\ Record(h, e).raced = h.raced
         /\ Record(h, e).window = h.window
         /\ Record(h, e).echo = (h.echo \/ e)
BY Zenon DEF Record, HistoryState

\* A worker without a turn holds no choice.
LEMMA IdleFacts == Idle \in WorkState /\ Idle.at = "idle" /\ Idle.attempt = NoChoice
<1>1. NoChoice \in Choice /\ <<>> \in Key
  BY Zenon DEF NoChoice, Choice, Key
<1> QED
  BY <1>1, Zenon DEF Idle, WorkState

\* read_radio and refresh read the queue, and may start a turn.
LEMMA ReadSteps ==
  ASSUME PowType, OneTurn, read_radio \/ refresh
  PROVE  PowType' /\ (ReadOnly \/ ReadTurn \/ Quiet)
<1> DEFINE d == Drained
<1>1. /\ radio \in RadioState /\ loop \in LoopState /\ work \in WorkState
      /\ history \in HistoryState /\ queue \in Seq(Event) /\ <<>> \in Seq(Event)
      /\ d \in RadioState /\ EchoTaken \in BOOLEAN
  BY DrainedFacts DEF PowType, EchoTaken
<1>2. /\ Record(history, EchoTaken) \in HistoryState
      /\ Record(history, EchoTaken).submitted = history.submitted
      /\ Record(history, EchoTaken).raced = history.raced
      /\ Record(history, EchoTaken).echo = (history.echo \/ EchoTaken)
  BY <1>1, RecordFacts
<1>3. CASE read_radio
  <2>1. /\ work.at # "apply" /\ radio' = d /\ queue' = <<>>
        /\ loop' \in {loop, notify(loop)} /\ history' = Record(history, EchoTaken)
        /\ UNCHANGED <<soft, work, mac, spent>>
    BY <1>3, Zenon DEF read_radio
  <2>2. loop' \in LoopState /\ loop'.busy = loop.busy
    BY <1>1, <2>1, NotifyKeeps, Zenon
  <2>3. PowType'
    BY <1>1, <1>2, <2>1, <2>2, Zenon DEF PowType
  <2>4. ReadOnly
    BY <1>2, <2>1, <2>2, Zenon DEF ReadOnly, Reads
  <2> QED
    BY <2>3, <2>4, Zenon
<1>4. CASE refresh /\ (loop.busy \/ ~loop.dirty \/ ~Active(loop))
  <2>1. /\ loop' = [loop EXCEPT !.refresh = FALSE]
        /\ UNCHANGED <<soft, queue, radio, work, history, mac, spent>>
    BY <1>4, Zenon DEF refresh
  <2>2. loop' \in LoopState /\ loop'.busy = loop.busy
    BY <1>1, <2>1, Zenon DEF LoopState
  <2>3. PowType' /\ Quiet
    BY <2>1, <2>2, Zenon DEF PowType, Quiet
  <2> QED
    BY <2>3, Zenon
<1>5. CASE refresh /\ ~(loop.busy \/ ~loop.dirty \/ ~Active(loop))
  <2> DEFINE a == IF d.initialized THEN d.pending ELSE NoChoice
             e == d.serial # radio.serial
  <2>1. /\ work.at # "apply" /\ radio' = d /\ queue' = <<>> /\ ~loop.busy
        /\ loop' = [loop EXCEPT !.refresh = e, !.dirty = FALSE, !.busy = TRUE]
        /\ history' = Record(history, EchoTaken)
        /\ work' = [Idle EXCEPT !.at = "fetch", !.key = loop.key, !.attempt = a]
        /\ UNCHANGED <<soft, mac, spent>>
    BY <1>5, Zenon DEF refresh
  <2>2. a \in Choice /\ a \in {NoChoice, d.pending} /\ loop.key \in Key /\ e \in BOOLEAN
    BY <1>1, Zenon DEF RadioState, Choice, NoChoice, LoopState
  <2> HIDE DEF a, e
  <2>3. loop' \in LoopState /\ loop'.busy = TRUE
    BY <1>1, <2>1, <2>2, Zenon DEF LoopState
  <2>4. work' \in WorkState /\ work'.at = "fetch" /\ work'.attempt = a
    BY <2>1, <2>2, IdleFacts, Zenon DEF WorkState
  <2>5. PowType'
    BY <1>1, <1>2, <2>1, <2>3, <2>4, Zenon DEF PowType
  <2>6. ReadTurn
    BY <1>2, <2>1, <2>2, <2>3, <2>4, Zenon DEF ReadTurn, Reads
  <2> QED
    BY <2>5, <2>6, Zenon
<1> QED
  BY <1>3, <1>4, <1>5, Zenon

\* The Mac keeps its type when its power changes.
LEMMA PoweredType ==
  ASSUME NEW m \in MacState, NEW p \in BOOLEAN
  PROVE  Powered(m, p) \in MacState
<1> DEFINE n == IF p = m.powered THEN m.revision ELSE m.revision + 1
<1>1. n \in Nat
  BY DEF MacState
<1>2. Powered(m, p) = [m EXCEPT !.powered = p, !.revision = n]
  BY Zenon DEF Powered
<1> HIDE DEF n
<1> QED
  BY <1>1, <1>2, Zenon DEF MacState

\* The worker submits its choice or skips the call.
LEMMA WorkerSteps ==
  ASSUME PowType, OneTurn, submit \/ status
  PROVE  PowType' /\ (Submits \/ Quiet)
<1>1. /\ work \in WorkState /\ mac \in MacState /\ history \in HistoryState
      /\ work.attempt \in Choice /\ work.attempt.powered \in BOOLEAN
      /\ work.attempt.serial \in Nat /\ mac.powered \in BOOLEAN
  BY Zenon DEF PowType, WorkState, Choice, MacState
<1>2. CASE submit
  <2>1. mac' \in MacState
    <3>1. Powered(mac, work.attempt.powered) \in MacState
      BY <1>1, PoweredType, Zenon
    <3>2. <<work.attempt.powered>> \in Seq(BOOLEAN)
      BY <1>1
    <3>3. [mac EXCEPT !.late = <<work.attempt.powered>>] \in MacState
      BY <1>1, <3>2, Zenon DEF MacState
    <3> QED
      BY <1>1, <1>2, <3>1, <3>3, Zenon DEF submit
  <2>2. work' \in WorkState /\ work'.at = "status" /\ work'.attempt = work.attempt
    BY <1>1, <1>2, Zenon DEF submit, WorkState
  <2> DEFINE n == work.attempt.serial
  <2>3. history' = [history EXCEPT !.submitted = Append(@, n)]
    BY <1>2, Zenon DEF submit
  <2>4. n \in Nat /\ history.submitted \in Seq(Nat)
    BY <1>1, Zenon DEF HistoryState
  <2>5. Append(history.submitted, n) \in Seq(Nat)
    BY <2>4
  <2> HIDE DEF n
  <2>6. /\ history' \in HistoryState
        /\ history'.submitted = Append(history.submitted, n)
        /\ history'.raced = history.raced /\ history'.echo = history.echo
        /\ history'.window = history.window
    BY <1>1, <2>3, <2>5, Zenon DEF HistoryState
  <2>7. /\ work.at = "fetch" /\ work.attempt # NoChoice
        /\ UNCHANGED <<soft, queue, radio, loop>>
    BY <1>2, Zenon DEF submit
  <2> QED
    BY <2>1, <2>2, <2>6, <2>7, Zenon DEF PowType, Submits, n
<1>3. CASE status
  <2>1. /\ work' \in WorkState /\ work'.at = "done" /\ work'.attempt = work.attempt
        /\ UNCHANGED <<soft, queue, radio, loop, mac, history>>
        /\ work.at = "status" \/ (work.at = "fetch" /\ work.attempt = NoChoice)
    BY <1>1, <1>3, Zenon DEF status, WorkState
  <2> QED
    BY <2>1, Zenon DEF PowType, Quiet
<1> QED
  BY <1>2, <1>3, Zenon

\* finish reads the queue and drops the choice that was submitted.
LEMMA FinishSteps ==
  ASSUME PowType, finish
  PROVE  PowType' /\ ReadFinish
<1> DEFINE d == Drained
           r == attempted(d, work.attempt)
           w0 == [history EXCEPT !.window = 0]
           l0 == [loop EXCEPT !.busy = FALSE]
           heard == IF d.serial # radio.serial THEN notify(l0) ELSE l0
<1>1. /\ radio \in RadioState /\ loop \in LoopState /\ work \in WorkState
      /\ history \in HistoryState /\ <<>> \in Seq(Event)
      /\ d \in RadioState /\ EchoTaken \in BOOLEAN /\ work.attempt \in Choice
  BY DrainedFacts DEF PowType, EchoTaken, WorkState
<1>2. /\ r \in RadioState /\ r.serial = d.serial /\ r.soft = d.soft
  BY <1>1, AttemptedFacts, Zenon
<1>3. /\ w0 \in HistoryState /\ w0.submitted = history.submitted /\ w0.window = 0
      /\ w0.raced = history.raced /\ w0.echo = history.echo
  BY <1>1, Zenon DEF HistoryState
<1>4. /\ Record(w0, EchoTaken) \in HistoryState
      /\ Record(w0, EchoTaken).submitted = history.submitted
      /\ Record(w0, EchoTaken).raced = history.raced
      /\ Record(w0, EchoTaken).window = 0
      /\ Record(w0, EchoTaken).echo = (history.echo \/ EchoTaken)
  <2> HIDE DEF w0
  <2> QED
    BY <1>1, <1>3, RecordFacts
<1>5. l0 \in LoopState /\ heard \in LoopState
  <2>1. l0 \in LoopState
    BY <1>1, Zenon DEF LoopState
  <2> HIDE DEF l0
  <2> QED
    BY <2>1, NotifyKeeps, Zenon
<1> DEFINE l1 == [heard EXCEPT !.retry = TRUE]
           r1 == [r EXCEPT !.initialized = FALSE]
           k1 == [work EXCEPT !.at = "apply"]
<1>6. /\ queue' = <<>> /\ history' = Record(w0, EchoTaken) /\ work.at = "done"
      /\ UNCHANGED <<soft, mac, spent>>
      /\ radio' \in {r, r1} /\ loop' \in {notify(heard), notify(l1), l1, heard}
      /\ work' \in {Idle, k1}
  BY Zenon DEF finish
<1>7. l1 \in LoopState
  <2> HIDE DEF heard
  <2> QED
    BY <1>5, Zenon DEF LoopState
<1>8. r1 \in RadioState /\ r1.serial = r.serial /\ r1.soft = r.soft /\ r1.pending = r.pending
  <2> HIDE DEF r
  <2> QED
    BY <1>2, Zenon DEF RadioState
<1>9. k1 \in WorkState /\ k1.at = "apply" /\ k1.attempt = work.attempt
  BY <1>1, Zenon DEF WorkState
<1> HIDE DEF r1, k1, l1, heard, l0, w0
<1>10. loop' \in LoopState
  BY <1>5, <1>6, <1>7, NotifyKeeps, Zenon
<1>11. /\ work' \in WorkState /\ work'.attempt \in {NoChoice, work.attempt}
       /\ work'.at \in {"idle", "apply"}
  BY <1>6, <1>9, IdleFacts, Zenon
<1>12. /\ radio' \in RadioState /\ radio'.serial = d.serial /\ radio'.soft = d.soft
       /\ radio'.pending = r.pending
  BY <1>2, <1>6, <1>8, Zenon
<1>13. PowType'
  BY <1>1, <1>4, <1>6, <1>10, <1>11, <1>12, Zenon DEF PowType
<1>14. ReadFinish
  BY <1>4, <1>6, <1>11, <1>12, Zenon DEF ReadFinish, Reads
<1> QED
  BY <1>13, <1>14, Zenon

\* Writing the switch makes an event if it changes it.
LEMMA SetSoftFacts ==
  ASSUME PowType, NEW v \in {0, 1}, NEW b \in {"user", "service"}, SetSoft(v, b)
  PROVE  /\ soft' = v /\ queue' \in Seq(Event)
         /\ v = soft => queue' = queue
         /\ v # soft => queue' = Append(queue, [soft |-> v, by |-> b])
<1>1. [soft |-> v, by |-> b] \in Event
  BY Zenon DEF Event
<1> QED
  BY <1>1 DEF SetSoft, PowType

\* apply ends the turn and submits nothing.
LEMMA ApplySteps ==
  ASSUME PowType, apply
  PROVE  PowType' /\ Applies
<1> DEFINE desired == Blocked(work.powered)
           kept == radio.pending # NoChoice /\ radio.pending.powered # work.powered
           writes == ~kept /\ desired # radio.soft
           p == IF kept THEN radio.pending ELSE NoChoice
           r == [radio EXCEPT !.initialized = TRUE, !.pending = p]
           r1 == [r EXCEPT !.expected = desired, !.soft = desired]
<1>1. /\ radio \in RadioState /\ loop \in LoopState /\ history \in HistoryState
      /\ queue \in Seq(Event) /\ soft \in {0, 1} /\ desired \in {0, 1}
      /\ p \in Choice /\ p \in {NoChoice, radio.pending}
  BY Zenon DEF PowType, Blocked, RadioState, Choice, NoChoice
<1>2. /\ work.at = "apply" /\ work' = Idle /\ UNCHANGED mac
      /\ loop' \in {loop, notify(loop)}
      /\ IF writes THEN SetSoft(desired, "service") /\ radio' = r1
                   ELSE UNCHANGED <<soft, queue>> /\ radio' = r
  BY Zenon DEF apply
<1> HIDE DEF p, desired
<1>3. /\ r \in RadioState /\ r.serial = radio.serial /\ r.pending = p
  BY <1>1, Zenon DEF RadioState
<1>4. /\ r1 \in RadioState /\ r1.serial = radio.serial /\ r1.pending = p
  <2>1. desired \in {Nothing, 0, 1}
    BY <1>1, Zenon
  <2> HIDE DEF r
  <2> QED
    BY <1>1, <1>3, <2>1, Zenon DEF RadioState
<1>5. soft' \in {0, 1} /\ queue' \in Seq(Event)
  BY <1>1, <1>2, SetSoftFacts, Zenon
<1>6. loop' \in LoopState
  BY <1>1, <1>2, NotifyKeeps, Zenon
<1> DEFINE w == writes /\ history.window > 1
           h == history.raced \/ w
<1>7. history' = [history EXCEPT !.raced = h, !.window = 0]
  BY Zenon DEF apply, p, desired
<1>8. /\ history' \in HistoryState /\ history'.submitted = history.submitted
      /\ history'.echo = history.echo
  <2>1. h \in BOOLEAN /\ 0 \in Nat
    OBVIOUS
  <2> HIDE DEF h
  <2> QED
    BY <1>1, <1>7, <2>1, Zenon DEF HistoryState
<1> HIDE DEF r, r1
<1>9. /\ radio' \in RadioState /\ radio'.serial = radio.serial
      /\ radio'.pending \in {NoChoice, radio.pending}
  BY <1>1, <1>2, <1>3, <1>4, Zenon
<1>10. PowType'
  BY <1>2, <1>5, <1>6, <1>8, <1>9, IdleFacts, Zenon DEF PowType
<1>11. Applies
  BY <1>2, <1>8, <1>9, IdleFacts, Zenon DEF Applies
<1> QED
  BY <1>10, <1>11, Zenon

\* The host channel and the timers read no event and submit nothing.
LEMMA HostSteps ==
  ASSUME PowType, retry \/ read_host \/ expire
  PROVE  PowType' /\ Quiet
<1>1. radio \in RadioState /\ loop \in LoopState /\ <<mac.revision, mac.active>> \in Key
      /\ <<>> \in Key
  BY Zenon DEF PowType, MacState, Key
<1>2. ASSUME NEW k \in Key, Changed(k)
      PROVE  /\ radio' \in RadioState /\ radio'.serial = radio.serial
             /\ radio'.soft = radio.soft /\ radio'.pending \in {NoChoice, radio.pending}
             /\ loop' \in LoopState /\ loop'.busy = loop.busy
  <2> DEFINE l == [loop EXCEPT !.key = k]
  <2>1. l \in LoopState /\ l.busy = loop.busy
    BY <1>1, Zenon DEF LoopState
  <2>2. loop' = notify(l) /\ radio' \in {radio, inactive(radio)}
    BY <1>2, Zenon DEF Changed
  <2>3. /\ inactive(radio) \in RadioState /\ inactive(radio).serial = radio.serial
        /\ inactive(radio).soft = radio.soft /\ inactive(radio).pending = NoChoice
    <3>1. NoChoice \in Choice
      BY Zenon DEF NoChoice, Choice
    <3> QED
      BY <1>1, <3>1, Zenon DEF inactive, RadioState
  <2> HIDE DEF l
  <2> QED
    BY <1>1, <2>1, <2>2, <2>3, NotifyKeeps, Zenon
<1>3. CASE retry
  <2> DEFINE l == [loop EXCEPT !.retry = FALSE]
  <2>1. l \in LoopState /\ l.busy = loop.busy
    BY <1>1, Zenon DEF LoopState
  <2>2. loop' \in {notify(l), notify(loop)}
        /\ UNCHANGED <<soft, queue, radio, work, mac, history>>
    BY <1>3, Zenon DEF retry
  <2> HIDE DEF l
  <2>3. loop' \in LoopState /\ loop'.busy = loop.busy
    BY <1>1, <2>1, <2>2, NotifyKeeps, Zenon
  <2> QED
    BY <2>2, <2>3, Zenon DEF PowType, Quiet
<1>4. CASE read_host \/ expire
  <2>1. PICK k \in Key : Changed(k)
    BY <1>1, <1>4, Zenon DEF read_host, expire
  <2>2. UNCHANGED <<soft, queue, work, mac, history>>
    BY <1>4, Zenon DEF read_host, expire
  <2> QED
    BY <1>2, <2>1, <2>2, Zenon DEF PowType, Quiet
<1> QED
  BY <1>3, <1>4, Zenon

\* A restart forgets everything; the user and the Mac leave the service alone.
LEMMA OutsideSteps ==
  ASSUME PowType, restart \/ Toggle \/ MacPower \/ MacLate \/ Session
  PROVE  PowType' /\ (Restarts \/ Toggles \/ Quiet)
<1>1. /\ radio \in RadioState /\ loop \in LoopState /\ history \in HistoryState
      /\ mac \in MacState /\ work \in WorkState /\ queue \in Seq(Event) /\ soft \in {0, 1}
      /\ mac.powered \in BOOLEAN /\ mac.late \in Seq(BOOLEAN) /\ mac.active \in BOOLEAN
      /\ <<>> \in Seq(Event) /\ <<>> \in Seq(Nat) /\ <<>> \in Seq(BOOLEAN)
      /\ NoChoice \in Choice
  BY DEF PowType, MacState, NoChoice, Choice
<1>2. CASE restart
  <2>1. /\ radio' = Fresh(soft) /\ queue' = <<>> /\ work' = Idle /\ UNCHANGED soft
        /\ history' = [history EXCEPT !.submitted = <<>>, !.window = 0]
    BY <1>2, Zenon DEF restart
  <2>2. /\ radio' \in RadioState /\ radio'.soft = soft /\ radio'.serial = 0
        /\ radio'.pending = NoChoice
    BY <1>1, <2>1, Zenon DEF Fresh, RadioState
  <2>3. loop' \in LoopState
    <3> DEFINE l == [key |-> <<>>, busy |-> FALSE, dirty |-> FALSE, refresh |-> FALSE,
                     retry |-> FALSE]
    <3>1. l \in LoopState
      BY Zenon DEF LoopState, Key
    <3>2. loop' = notify(l)
      BY <1>2, Zenon DEF restart
    <3> HIDE DEF l
    <3> QED
      BY <3>1, <3>2, NotifyKeeps, Zenon
  <2>4. mac' \in MacState
    <3>1. work.attempt.powered \in BOOLEAN
      BY <1>1, Zenon DEF WorkState, Choice
    <3>2. <<work.attempt.powered>> \in Seq(BOOLEAN)
      BY <3>1
    <3>3. [mac EXCEPT !.late = <<work.attempt.powered>>] \in MacState
      BY <1>1, <3>2, Zenon DEF MacState
    <3> QED
      BY <1>1, <1>2, <3>3, Zenon DEF restart
  <2>5. /\ history' \in HistoryState /\ history'.submitted = <<>>
        /\ history'.raced = history.raced /\ history'.echo = history.echo
    BY <1>1, <2>1, Zenon DEF HistoryState
  <2> QED
    BY <1>1, <2>1, <2>2, <2>3, <2>4, <2>5, IdleFacts, Zenon DEF PowType, Restarts
<1>3. CASE Toggle
  <2>1. SetSoft(1 - soft, "user") /\ 1 - soft \in {0, 1} /\ 1 - soft # soft
    BY <1>1, <1>3 DEF Toggle
  <2>2. /\ soft' = 1 - soft /\ soft' \in {0, 1} /\ queue' \in Seq(Event)
        /\ queue' = Append(queue, [soft |-> 1 - soft, by |-> "user"])
    BY <2>1, SetSoftFacts, Zenon
  <2> DEFINE n == IF work.at = "apply" THEN history.window + 1 ELSE history.window
  <2>3. history' = [history EXCEPT !.window = n] /\ UNCHANGED <<radio, loop, work, mac>>
    BY <1>3, Zenon DEF Toggle
  <2>4. n \in Nat
    BY <1>1 DEF HistoryState
  <2> HIDE DEF n
  <2>5. /\ history' \in HistoryState /\ history'.submitted = history.submitted
        /\ history'.raced = history.raced /\ history'.echo = history.echo
        /\ history'.window = n
    BY <1>1, <2>3, <2>4, Zenon DEF HistoryState
  <2> QED
    BY <2>2, <2>3, <2>5, Zenon DEF PowType, Toggles, n
<1>4. CASE MacPower \/ MacLate \/ Session
  <2>1. UNCHANGED <<soft, queue, radio, loop, work, history>>
    BY <1>4, Zenon DEF MacPower, MacLate, Session
  <2>2. mac' \in MacState
    <3>1. CASE MacPower
      BY <1>1, <3>1, PoweredType, Zenon DEF MacPower
    <3>2. CASE MacLate
      <4>1. Head(mac.late) \in BOOLEAN
        BY <1>1, <3>2 DEF MacLate
      <4> DEFINE m == Powered(mac, Head(mac.late))
      <4>2. m \in MacState
        BY <1>1, <4>1, PoweredType, Zenon
      <4>3. mac' = [m EXCEPT !.late = <<>>]
        BY <3>2, Zenon DEF MacLate
      <4> HIDE DEF m
      <4> QED
        BY <1>1, <4>2, <4>3, Zenon DEF MacState
    <3>3. CASE Session
      BY <1>1, <3>3, Zenon DEF Session, MacState
    <3> QED
      BY <1>4, <3>1, <3>2, <3>3, Zenon
  <2> QED
    BY <2>1, <2>2, Zenon DEF PowType, Quiet
<1> QED
  BY <1>2, <1>3, <1>4, Zenon

\* Every step is one of the kinds.
LEMMA PowSteps ==
  ASSUME PowType, OneTurn, Next
  PROVE  PowType' /\ PowStep
<1>1. CASE read_radio \/ refresh
  BY <1>1, ReadSteps, Zenon DEF PowStep
<1>2. CASE submit \/ status
  BY <1>2, WorkerSteps, Zenon DEF PowStep
<1>3. CASE finish
  BY <1>3, FinishSteps, Zenon DEF PowStep
<1>4. CASE apply
  BY <1>4, ApplySteps, Zenon DEF PowStep
<1>5. CASE retry \/ read_host \/ expire
  BY <1>5, HostSteps, Zenon DEF PowStep
<1>6. CASE restart \/ Toggle \/ MacPower \/ MacLate \/ Session
  BY <1>6, OutsideSteps, Zenon DEF PowStep
<1> QED
  BY <1>1, <1>2, <1>3, <1>4, <1>5, <1>6, Zenon DEF Next, ServiceStep

-----------------------------------------------------------------------------
(* What every step keeps *)

\* The loop starts no second turn.
LEMMA OneTurnNext ==
  ASSUME PowType, OneTurn, PowStep
  PROVE  OneTurn'
BY Zenon
DEF OneTurn, PowStep, ReadOnly, ReadTurn, ReadFinish, Submits, Quiet, Applies, Restarts,
   Toggles

\* What is submitted is newer than all that was, and what is pending was not
\* submitted.
LEMMA ChoicesNext ==
  ASSUME PowType, PowType', OneTurn, NotYet, SubmittedOnce, PowStep
  PROVE  NotYet' /\ SubmittedOnce'
<1> DEFINE sub == history.submitted
           d == Drained
<1>1. /\ radio.serial \in Nat /\ radio.pending.serial \in Nat
      /\ work.attempt.serial \in Nat /\ work.attempt \in Choice
      /\ radio'.serial \in Nat /\ radio'.pending.serial \in Nat
      /\ work'.attempt.serial \in Nat
      /\ sub \in Seq(Nat) /\ \A i \in DOMAIN sub : sub[i] \in Nat
      /\ NoChoice.serial = 0
  BY SMTT(30) DEF PowType, RadioState, WorkState, Choice, HistoryState, NoChoice
<1>2. /\ d.serial \in Nat /\ d.serial >= radio.serial /\ d.pending.serial \in Nat
      /\ d \in RadioState
      /\ \/ d.pending = radio.pending
         \/ d.pending.serial > radio.serial /\ d.pending.serial <= d.serial
  BY DrainedFacts, Zenon DEF RadioState, Choice
<1> HIDE DEF d
<1>3. /\ d.pending.serial <= d.serial
      /\ d.pending # radio.pending =>
           Newer(d.pending) /\ d.pending.serial > work.attempt.serial
  BY <1>1, <1>2, SMTT(30) DEF NotYet, Newer
<1>4. CASE ReadOnly
  <2>1. /\ radio'.serial = d.serial /\ radio'.pending = d.pending /\ UNCHANGED work
        /\ history'.submitted = sub
    BY <1>4, Zenon DEF ReadOnly, Reads, d
  <2>2. SubmittedOnce'
    BY <2>1, Zenon DEF SubmittedOnce
  <2>3. /\ \A i \in DOMAIN sub : sub[i] <= d.serial
        /\ work.attempt.serial <= d.serial
    BY <1>1, <1>2, SMTT(30) DEF NotYet
  <2>4. d.pending # NoChoice =>
          \/ Newer(d.pending)
          \/ work.at \in {"status", "done"} /\ d.pending = work.attempt
    BY <1>3, Zenon DEF NotYet
  <2>5. (work.at = "fetch" /\ work.attempt # NoChoice) =>
          /\ Newer(work.attempt)
          /\ d.pending # NoChoice =>
               d.pending = work.attempt \/ d.pending.serial > work.attempt.serial
    BY <1>3, Zenon DEF NotYet
  <2>6. NotYet'
    BY <1>3, <2>1, <2>3, <2>4, <2>5 DEF NotYet, Newer
  <2> QED
    BY <2>2, <2>6, Zenon
<1>5. CASE ReadTurn
  <2>1. /\ radio'.serial = d.serial /\ radio'.pending = d.pending
        /\ history'.submitted = sub /\ work'.at = "fetch"
        /\ work'.attempt \in {NoChoice, d.pending}
        /\ work.at \notin {"status", "done"}
    BY <1>5, Zenon DEF ReadTurn, Reads, OneTurn, d
  <2>2. SubmittedOnce'
    BY <2>1, Zenon DEF SubmittedOnce
  <2>3. /\ \A i \in DOMAIN sub : sub[i] <= d.serial
        /\ work'.attempt.serial <= d.serial
    BY <1>1, <1>2, <1>3, <2>1, SMTT(30) DEF NotYet
  <2>4. d.pending # NoChoice => Newer(d.pending)
    BY <1>3, <2>1, Zenon DEF NotYet
  <2>5. NotYet'
    BY <1>3, <2>1, <2>3, <2>4 DEF NotYet, Newer
  <2> QED
    BY <2>2, <2>5, Zenon
<1>6. CASE ReadFinish
  <2>1. /\ radio'.serial = d.serial
        /\ radio'.pending = attempted(d, work.attempt).pending
        /\ history'.submitted = sub /\ work'.at \notin {"fetch", "status", "done"}
        /\ work'.attempt \in {NoChoice, work.attempt}
    BY <1>6, Zenon DEF ReadFinish, Reads, d
  <2>2. SubmittedOnce'
    BY <2>1, Zenon DEF SubmittedOnce
  <2>3. /\ \A i \in DOMAIN sub : sub[i] <= d.serial
        /\ work'.attempt.serial <= d.serial
    BY <1>1, <1>2, <2>1 DEF NotYet
  <2>4. /\ radio'.pending \in {NoChoice, d.pending}
        /\ radio'.pending # NoChoice => Newer(radio'.pending)
    <3>1. radio'.pending \in {NoChoice, d.pending}
          /\ (d.pending = work.attempt => radio'.pending = NoChoice)
      BY <1>1, <1>2, <2>1, AttemptedFacts, Zenon
    <3>2. d.pending # NoChoice /\ d.pending # work.attempt => Newer(d.pending)
      BY <1>3, Zenon DEF NotYet
    <3> QED
      BY <3>1, <3>2, Zenon
  <2>5. radio'.pending.serial <= d.serial
    BY <1>1, <1>2, <1>3, <2>4, SMTT(30)
  <2>6. NotYet'
    BY <2>1, <2>3, <2>4, <2>5, ZenonT(40) DEF NotYet, Newer
  <2> QED
    BY <2>2, <2>6, Zenon
<1>7. CASE Submits
  <2> DEFINE n == work.attempt.serial
  <2>1. /\ UNCHANGED radio /\ work'.at = "status" /\ work'.attempt = work.attempt
        /\ history'.submitted = Append(sub, n)
        /\ work.at = "fetch" /\ work.attempt # NoChoice
    BY <1>7, Zenon DEF Submits
  <2>2. /\ DOMAIN sub = 1..Len(sub) /\ Len(sub) \in Nat
        /\ DOMAIN Append(sub, n) = 1..(Len(sub) + 1)
        /\ Append(sub, n)[Len(sub) + 1] = n
        /\ \A i \in DOMAIN sub : Append(sub, n)[i] = sub[i]
    BY <1>1, SMTT(30)
  <2>3. \A i \in DOMAIN Append(sub, n) : i \in DOMAIN sub \/ i = Len(sub) + 1
    BY <2>2
  <2>4. \A i \in DOMAIN sub : sub[i] < n
    BY <2>1, Zenon DEF NotYet, Newer
  <2>5. SubmittedOnce'
    <3>1. ASSUME NEW i \in DOMAIN Append(sub, n), NEW j \in DOMAIN Append(sub, n), i < j
          PROVE  Append(sub, n)[i] < Append(sub, n)[j]
      <4>1. CASE i \in DOMAIN sub /\ j \in DOMAIN sub
        BY <2>2, <3>1, <4>1, Zenon DEF SubmittedOnce
      <4>2. CASE i \in DOMAIN sub /\ j = Len(sub) + 1
        BY <2>2, <2>4, <4>2, Zenon
      <4>3. CASE i = Len(sub) + 1
        BY <2>2, <3>1, <4>3
      <4> QED
        BY <2>3, <4>1, <4>2, <4>3, Zenon
    <3> QED
      BY <2>1, <3>1, Zenon DEF SubmittedOnce
  <2>6. \A i \in DOMAIN Append(sub, n) : Append(sub, n)[i] <= n
    BY <1>1, <2>2, <2>3, <2>4, SMTT(30)
  <2>7. n <= radio.serial
    BY Zenon DEF NotYet
  <2> HIDE DEF n
  <2>8. n \in Nat /\ \A i \in DOMAIN Append(sub, n) : Append(sub, n)[i] \in Nat
    BY <1>1, <2>2, <2>3, Zenon DEF n
  <2>9. \A i \in DOMAIN Append(sub, n) : Append(sub, n)[i] <= radio.serial
    <3> DEFINE t == Append(sub, n)
    <3>1. \A i \in DOMAIN t : t[i] <= n /\ t[i] \in Nat
      BY <2>6, <2>8, Zenon
    <3>2. n \in Nat /\ radio.serial \in Nat
      BY <1>1, <2>8, Zenon
    <3> HIDE DEF t
    <3>3. \A i \in DOMAIN t : t[i] <= radio.serial
      BY <2>7, <3>1, <3>2
    <3> QED
      BY <3>3, Zenon DEF t
  <2>10. radio.pending # NoChoice =>
           \/ \A i \in DOMAIN Append(sub, n) : Append(sub, n)[i] < radio.pending.serial
           \/ radio.pending = work.attempt
    <3> DEFINE t == Append(sub, n)
    <3>1. radio.pending # NoChoice => radio.pending = work.attempt
                                      \/ n < radio.pending.serial
      BY <1>1, <2>1, Zenon DEF NotYet, n
    <3>2. \A i \in DOMAIN t : t[i] <= n /\ t[i] \in Nat
      BY <2>6, <2>8, Zenon
    <3>3. n \in Nat /\ radio.pending.serial \in Nat
      BY <1>1, <2>8, Zenon
    <3> HIDE DEF t
    <3>4. n < radio.pending.serial => \A i \in DOMAIN t : t[i] < radio.pending.serial
      BY <3>2, <3>3
    <3> QED
      BY <3>1, <3>4, Zenon DEF t
  <2>11. NotYet'
    BY <2>1, <2>9, <2>10, Zenon DEF NotYet, Newer
  <2> QED
    BY <2>5, <2>11, Zenon
<1>8. CASE Quiet
  <2>1. /\ radio'.serial = radio.serial /\ radio'.pending \in {NoChoice, radio.pending}
        /\ UNCHANGED history /\ work'.attempt = work.attempt
        /\ \/ work'.at = work.at
           \/ work'.at = "done" /\ (work.at = "status" \/ work.attempt = NoChoice)
              /\ work.at \in {"status", "fetch"}
    BY <1>8, Zenon DEF Quiet
  <2>2. radio'.pending.serial <= radio.serial
    BY <1>1, <2>1 DEF NotYet
  <2> QED
    BY <2>1, <2>2, Zenon DEF NotYet, Newer, SubmittedOnce
<1>9. CASE Applies
  <2>1. /\ radio'.serial = radio.serial /\ radio'.pending \in {NoChoice, radio.pending}
        /\ history'.submitted = sub /\ work'.attempt = NoChoice
        /\ work.at = "apply" /\ work'.at = "idle"
    BY <1>9, Zenon DEF Applies
  <2>2. radio'.pending.serial <= radio.serial /\ work'.attempt.serial <= radio.serial
    BY <1>1, <2>1 DEF NotYet
  <2> QED
    BY <2>1, <2>2, Zenon DEF NotYet, Newer, SubmittedOnce
<1>10. CASE Restarts
  BY <1>1, <1>10 DEF Restarts, NotYet, Newer, SubmittedOnce
<1>11. CASE Toggles
  BY <1>11, Zenon DEF Toggles, NotYet, Newer, SubmittedOnce
<1> QED
  BY <1>4, <1>5, <1>6, <1>7, <1>8, <1>9, <1>10, <1>11, Zenon DEF PowStep

\* What apply writes, where the switch was not flipped twice behind its back.
LEMMA ApplyWrites ==
  ASSUME PowType, Echoes, apply
  PROVE  /\ \/ UNCHANGED <<soft, queue>> /\ radio'.soft = radio.soft
               /\ history'.raced = history.raced
            \/ /\ soft' \in {0, 1} /\ radio'.soft = soft'
               /\ radio.pending = NoChoice \/ radio.pending.powered = work.powered
               /\ \/ soft' = soft /\ UNCHANGED queue
                  \/ soft' # soft
                     /\ queue' = Append(queue, [soft |-> soft', by |-> "service"])
               /\ history'.raced = (history.raced \/ history.window > 1)
               /\ history.window = 0 => queue = <<>>
               /\ history.window = 1 => soft' = soft
         /\ \A n \in DOMAIN queue : queue[n].by = "user"
<1> DEFINE desired == Blocked(work.powered)
           kept == radio.pending # NoChoice /\ radio.pending.powered # work.powered
           writes == ~kept /\ desired # radio.soft
           p == IF kept THEN radio.pending ELSE NoChoice
           r == [radio EXCEPT !.initialized = TRUE, !.pending = p]
           r1 == [r EXCEPT !.expected = desired, !.soft = desired]
           w == writes /\ history.window > 1
<1>1. /\ radio \in RadioState /\ history \in HistoryState /\ radio.soft \in {0, 1}
      /\ queue \in Seq(Event) /\ soft \in {0, 1} /\ desired \in {0, 1}
      /\ p \in Choice
  BY Zenon DEF PowType, Blocked, RadioState, Choice, NoChoice
<1>2. /\ work.at = "apply"
      /\ IF writes THEN SetSoft(desired, "service") /\ radio' = r1
                   ELSE UNCHANGED <<soft, queue>> /\ radio' = r
      /\ history' = [history EXCEPT !.raced = @ \/ w, !.window = 0]
  BY Zenon DEF apply
<1>3. /\ history.window = 0 => queue = <<>>
      /\ history.window = 1 => soft # radio.soft
      /\ \A n \in DOMAIN queue : queue[n].by = "user"
  BY <1>2, Zenon DEF Echoes
<1> HIDE DEF p, desired, w
<1>4. r.soft = radio.soft /\ r \in RadioState
  BY <1>1, Zenon DEF RadioState
<1>5. r1.soft = desired
  <2> HIDE DEF r
  <2> QED
    BY <1>4, Zenon DEF RadioState
<1>6. history'.raced = (history.raced \/ w)
  BY <1>1, <1>2, Zenon DEF HistoryState
<1> HIDE DEF r, r1
<1>7. CASE writes
  <2>1. /\ soft' = desired /\ radio'.soft = desired
        /\ desired = soft => queue' = queue
        /\ desired # soft => queue' = Append(queue, [soft |-> desired, by |-> "service"])
    BY <1>1, <1>2, <1>5, <1>7, SetSoftFacts, Zenon
  <2>2. history.window = 1 => desired = soft
    BY <1>1, <1>3, <1>7, Zenon
  <2>3. history'.raced = (history.raced \/ history.window > 1)
    BY <1>6, <1>7, Zenon DEF w
  <2>4. radio.pending = NoChoice \/ radio.pending.powered = work.powered
    BY <1>7, Zenon
  <2> QED
    BY <1>1, <1>3, <2>1, <2>2, <2>3, <2>4, Zenon
<1>8. CASE ~writes
  <2>1. history'.raced = history.raced
    BY <1>1, <1>6, <1>8, Zenon DEF w, HistoryState
  <2> QED
    BY <1>2, <1>3, <1>4, <1>8, <2>1, Zenon
<1> QED
  BY <1>7, <1>8, Zenon

\* An unread event of the service is the next one and tells it nothing new.
LEMMA EchoesNext ==
  ASSUME PowType, PowType', Echoes, EchoIgnored, PowStep
  PROVE  Echoes' /\ EchoIgnored'
<1>1. /\ queue \in Seq(Event) /\ soft \in {0, 1} /\ radio.soft \in {0, 1}
      /\ Len(queue) \in Nat /\ DOMAIN queue = 1..Len(queue)
      /\ history.raced \in BOOLEAN /\ history.echo \in BOOLEAN /\ history.window \in Nat
      /\ DOMAIN <<>> = {}
  BY DEF PowType, RadioState, HistoryState
<1>2. ASSUME NEW e \in Event
      PROVE  /\ Len(Append(queue, e)) = Len(queue) + 1 /\ Append(queue, e) # <<>>
             /\ DOMAIN Append(queue, e) = 1..(Len(queue) + 1)
             /\ Append(queue, e)[Len(queue) + 1] = e
             /\ \A n \in DOMAIN queue : Append(queue, e)[n] = queue[n]
             /\ \A n \in DOMAIN Append(queue, e) : n \in DOMAIN queue \/ n = Len(queue) + 1
  <2>1. /\ Append(queue, e) \in Seq(Event) /\ Len(Append(queue, e)) = Len(queue) + 1
        /\ Append(queue, e)[Len(queue) + 1] = e
        /\ \A n \in 1..Len(queue) : Append(queue, e)[n] = queue[n]
    BY <1>1, <1>2
  <2>2. DOMAIN Append(queue, e) = 1..(Len(queue) + 1)
    BY <2>1
  <2>3. Append(queue, e) # <<>>
    <3>1. Len(<<>>) = 0 /\ Len(queue) + 1 # 0
      BY <1>1
    <3> QED
      BY <2>1, <3>1, Zenon
  <2>4. \A n \in 1..(Len(queue) + 1) : n \in 1..Len(queue) \/ n = Len(queue) + 1
    BY <1>1
  <2> QED
    BY <1>1, <2>1, <2>2, <2>3, <2>4, Zenon
<1>3. CASE ReadOnly \/ ReadTurn \/ ReadFinish
  <2>1. /\ queue' = <<>> /\ soft' = soft /\ radio'.soft = Drained.soft
        /\ history'.raced = history.raced
        /\ history'.echo = (history.echo \/ EchoTaken)
        /\ work'.at = "apply" => history'.window = 0
    BY <1>3, Zenon DEF ReadOnly, ReadTurn, ReadFinish, Reads
  <2>2. Drained.soft = soft
    BY DrainedFacts, Zenon DEF Echoes
  <2>3. ~history.raced => ~EchoTaken
    BY NoEchoTaken, Zenon
  <2>4. EchoIgnored'
    BY <2>1, <2>3, Zenon DEF EchoIgnored
  <2>5. work'.at = "apply" => history'.window # 1
    BY <2>1
  <2>6. Echoes'
    BY <1>1, <2>1, <2>2, <2>5, Zenon DEF Echoes
  <2> QED
    BY <2>4, <2>6, Zenon
<1>4. CASE Submits
  BY <1>4, Zenon DEF Submits, Echoes, EchoIgnored
<1>5. CASE Quiet
  BY <1>5, Zenon DEF Quiet, Echoes, EchoIgnored
<1>6. CASE Restarts
  BY <1>1, <1>6, Zenon DEF Restarts, Echoes, EchoIgnored
<1>7. CASE Toggles
  <2> DEFINE e == [soft |-> 1 - soft, by |-> "user"]
  <2>1. /\ soft' = 1 - soft /\ queue' = Append(queue, e) /\ UNCHANGED <<radio, work>>
        /\ history'.raced = history.raced /\ history'.echo = history.echo
        /\ work.at = "apply" => history'.window = history.window + 1
    BY <1>7, Zenon DEF Toggles
  <2>2. e.soft = 1 - soft /\ e.by = "user" /\ e \in Event
    BY <1>1 DEF Event
  <2> HIDE DEF e
  <2>3. queue' # <<>> /\ queue'[Len(queue')].soft = soft'
    BY <1>1, <1>2, <2>1, <2>2, Zenon
  <2>4. \A n \in DOMAIN queue' : queue'[n].by = "user"
                                 \/ (n \in DOMAIN queue /\ queue'[n] = queue[n])
    <3>1. SUFFICES ASSUME NEW n \in DOMAIN queue', n \notin DOMAIN queue
                   PROVE  queue'[n].by = "user"
      BY <1>2, <2>1, <2>2, Zenon
    <3>2. n = Len(queue) + 1
      BY <1>2, <2>1, <2>2, <3>1, Zenon
    <3> QED
      BY <1>2, <2>1, <2>2, <3>2, Zenon
  <2>5. ASSUME work.at = "apply"
        PROVE  /\ history'.window # 0
               /\ history'.window = 1 => soft' # radio.soft
               /\ \A n \in DOMAIN queue' : queue'[n].by = "user"
    <3>1. \A n \in DOMAIN queue : queue[n].by = "user"
      BY <2>5, Zenon DEF Echoes
    <3>2. history'.window # 0 /\ (history'.window = 1 => history.window = 0)
      BY <1>1, <2>1, <2>5
    <3>3. history.window = 0 => radio.soft = soft
      BY <2>5, Zenon DEF Echoes
    <3>4. 1 - soft # soft
      BY <1>1
    <3> QED
      BY <2>1, <2>4, <3>1, <3>2, <3>3, <3>4, Zenon
  <2>6. ~history.raced => \A n \in DOMAIN queue' :
          queue'[n].by = "service" => n = 1 /\ queue'[n].soft = radio.soft
    BY <2>4, Zenon DEF Echoes
  <2> QED
    BY <2>1, <2>3, <2>5, <2>6, Zenon DEF Echoes, EchoIgnored
<1>8. CASE Applies
  <2>1. apply /\ work'.at = "idle" /\ history'.echo = history.echo
    BY <1>8, Zenon DEF Applies
  <2>2. \A n \in DOMAIN queue : queue[n].by = "user"
    BY <2>1, ApplyWrites, Zenon
  <2>3. CASE UNCHANGED <<soft, queue>> /\ radio'.soft = radio.soft
             /\ history'.raced = history.raced
    BY <2>1, <2>3, Zenon DEF Echoes, EchoIgnored
  <2>4. CASE /\ soft' \in {0, 1} /\ radio'.soft = soft'
             /\ \/ soft' = soft /\ UNCHANGED queue
                \/ soft' # soft
                   /\ queue' = Append(queue, [soft |-> soft', by |-> "service"])
             /\ history'.raced = (history.raced \/ history.window > 1)
             /\ history.window = 0 => queue = <<>>
             /\ history.window = 1 => soft' = soft
    <3>1. EchoIgnored'
      BY <2>1, <2>4, Zenon DEF EchoIgnored
    <3>2. CASE soft' = soft /\ UNCHANGED queue
      <4>1. \A n \in DOMAIN queue : queue[n].by # "service"
        BY <2>2, Zenon
      <4> QED
        BY <2>1, <2>4, <3>1, <3>2, <4>1, Zenon DEF Echoes
    <3>3. CASE soft' # soft /\ queue' = Append(queue, [soft |-> soft', by |-> "service"])
      <4> DEFINE e == [soft |-> soft', by |-> "service"]
      <4>1. queue' = Append(queue, e) /\ e.soft = soft' /\ e \in Event
        BY <2>4, <3>3, Zenon DEF Event
      <4> HIDE DEF e
      <4>2. queue' # <<>> /\ queue'[Len(queue')].soft = soft'
        BY <1>1, <1>2, <4>1, Zenon
      <4>3. ~history'.raced => queue = <<>>
        <5>1. history.window # 1 /\ (~history'.raced => ~(history.window > 1))
          BY <2>4, <3>3, Zenon
        <5>2. history.window = 0 \/ history.window = 1 \/ history.window > 1
          BY <1>1
        <5> QED
          BY <2>4, <5>1, <5>2, Zenon
      <4>4. ASSUME ~history'.raced
            PROVE  \A n \in DOMAIN queue' : n = 1 /\ queue'[n].soft = radio'.soft
        <5>1. Len(queue) = 0
          BY <4>3, <4>4
        <5>2. DOMAIN queue' = 1..1 /\ queue'[1] = e
          BY <1>2, <4>1, <5>1
        <5> QED
          BY <2>4, <4>1, <5>2, SMTT(30)
      <4> QED
        BY <2>1, <3>1, <4>2, <4>4, Zenon DEF Echoes
    <3> QED
      BY <2>4, <3>2, <3>3, Zenon
  <2> QED
    BY <2>1, <2>3, <2>4, ApplyWrites, Zenon
<1> QED
  BY <1>3, <1>4, <1>5, <1>6, <1>7, <1>8, Zenon DEF PowStep

-----------------------------------------------------------------------------
(* The theorems *)

\* The invariant holds at first.
LEMMA PowInit == Init => PowInv
<1>1. SUFFICES ASSUME Init PROVE PowInv
  OBVIOUS
<1>2. /\ <<>> \in Seq(Event) /\ <<>> \in Seq(Nat) /\ <<>> \in Seq(BOOLEAN)
      /\ <<>> \in Key /\ NoChoice \in Choice /\ NoChoice.serial = 0 /\ DOMAIN <<>> = {}
  BY DEF Key, NoChoice, Choice
<1>3. PowType
  <2>1. radio \in RadioState
    BY <1>1, <1>2, Zenon DEF Init, Fresh, RadioState
  <2>2. loop \in LoopState
    BY <1>1, <1>2, Zenon DEF Init, LoopState
  <2>3. mac \in MacState
    <3>1. mac \in [powered : BOOLEAN, late : {<<>>}, revision : {0}, active : BOOLEAN]
      BY <1>1, Zenon DEF Init
    <3>2. {<<>>} \subseteq Seq(BOOLEAN) /\ {0} \subseteq Nat
      BY <1>2
    <3> QED
      BY <3>1, <3>2, Zenon DEF MacState
  <2>4. history \in HistoryState
    BY <1>1, <1>2, Zenon DEF Init, HistoryState
  <2> QED
    BY <1>1, <1>2, <2>1, <2>2, <2>3, <2>4, IdleFacts, Zenon DEF Init, PowType
<1>4. /\ radio.soft = soft /\ radio.serial = 0 /\ radio.pending = NoChoice
      /\ history.submitted = <<>> /\ history.echo = FALSE /\ queue = <<>>
      /\ work.at = "idle" /\ work.attempt = NoChoice
  BY <1>1, IdleFacts, Zenon DEF Init, Fresh
<1> QED
  BY <1>2, <1>3, <1>4 DEF PowInv, OneTurn, NotYet, SubmittedOnce, Echoes, EchoIgnored

\* Every step keeps it.
LEMMA PowNext == PowInv /\ [Next]_vars => PowInv'
<1>1. SUFFICES ASSUME PowInv, [Next]_vars PROVE PowInv'
  OBVIOUS
<1>2. CASE Next
  <2>1. PowType' /\ PowStep
    BY <1>1, <1>2, PowSteps, Zenon DEF PowInv
  <2> QED
    BY <1>1, <2>1, OneTurnNext, ChoicesNext, EchoesNext, Zenon DEF PowInv
<1>3. CASE UNCHANGED vars
  BY <1>1, <1>3, Zenon
  DEF vars, PowInv, PowType, OneTurn, NotYet, Newer, SubmittedOnce, Echoes, EchoIgnored
<1> QED
  BY <1>1, <1>2, <1>3, Zenon

\* The invariant holds throughout.
LEMMA PowAlways == Spec => []PowInv
BY PowInit, PowNext, PTL DEF Spec

\* A choice is submitted to the Mac at most once by a process, and the event of
\* the service's own write is never taken for a choice unless the switch was
\* flipped twice between its read and its write.
THEOREM ChoicesGoOnce == Spec => []ChoicesSubmittedOnce
<1>1. PowInv => ChoicesSubmittedOnce
  BY Zenon DEF PowInv, ChoicesSubmittedOnce
<1> QED
  BY <1>1, PowAlways, PTL

\* When the service changes the switch it overrides no choice made before it
\* took up the reply, whether it holds it or has yet to read its event.
THEOREM NewerChoiceWins == Spec => NewerChoiceKept
<1> DEFINE Kept ==
      (apply /\ soft' # soft) =>
         \/ history'.raced
         \/ /\ radio.pending = NoChoice \/ radio.pending.powered = work.powered
            /\ \A i \in DOMAIN queue : queue[i].by # "user"
<1>1. PowInv /\ [Next]_vars => [Kept]_vars
  <2>1. SUFFICES ASSUME PowInv, apply, soft' # soft, ~history'.raced
                 PROVE  /\ radio.pending = NoChoice \/ radio.pending.powered = work.powered
                        /\ queue = <<>>
    <3>1. DOMAIN <<>> = {}
      OBVIOUS
    <3> QED
      BY <3>1, Zenon
  <2>2. PowType /\ Echoes /\ history.window \in Nat
    BY <2>1, Zenon DEF PowInv, PowType, HistoryState
  <2>3. /\ radio.pending = NoChoice \/ radio.pending.powered = work.powered
        /\ history'.raced = (history.raced \/ history.window > 1)
        /\ history.window = 0 => queue = <<>>
        /\ history.window = 1 => soft' = soft
    BY <2>1, <2>2, ApplyWrites, Zenon
  <2>4. history.window = 0
    <3>1. history.window # 1 /\ ~(history.window > 1)
      BY <2>1, <2>3, Zenon
    <3> QED
      BY <2>2, <3>1
  <2> QED
    BY <2>3, <2>4, Zenon
<1> QED
  BY <1>1, PowAlways, PTL DEF Spec, NewerChoiceKept

-----------------------------------------------------------------------------
(* The touchpad: any fingers, slots, frames and connections *)

\* The slots of the touchpad.
Slots == 0..PadSlots - 1

\* Each contact of D has a slot of its own.
Apart(f, D) ==
  /\ f \in [D -> Slots]
  /\ \A i, j \in D : f[i] = f[j] => i = j

\* The lowest free slot is free, if any is.
LEMMA LowestFree ==
  ASSUME NEW f, Free(f) # {}
  PROVE  Lowest(f) \in Free(f)
<1>1. Free(f) \subseteq Nat
  BY PadAssumption DEF Free
<1>2. PICK x \in Free(f) : \A y \in Free(f) : x <= y
  BY <1>1, LeastNat, Zenon
<1>3. Min(Free(f)) \in Free(f)
  BY <1>2, Zenon DEF Min
<1> QED
  BY <1>3, Zenon DEF Lowest

\* A contact that takes the lowest free slot has it to itself: as long as a
\* frame has no more contacts than the touchpad has slots, one is free.
LEMMA PlaceOne ==
  ASSUME NEW P, IsFiniteSet(P), Cardinality(P) <= PadSlots,
         NEW D, D \subseteq P, NEW i \in P, NEW f, Apart(f, D)
  PROVE  Apart(Place(i, f), D \cup {i})
<1>1. f \in [D -> Slots] /\ DOMAIN f = D
  BY Zenon DEF Apart
<1>2. CASE i \in D
  <2>1. Place(i, f) = [j \in D \cup {i} |-> f[j]] /\ D \cup {i} = D
    BY <1>1, <1>2, Zenon DEF Place
  <2>2. Place(i, f) = f
    BY <1>1, <2>1, Zenon
  <2> QED
    BY <2>1, <2>2, Zenon
<1>3. CASE i \notin D
  <2>1. Free(f) # {}
    <3>1. SUFFICES ASSUME Free(f) = {} PROVE FALSE
      OBVIOUS
    <3>2. f \in Surjection(D, Slots)
      BY <1>1, <3>1, Zenon DEF Surjection, Free, Range, Slots
    <3>3. D \subseteq P \ {i}
      BY <1>3, Zenon
    <3>4. IsFiniteSet(P \ {i}) /\ Cardinality(P \ {i}) = Cardinality(P) - 1
      BY FS_RemoveElement, Zenon
    <3>5. IsFiniteSet(D) /\ Cardinality(D) <= Cardinality(P \ {i})
      BY <3>3, <3>4, FS_Subset, Zenon
    <3>6. Cardinality(Slots) <= Cardinality(D)
      BY <3>2, <3>5, FS_Surjection, Zenon
    <3>7. Cardinality(Slots) = PadSlots
      BY PadAssumption, FS_Interval DEF Slots
    <3>8. Cardinality(D) \in Nat /\ Cardinality(P) \in Nat /\ PadSlots \in Nat
      BY <3>5, FS_CardinalityType, PadAssumption, Zenon
    <3> QED
      BY <3>4, <3>5, <3>6, <3>7, <3>8, SMTT(30)
  <2>2. Lowest(f) \in Slots /\ \A j \in D : f[j] # Lowest(f)
    <3>1. Lowest(f) \in Free(f)
      BY <2>1, LowestFree, Zenon
    <3> QED
      BY <1>1, <3>1, Zenon DEF Free, Range, Slots
  <2>3. Place(i, f) = [j \in D \cup {i} |-> IF j \in D THEN f[j] ELSE Lowest(f)]
    BY <1>1, Zenon DEF Place
  <2> HIDE DEF Slots
  <2>4. Place(i, f) \in [D \cup {i} -> Slots]
    BY <1>1, <2>2, <2>3, Zenon
  <2>5. \A j, k \in D \cup {i} : Place(i, f)[j] = Place(i, f)[k] => j = k
    BY <1>3, <2>2, <2>3, Zenon DEF Apart
  <2> QED
    BY <2>4, <2>5, Zenon DEF Apart
<1> QED
  BY <1>2, <1>3, Zenon

\* The element the fold takes next.
Pick(s) == CHOOSE x \in s : TRUE

\* What has been placed of each part of P, as the fold goes through it.
Fold(g, base, D) ==
  g = [s \in D |-> IF s = {} THEN base ELSE Place(Pick(s), g[s \ {Pick(s)}])]

\* A part and what is left of it.
LEMMA PickOne ==
  ASSUME NEW s, IsFiniteSet(s), s # {}
  PROVE  /\ Pick(s) \in s /\ IsFiniteSet(s \ {Pick(s)})
         /\ Cardinality(s) \in Nat /\ Cardinality(s \ {Pick(s)}) \in Nat
         /\ Cardinality(s) = Cardinality(s \ {Pick(s)}) + 1
<1>1. Pick(s) \in s
  BY Zenon DEF Pick
<1>2. /\ IsFiniteSet(s \ {Pick(s)})
      /\ Cardinality(s \ {Pick(s)}) = Cardinality(s) - 1
  BY <1>1, FS_RemoveElement, Zenon
<1>3. Cardinality(s) \in Nat /\ Cardinality(s \ {Pick(s)}) \in Nat
  BY <1>2, FS_CardinalityType, Zenon
<1> QED
  BY <1>1, <1>2, <1>3

\* The parts of P with no more than n elements.
Parts(P, n) == {s \in SUBSET P : Cardinality(s) <= n}

\* The recursive function exists, by induction on the size of the parts.
LEMMA FoldExists ==
  ASSUME NEW P, IsFiniteSet(P), NEW base
  PROVE  \E g : Fold(g, base, SUBSET P)
<1> DEFINE S == {n \in Nat : \E g : Fold(g, base, Parts(P, n))}
<1>0. \A s \in SUBSET P : IsFiniteSet(s) /\ Cardinality(s) \in Nat
  BY FS_Subset, FS_CardinalityType, Zenon
<1>1. 0 \in S
  <2>1. \A s \in Parts(P, 0) : s = {}
    <3>1. \A s \in Parts(P, 0) : Cardinality(s) = 0 /\ IsFiniteSet(s)
      BY <1>0 DEF Parts
    <3> QED
      BY <3>1, FS_EmptySet, Zenon
  <2>2. Fold([s \in Parts(P, 0) |-> base], base, Parts(P, 0))
    BY <2>1, Zenon DEF Fold
  <2> QED
    BY <2>2, Zenon
<1>2. ASSUME NEW n \in Nat, n \in S PROVE n + 1 \in S
  <2>1. PICK g : Fold(g, base, Parts(P, n))
    BY <1>2, Zenon
  <2> DEFINE h == [s \in Parts(P, n + 1) |->
                     IF s = {} THEN base ELSE Place(Pick(s), g[s \ {Pick(s)}])]
  <2>2. ASSUME NEW s \in Parts(P, n)
        PROVE  h[s] = g[s]
    <3>1. s \in Parts(P, n + 1)
      BY <1>0 DEF Parts
    <3>2. g[s] = IF s = {} THEN base ELSE Place(Pick(s), g[s \ {Pick(s)}])
      BY <2>1, Zenon DEF Fold
    <3> QED
      BY <3>1, <3>2, Zenon
  <2>3. ASSUME NEW s \in Parts(P, n + 1), s # {}
        PROVE  s \ {Pick(s)} \in Parts(P, n)
    <3>1. s \in SUBSET P /\ Cardinality(s) <= n + 1 /\ IsFiniteSet(s)
      BY <1>0, Zenon DEF Parts
    <3>2. /\ Cardinality(s) \in Nat /\ Cardinality(s \ {Pick(s)}) \in Nat
          /\ Cardinality(s) = Cardinality(s \ {Pick(s)}) + 1
      BY <2>3, <3>1, PickOne, Zenon
    <3>3. Cardinality(s \ {Pick(s)}) <= n
      BY <3>1, <3>2
    <3> QED
      BY <3>1, <3>3, Zenon DEF Parts
  <2>4. h = [s \in Parts(P, n + 1) |->
               IF s = {} THEN base ELSE Place(Pick(s), h[s \ {Pick(s)}])]
    <3>1. \A s \in Parts(P, n + 1) : s # {} => h[s \ {Pick(s)}] = g[s \ {Pick(s)}]
      <4> HIDE DEF h
      <4> QED
        BY <2>2, <2>3, Zenon
    <3>2. \A s \in Parts(P, n + 1) :
            (IF s = {} THEN base ELSE Place(Pick(s), g[s \ {Pick(s)}]))
            = (IF s = {} THEN base ELSE Place(Pick(s), h[s \ {Pick(s)}]))
      <4> HIDE DEF h
      <4> QED
        BY <3>1, Zenon
    <3> QED
      BY <3>2, Zenon
  <2>5. Fold(h, base, Parts(P, n + 1))
    <3> HIDE DEF h
    <3> QED
      BY <2>4, Zenon DEF Fold
  <2>6. n + 1 \in Nat
    OBVIOUS
  <2> HIDE DEF h
  <2> QED
    BY <2>5, <2>6, Zenon
<1>3. Nat \subseteq S
  <2> HIDE DEF S
  <2> QED
    BY <1>1, <1>2, SetInduction, Zenon
<1>4. Cardinality(P) \in Nat
  BY FS_CardinalityType, Zenon
<1>5. PICK g : Fold(g, base, Parts(P, Cardinality(P)))
  BY <1>3, <1>4, Zenon
<1>6. Parts(P, Cardinality(P)) = SUBSET P
  BY FS_Subset, Zenon DEF Parts
<1> QED
  BY <1>5, <1>6, Zenon

\* Placed is what that function gives for all of them.
LEMMA PlacedFold ==
  ASSUME NEW P, IsFiniteSet(P), NEW base
  PROVE  \E g : Fold(g, base, SUBSET P) /\ Placed(base, P) = g[P]
<1> DEFINE it == CHOOSE g : g = [s \in SUBSET P |->
                   IF s = {} THEN base
                   ELSE Place(CHOOSE x \in s : TRUE, g[s \ {CHOOSE x \in s : TRUE}])]
<1>1. \E g : g = [s \in SUBSET P |->
                   IF s = {} THEN base
                   ELSE Place(CHOOSE x \in s : TRUE, g[s \ {CHOOSE x \in s : TRUE}])]
  <2>1. PICK g : Fold(g, base, SUBSET P)
    BY FoldExists, Zenon
  <2> QED
    BY <2>1, Zenon DEF Fold, Pick
<1>2. Placed(base, P) = it[P]
  BY Zenon DEF Placed, FoldSet, MapThenFoldSet
<1>3. Fold(it, base, SUBSET P)
  BY <1>1, Zenon DEF Fold, Pick
<1> QED
  BY <1>2, <1>3, Zenon

\* Placing all contacts of a frame, in whatever order, gives each a slot of its
\* own; by induction on the number placed.
LEMMA PlacedApart ==
  ASSUME NEW P, IsFiniteSet(P), Cardinality(P) <= PadSlots,
         NEW D, D \subseteq P, NEW base, Apart(base, D)
  PROVE  Apart(Placed(base, P), P)
<1>1. PICK g : Fold(g, base, SUBSET P) /\ Placed(base, P) = g[P]
  BY PlacedFold, Zenon
<1> DEFINE S == {n \in Nat : \A s \in Parts(P, n) : Apart(g[s], D \cup s)}
<1>0. \A s \in SUBSET P : IsFiniteSet(s) /\ Cardinality(s) \in Nat
  BY FS_Subset, FS_CardinalityType, Zenon
<1>2. \A s \in SUBSET P :
        g[s] = IF s = {} THEN base ELSE Place(Pick(s), g[s \ {Pick(s)}])
  BY <1>1, Zenon DEF Fold
<1>3. g[{}] = base /\ D \cup {} = D
  BY <1>2, Zenon
<1>4. 0 \in S
  <2>1. \A s \in Parts(P, 0) : s = {}
    <3>1. \A s \in Parts(P, 0) : Cardinality(s) = 0 /\ IsFiniteSet(s)
      BY <1>0 DEF Parts
    <3> QED
      BY <3>1, FS_EmptySet, Zenon
  <2>2. \A s \in Parts(P, 0) : Apart(g[s], D \cup s)
    BY <1>3, <2>1, Zenon
  <2> QED
    BY <2>2, Zenon
<1>5. ASSUME NEW n \in Nat, n \in S PROVE n + 1 \in S
  <2>1. ASSUME NEW s \in Parts(P, n + 1) PROVE Apart(g[s], D \cup s)
    <3>1. CASE s = {}
      BY <1>3, <3>1, Zenon
    <3>2. CASE s # {}
      <4>1. s \in SUBSET P /\ Cardinality(s) <= n + 1 /\ IsFiniteSet(s)
        BY <1>0, <2>1, Zenon DEF Parts
      <4>2. /\ Pick(s) \in s
            /\ Cardinality(s) \in Nat /\ Cardinality(s \ {Pick(s)}) \in Nat
            /\ Cardinality(s) = Cardinality(s \ {Pick(s)}) + 1
        BY <3>2, <4>1, PickOne, Zenon
      <4>3. Cardinality(s \ {Pick(s)}) <= n
        BY <4>1, <4>2
      <4> DEFINE E == D \cup (s \ {Pick(s)})
                 i == Pick(s)
      <4>4. Apart(g[s \ {i}], E)
        BY <1>5, <4>1, <4>3, Zenon DEF Parts
      <4>5. E \subseteq P /\ i \in P /\ E \cup {i} = D \cup s
        BY <4>1, <4>2, Zenon
      <4>6. g[s] = Place(i, g[s \ {i}])
        BY <1>2, <3>2, <4>1, Zenon
      <4> HIDE DEF E, i
      <4>7. Apart(Place(i, g[s \ {i}]), E \cup {i})
        BY <4>4, <4>5, PlaceOne, Zenon
      <4> QED
        BY <4>5, <4>6, <4>7, Zenon
    <3> QED
      BY <3>1, <3>2, Zenon
  <2>2. n + 1 \in Nat
    OBVIOUS
  <2> QED
    BY <2>1, <2>2, Zenon
<1>6. Nat \subseteq S
  <2> HIDE DEF S
  <2> QED
    BY <1>4, <1>5, SetInduction, Zenon
<1>7. Cardinality(P) \in Nat
  BY FS_CardinalityType, Zenon
<1>8. P \in Parts(P, Cardinality(P)) /\ D \cup P = P
  BY <1>7 DEF Parts
<1>9. Apart(g[P], D \cup P)
  BY <1>6, <1>7, <1>8, Zenon
<1> QED
  BY <1>1, <1>8, <1>9, Zenon

PadState ==
  [slots : UNION {[D -> Slots] : D \in SUBSET Fingers}, buttons : Int, age : 0..Hold]
ServerState == [ready : Nat, blocked : BOOLEAN, applied : BOOLEAN, quiet : Nat]
PortState == [in : Seq(Lines), out : Seq({"ready", "applied"}), open : BOOLEAN]
FrontState == [ready : Nat, applied : Nat]

PadType ==
  /\ pad \in PadState /\ server \in ServerState /\ port \in PortState
  /\ front \in FrontState

\* Contacts have slots of their own.
OwnSlots(p) == \A i, j \in DOMAIN p.slots : p.slots[i] = p.slots[j] => i = j

\* What is held was renewed by a valid frame no longer ago than the loop
\* counts; a reply that frames are applied is on its way, or believed, only
\* while that is so.
PadInv ==
  /\ PadType /\ OwnSlots(pad)
  /\ Held(pad) => server.quiet <= pad.age
  /\ port.open => \A n \in DOMAIN port.out : port.out[n] = "applied" => server.applied
  /\ ~port.open => front.applied = 0
  /\ front.applied > 0 => server.applied

\* A new touchpad holds nothing.
LEMMA NewPad == NoPad \in PadState /\ NoPad.slots = <<>> /\ NoPad.buttons = 0
<1>1. <<>> \in [{} -> Slots] /\ 0 \in 0..Hold
  BY DEF Hold
<1>2. <<>> \in UNION {[D -> Slots] : D \in SUBSET Fingers}
  BY <1>1, Zenon
<1> QED
  <2> DEFINE S == UNION {[D -> Slots] : D \in SUBSET Fingers}
             A == 0..Hold
  <2>1. <<>> \in S /\ 0 \in A /\ 0 \in Int
    BY <1>1, <1>2
  <2>2. PadState = [slots : S, buttons : Int, age : A]
    BY Zenon DEF PadState
  <2> HIDE DEF S, A
  <2> QED
    BY <2>1, <2>2, Zenon DEF NoPad

\* What an injective assignment of slots says of its contacts.
LEMMA SlotsApartly ==
  ASSUME NEW p \in PadState, OwnSlots(p)
  PROVE  /\ DOMAIN p.slots \subseteq Fingers /\ Apart(p.slots, DOMAIN p.slots)
         /\ Range(p.slots) \subseteq Slots
<1>1. PICK D \in SUBSET Fingers : p.slots \in [D -> Slots]
  BY Zenon DEF PadState
<1> QED
  BY <1>1, Zenon DEF Apart, OwnSlots, Range

\* A frame gives its contacts slots of their own.
LEMMA FrameFacts ==
  ASSUME NEW p \in PadState, OwnSlots(p), NEW points \in SUBSET Fingers,
         Cardinality(points) <= PadSlots, NEW buttons \in Int
  PROVE  LET q == frame(p, points, buttons)
         IN  /\ q \in PadState /\ OwnSlots(q) /\ q.age = p.age
             /\ DOMAIN q.slots = points /\ q.buttons = buttons
<1> DEFINE D == points \cap DOMAIN p.slots
           base == Restrict(p.slots, D)
           s == Placed(base, points)
<1>1. Apart(base, D)
  <2>1. Apart(p.slots, DOMAIN p.slots)
    BY SlotsApartly, Zenon
  <2>2. base = [x \in D |-> p.slots[x]]
    BY Zenon DEF Restrict
  <2> HIDE DEF base
  <2> QED
    BY <2>1, <2>2, Zenon DEF Apart
<1>2. IsFiniteSet(points)
  BY PadAssumption, FS_Subset, Zenon
<1> HIDE DEF base
<1>3. Apart(s, points)
  <2>1. D \subseteq points
    OBVIOUS
  <2> HIDE DEF D
  <2> QED
    BY <1>1, <1>2, <2>1, PlacedApart, Zenon
<1>4. frame(p, points, buttons) = [p EXCEPT !.slots = s, !.buttons = buttons]
  BY Zenon DEF frame, base, D
<1> HIDE DEF s
<1>5. s \in [points -> Slots] /\ DOMAIN s = points
  BY <1>3, Zenon DEF Apart
<1>6. s \in UNION {[E -> Slots] : E \in SUBSET Fingers}
  BY <1>5, Zenon
<1> DEFINE q == frame(p, points, buttons)
<1>7. /\ q \in PadState /\ q.age = p.age /\ q.slots = s /\ q.buttons = buttons
  BY <1>4, <1>6, Zenon DEF PadState
<1> HIDE DEF q
<1>8. OwnSlots(q)
  BY <1>3, <1>5, <1>7, Zenon DEF Apart, OwnSlots
<1> QED
  BY <1>5, <1>7, <1>8, Zenon DEF q

\* A release leaves nothing held.
LEMMA ReleasedFacts ==
  ASSUME NEW p \in PadState, OwnSlots(p)
  PROVE  /\ Released(p) \in PadState /\ OwnSlots(Released(p)) /\ Released(p).age = p.age
         /\ ~Held(Released(p))
<1>1. {} \in SUBSET Fingers /\ Cardinality({}) <= PadSlots /\ 0 \in Int
  BY PadAssumption, FS_EmptySet
<1>2. /\ Released(p) \in PadState /\ OwnSlots(Released(p)) /\ Released(p).age = p.age
      /\ DOMAIN Released(p).slots = {} /\ Released(p).buttons = 0
  BY <1>1, FrameFacts DEF Released
<1> QED
  BY <1>2 DEF Held

\* A line renews what is held, leaves it alone or releases it.
LEMMA ConsumeFacts ==
  ASSUME NEW p \in PadState, OwnSlots(p), NEW line \in Lines
  PROVE  /\ consume(p, line) \in PadState /\ OwnSlots(consume(p, line))
         /\ \/ line.whole /\ Valid(line) /\ consume(p, line).age = 0
            \/ ~Valid(line) /\ consume(p, line) = p
            \/ ~Valid(line) /\ ~Held(consume(p, line))
<1>1. line.points \in SUBSET Fingers /\ line.buttons \in Int
  <2>1. {0} \subseteq Int /\ {1, -1} \subseteq Int
    OBVIOUS
  <2>2. CASE line \in [points : SUBSET Fingers, buttons : {0}, whole : {TRUE}]
    BY <2>1, <2>2, Zenon
  <2>3. CASE line \in [points : {{}}, buttons : {1, -1}, whole : {TRUE}]
    BY <2>1, <2>3, Zenon
  <2>4. CASE line \in [points : {{}}, buttons : {0}, whole : {FALSE}]
    BY <2>1, <2>4, Zenon
  <2> QED
    BY <2>2, <2>3, <2>4, Zenon DEF Lines
<1>2. CASE ~line.whole
  BY <1>2, Zenon DEF consume, Valid
<1>3. CASE line.whole /\ Valid(line)
  <2> DEFINE q == frame(p, line.points, line.buttons)
  <2>1. q \in PadState /\ OwnSlots(q)
    BY <1>1, <1>3, FrameFacts, Zenon DEF Valid
  <2>2. consume(p, line) = [q EXCEPT !.age = 0]
    BY <1>3, Zenon DEF consume
  <2> HIDE DEF q
  <2>3. /\ consume(p, line) \in PadState /\ consume(p, line).age = 0
        /\ consume(p, line).slots = q.slots
    BY <2>1, <2>2 DEF PadState, Hold
  <2> QED
    BY <1>3, <2>1, <2>3, Zenon DEF OwnSlots
<1>4. CASE line.whole /\ ~Valid(line)
  <2>1. consume(p, line) = Released(p)
    BY <1>4, Zenon DEF consume
  <2> QED
    BY <1>4, <2>1, ReleasedFacts, Zenon
<1> QED
  BY <1>2, <1>3, <1>4, Zenon

\* The lesser of two numbers.
LEMMA MinTwo ==
  ASSUME NEW a \in Int, NEW b \in Int
  PROVE  Min({a, b}) = IF a <= b THEN a ELSE b
<1> DEFINE m == IF a <= b THEN a ELSE b
<1>1. m \in {a, b} /\ \A y \in {a, b} : m <= y
  OBVIOUS
<1>2. \A x \in {a, b} : (\A y \in {a, b} : x <= y) => x = m
  OBVIOUS
<1> HIDE DEF m
<1>3. Min({a, b}) = m
  BY <1>1, <1>2, Zenon DEF Min
<1> QED
  BY <1>3, Zenon DEF m

\* A reply is added to those on their way, or blocked.
LEMMA ReplyFacts ==
  ASSUME NEW out \in Seq({"ready", "applied"}), NEW m \in {"ready", "applied"}
  PROVE  /\ reply(out, m) \in Seq({"ready", "applied"})
         /\ \A n \in DOMAIN reply(out, m) :
              \/ n \in DOMAIN out /\ reply(out, m)[n] = out[n]
              \/ reply(out, m)[n] = m
<1>1. CASE reply(out, m) = out
  BY <1>1, Zenon
<1>2. CASE reply(out, m) = Append(out, m)
  <2>1. /\ Append(out, m) \in Seq({"ready", "applied"})
        /\ DOMAIN Append(out, m) = 1..(Len(out) + 1) /\ DOMAIN out = 1..Len(out)
        /\ Len(out) \in Nat
        /\ Append(out, m)[Len(out) + 1] = m
        /\ \A n \in 1..Len(out) : Append(out, m)[n] = out[n]
    OBVIOUS
  <2>2. \A n \in 1..(Len(out) + 1) : n \in 1..Len(out) \/ n = Len(out) + 1
    BY <2>1
  <2> QED
    BY <1>2, <2>1, <2>2, Zenon
<1> QED
  BY <1>1, <1>2, Zenon DEF reply

\* A turn of the loop keeps the invariant.
LEMMA ServeKeeps ==
  ASSUME PadInv, serve
  PROVE  PadInv'
<1> DEFINE sent  == IF DueReady THEN reply(port.out, "ready") ELSE port.out
           stuck == DueReady /\ sent = port.out
           p     == IF DueRelease THEN Released(pad) ELSE pad
           line  == Head(port.in)
           q     == IF Readable THEN consume(p, line) ELSE p
           ready == IF DueReady /\ ~stuck THEN 2 ELSE server.ready
           block == IF stuck THEN TRUE ELSE server.blocked /\ ~DueWrite
           appl  == server.applied \/ (Readable /\ Valid(line) /\ line.points # {})
           quiet == IF Readable /\ Valid(line) THEN 0 ELSE server.quiet
           in    == IF Readable THEN Tail(port.in) ELSE port.in
           out   == IF Readable /\ applies(line) THEN reply(sent, "applied") ELSE sent
<1>1. /\ port.open /\ pad' = q
      /\ server' = [server EXCEPT !.ready = ready, !.blocked = block, !.applied = appl,
                                  !.quiet = quiet]
      /\ port' = [port EXCEPT !.in = in, !.out = out]
      /\ UNCHANGED front
  BY Zenon DEF serve
<1>2. /\ pad \in PadState /\ server \in ServerState /\ port \in PortState
      /\ front \in FrontState /\ OwnSlots(pad)
      /\ port.in \in Seq(Lines) /\ port.out \in Seq({"ready", "applied"})
  BY Zenon DEF PadInv, PadType, PortState
<1>3. /\ p \in PadState /\ OwnSlots(p) /\ (Held(p) => p = pad)
  <2>1. /\ Released(pad) \in PadState /\ OwnSlots(Released(pad)) /\ ~Held(Released(pad))
    BY <1>2, ReleasedFacts, Zenon
  <2> QED
    BY <1>2, <2>1, Zenon
<1>4. Readable => line \in Lines /\ Tail(port.in) \in Seq(Lines)
  BY <1>2 DEF Readable
<1> HIDE DEF p, line
<1>5. /\ q \in PadState /\ OwnSlots(q)
      /\ \/ Readable /\ Valid(line) /\ q.age = 0
         \/ ~(Readable /\ Valid(line)) /\ (Held(q) => q = pad)
  <2>1. CASE Readable
    <3>1. /\ consume(p, line) \in PadState /\ OwnSlots(consume(p, line))
          /\ \/ line.whole /\ Valid(line) /\ consume(p, line).age = 0
             \/ ~Valid(line) /\ consume(p, line) = p
             \/ ~Valid(line) /\ ~Held(consume(p, line))
      BY <1>3, <1>4, <2>1, ConsumeFacts, Zenon
    <3> QED
      BY <1>3, <2>1, <3>1, Zenon
  <2>2. CASE ~Readable
    BY <1>3, <2>2, Zenon
  <2> QED
    BY <2>1, <2>2, Zenon
<1>6. /\ sent \in Seq({"ready", "applied"})
      /\ \A n \in DOMAIN sent : (n \in DOMAIN port.out /\ sent[n] = port.out[n])
                                \/ sent[n] = "ready"
  BY <1>2, ReplyFacts, Zenon
<1> HIDE DEF sent
<1>7. /\ out \in Seq({"ready", "applied"})
      /\ \A n \in DOMAIN out : (n \in DOMAIN sent /\ out[n] = sent[n])
                               \/ (Readable /\ applies(line))
  BY <1>6, ReplyFacts, Zenon
<1>8. /\ ready \in Nat /\ block \in BOOLEAN /\ appl \in BOOLEAN /\ quiet \in Nat
      /\ in \in Seq(Lines)
  BY <1>2, <1>4, Zenon DEF ServerState, Valid, Lines
<1> HIDE DEF q, ready, block, appl, quiet, in, out
<1>9. /\ server' \in ServerState /\ server'.applied = appl /\ server'.quiet = quiet
  BY <1>1, <1>2, <1>8, Zenon DEF ServerState
<1>10. port' \in PortState /\ port'.out = out /\ port'.open
  BY <1>1, <1>2, <1>7, <1>8, Zenon DEF PortState
<1>11. PadType' /\ OwnSlots(pad)'
  BY <1>1, <1>2, <1>5, <1>9, <1>10, Zenon DEF PadType
<1>12. Held(pad)' => server'.quiet <= pad'.age
  <2>1. CASE Readable /\ Valid(line) /\ q.age = 0
    BY <1>1, <1>9, <2>1 DEF quiet
  <2>2. CASE ~(Readable /\ Valid(line)) /\ (Held(q) => q = pad)
    BY <1>1, <1>9, <2>2, Zenon DEF quiet, PadInv
  <2> QED
    BY <1>5, <2>1, <2>2, Zenon
<1>13. server.applied => appl
  BY Zenon DEF appl
<1>14. \A n \in DOMAIN out : out[n] = "applied" => appl
  <2>1. SUFFICES ASSUME NEW n \in DOMAIN out, out[n] = "applied" PROVE appl
    OBVIOUS
  <2>2. CASE Readable /\ applies(line)
    BY <2>2, Zenon DEF appl, applies
  <2>3. CASE n \in DOMAIN sent /\ out[n] = sent[n]
    BY <1>1, <1>6, <1>13, <2>1, <2>3, Zenon DEF PadInv
  <2> QED
    BY <1>7, <2>2, <2>3, Zenon
<1> QED
  BY <1>1, <1>9, <1>10, <1>11, <1>12, <1>13, <1>14, Zenon DEF PadInv

\* The invariant holds at first.
LEMMA PadStart == PadInit => PadInv
<1>1. SUFFICES ASSUME PadInit PROVE PadInv
  OBVIOUS
<1>2. /\ <<>> \in [{} -> Slots] /\ <<>> \in Seq(Lines) /\ <<>> \in Seq({"ready", "applied"})
      /\ DOMAIN <<>> = {} /\ 0 \in 0..Hold
  BY DEF Hold
<1>3. NoPad \in PadState /\ NoPad.slots = <<>> /\ NoPad.buttons = 0
  BY NewPad, Zenon
<1> QED
  BY <1>1, <1>2, <1>3 DEF PadInit, PadInv, PadType, OwnSlots, Held, Started, ServerState,
     PortState, FrontState

\* Every step keeps it.
LEMMA PadStepKeeps ==
  ASSUME PadInv, [PadNext]_padVars
  PROVE  PadInv'
<1>1. /\ pad \in PadState /\ server \in ServerState /\ port \in PortState
      /\ front \in FrontState /\ OwnSlots(pad)
  BY Zenon DEF PadInv, PadType
<1>2. CASE serve
  BY <1>2, ServeKeeps, Zenon
<1>3. CASE Reopen
  <2>1. /\ <<>> \in [{} -> Slots] /\ <<>> \in Seq(Lines)
        /\ <<>> \in Seq({"ready", "applied"}) /\ DOMAIN <<>> = {} /\ 0 \in 0..Hold
    BY DEF Hold
  <2>2. NoPad \in PadState /\ NoPad.slots = <<>> /\ NoPad.buttons = 0
    BY NewPad, Zenon
  <2>3. front.applied = 0
    BY <1>3, Zenon DEF Reopen, PadInv
  <2> QED
    BY <1>1, <1>3, <2>1, <2>2, <2>3, SMTT(30) DEF Reopen, PadInv, PadType, OwnSlots, Held, Started,
       ServerState, PortState, FrontState
<1>4. CASE portDidDisconnect
  <2>1. /\ port' = [port EXCEPT !.open = FALSE] /\ front' = [ready |-> 0, applied |-> 0]
        /\ UNCHANGED <<pad, server>>
    BY <1>4, Zenon DEF portDidDisconnect
  <2>2. port' \in PortState /\ ~port'.open
    BY <1>1, <2>1, Zenon DEF PortState
  <2>3. front' \in FrontState /\ front'.applied = 0
    BY <2>1, Zenon DEF FrontState
  <2> QED
    BY <1>1, <2>1, <2>2, <2>3 DEF PadInv, PadType, Held, OwnSlots
<1>5. CASE sendTouches
  <2>1. PICK line \in Lines : port' = [port EXCEPT !.in = Append(@, line)]
    BY <1>5, Zenon DEF sendTouches
  <2>2. UNCHANGED <<pad, server, front>>
    BY <1>5, Zenon DEF sendTouches
  <2>3. port' \in PortState /\ port'.open = port.open /\ port'.out = port.out
    <3> DEFINE in == Append(port.in, line)
    <3>1. in \in Seq(Lines) /\ port' = [port EXCEPT !.in = in]
      BY <1>1, <2>1 DEF PortState
    <3> HIDE DEF in
    <3> QED
      BY <1>1, <3>1, Zenon DEF PortState
  <2> QED
    BY <1>1, <2>2, <2>3, Zenon DEF PadInv, PadType, Held, OwnSlots
<1>6. CASE didReceiveData
  <2>1. /\ port.open /\ port.out # <<>> /\ UNCHANGED <<pad, server>>
        /\ front' = IF Head(port.out) = "ready" THEN [front EXCEPT !.ready = ReadyFor]
                    ELSE [front EXCEPT !.applied = AppliedFor]
        /\ port' = [port EXCEPT !.out = Tail(@)]
    BY <1>6, Zenon DEF didReceiveData
  <2> DEFINE out == Tail(port.out)
  <2>2. /\ port.out \in Seq({"ready", "applied"}) /\ out \in Seq({"ready", "applied"})
        /\ Head(port.out) = port.out[1] /\ 1 \in DOMAIN port.out
        /\ Head(port.out) \in {"ready", "applied"}
        /\ \A n \in DOMAIN out : out[n] = port.out[n + 1] /\ n + 1 \in DOMAIN port.out
    BY <1>1, <2>1 DEF PortState
  <2>3. port' = [port EXCEPT !.out = out]
    BY <2>1, Zenon
  <2> HIDE DEF out
  <2>4. port' \in PortState /\ port'.open /\ port'.out = out
    BY <1>1, <2>1, <2>2, <2>3, Zenon DEF PortState
  <2>5. front' \in FrontState
    BY <1>1, <2>1, Zenon DEF FrontState, ReadyFor, AppliedFor
  <2>6. front'.applied > 0 => server.applied
    <3>1. CASE Head(port.out) = "ready"
      <4>1. front'.applied = front.applied
        BY <1>1, <2>1, <3>1, Zenon DEF FrontState
      <4> QED
        BY <4>1, Zenon DEF PadInv
    <3>2. CASE Head(port.out) = "applied"
      BY <2>1, <2>2, <3>2, Zenon DEF PadInv
    <3> QED
      BY <2>2, <3>1, <3>2, Zenon
  <2>7. \A n \in DOMAIN out : out[n] = "applied" => server.applied
    BY <2>1, <2>2, Zenon DEF PadInv
  <2> QED
    BY <1>1, <2>1, <2>4, <2>5, <2>6, <2>7, Zenon DEF PadInv, PadType, Held, OwnSlots
<1>7. CASE HalfSecond
  <2> DEFINE age == Min({Hold, pad.age + 1})
             quiet == Min({Hold + 1, server.quiet + 1})
             ready == Down(server.ready)
  <2>1. /\ ~Due /\ pad' = [pad EXCEPT !.age = age]
        /\ server' = [server EXCEPT !.ready = ready, !.quiet = quiet]
        /\ front' = [ready |-> Down(front.ready), applied |-> Down(front.applied)]
        /\ UNCHANGED port
    BY <1>7, Zenon DEF HalfSecond
  <2>2. pad.age \in 0..2 /\ server.quiet \in Nat /\ server.ready \in Nat
        /\ front.ready \in Nat /\ front.applied \in Nat
    BY <1>1, Zenon DEF PadState, ServerState, FrontState, Hold
  <2>3. /\ age = IF 2 <= pad.age + 1 THEN 2 ELSE pad.age + 1
        /\ quiet = IF 3 <= server.quiet + 1 THEN 3 ELSE server.quiet + 1
    BY <2>2, MinTwo DEF Hold
  <2>4. ready \in Nat /\ Down(front.ready) \in Nat /\ Down(front.applied) \in Nat
        /\ (Down(front.applied) > 0 => front.applied > 0)
        /\ (front.applied = 0 => Down(front.applied) = 0)
    BY <2>2 DEF Down
  <2> HIDE DEF age, quiet, ready
  <2>5. age \in 0..Hold /\ quiet \in Nat
    BY <2>2, <2>3 DEF Hold
  <2>6. pad' \in PadState /\ pad'.age = age /\ pad'.slots = pad.slots
        /\ pad'.buttons = pad.buttons
    BY <1>1, <2>1, <2>5, Zenon DEF PadState
  <2>7. server' \in ServerState /\ server'.applied = server.applied
        /\ server'.quiet = quiet
    BY <1>1, <2>1, <2>4, <2>5, Zenon DEF ServerState
  <2>8. front' \in FrontState /\ front'.applied = Down(front.applied)
    BY <2>1, <2>4, Zenon DEF FrontState
  <2>9. Held(pad)' <=> Held(pad)
    BY <2>6, Zenon DEF Held
  <2>10. Held(pad) => quiet <= age
    <3>1. Held(pad) => pad.age < 2 /\ server.quiet <= pad.age
      BY <2>1, <2>2 DEF Due, DueRelease, PadInv, Hold
    <3> QED
      BY <2>2, <2>3, <3>1, SMTT(30)
  <2> QED
    BY <1>1, <2>1, <2>4, <2>6, <2>7, <2>8, <2>9, <2>10, SMTT(30) DEF PadInv, PadType, OwnSlots
<1>8. CASE UNCHANGED padVars
  BY <1>1, <1>8, Zenon DEF padVars, PadInv, PadType, Held, OwnSlots
<1> QED
  BY <1>2, <1>3, <1>4, <1>5, <1>6, <1>7, <1>8, Zenon DEF PadNext

\* It holds throughout.
LEMMA PadAlways == PadSpec => []PadInv
BY PadStart, PadStepKeeps, PTL DEF PadSpec

\* For any set of fingers, any number of slots and frames, contacts never share a
\* slot, and they are released in time without a valid frame.
THEOREM ContactsStayKept == PadSpec => []ContactsKept
<1>1. PadInv => ContactsKept
  <2>1. SUFFICES ASSUME PadInv PROVE ContactsKept
    OBVIOUS
  <2>2. pad \in PadState /\ OwnSlots(pad) /\ pad.age \in 0..Hold /\ server.quiet \in Nat
    BY <2>1, Zenon DEF PadInv, PadType, PadState, ServerState
  <2>3. SlotsApart
    BY <2>2, SlotsApartly, Zenon DEF SlotsApart, OwnSlots, Slots
  <2>4. HeldReleased
    BY <2>1, <2>2 DEF PadInv, HeldReleased, Hold
  <2> QED
    BY <2>3, <2>4, Zenon DEF ContactsKept
<1> QED
  BY <1>1, PadAlways, PTL

\* The frontend gives up its pointer only while a frame with contacts was
\* applied on this connection.
THEOREM PointerAfterApplied == PadSpec => []PointerNeedsApplied
<1>1. PadInv => PointerNeedsApplied
  BY Zenon DEF PadInv, PointerNeedsApplied
<1> QED
  BY <1>1, PadAlways, PTL
=============================================================================
