----------------------------- MODULE WifiPower -----------------------------
(***************************************************************************)
(* The radio synchronisation service, src/guest/devices/wifi_power.py with *)
(* the host events of wifi_events.py: the guest's rfkill switch and the    *)
(* Mac's Wi-Fi power follow each other.  The service's main loop reads     *)
(* rfkill events, one worker thread talks to the Mac.  A choice made in    *)
(* the guest is submitted to the Mac; a change on the Mac is written to    *)
(* the switch, and the rfkill event of that write must not be taken for a  *)
(* choice.  Calls fail, may be executed late, and session changes,         *)
(* restarts of the service and losses of the status channel intervene.     *)
(***************************************************************************)
EXTENDS Integers, Sequences

CONSTANTS
  MaxToggles,   \* bound: changes of the switch by the guest's user
  MaxMac,       \* bound: changes of the Mac's power by its user
  MaxSessions,  \* bound: changes of the macOS session between active and not
  MaxFaults     \* bound: failed calls, status losses, service restarts

ASSUME PowerAssumption ==
  MaxToggles \in Nat /\ MaxMac \in Nat /\ MaxSessions \in Nat
    /\ MaxFaults \in Nat

VARIABLES
  soft,       \* the kernel's switch: 1 blocks the radio
  queue,      \* rfkill events the service has not read
  radio,      \* RadioIntent
  loop,       \* WiFiPower: busy, dirty, the refresh and retry timers, key
  work,       \* the worker's turn and the main loop's use of its result
  mac,        \* the Mac: power, a call it may still execute, its status
  history,    \* what was submitted; races that no code can resolve
  spent       \* the bounded inputs used so far

vars == <<soft, queue, radio, loop, work, mac, history, spent>>

NoChoice == [serial |-> 0, powered |-> FALSE]
Nothing == -1
Idle == [at |-> "idle", attempt |-> NoChoice, key |-> <<>>,
         problem |-> FALSE, known |-> FALSE, powered |-> FALSE]
Blocked(powered) == IF powered THEN 0 ELSE 1

Spend(kind, bound) ==
  /\ spent[kind] < bound
  /\ spent' = [spent EXCEPT ![kind] = @ + 1]

-----------------------------------------------------------------------------
(* rfkill and RadioIntent *)

\* The kernel's switch changes; every reader gets one event per change.
SetSoft(value, by) ==
  /\ soft' = value
  /\ queue' = IF value = soft THEN queue
              ELSE Append(queue, [soft |-> value, by |-> by])

\* One event: a choice unless it is the echo of our own write, repeats the
\* state we know, or arrives before the host's state has been applied.
observe(r, value) ==
  IF value = r.expected \/ value = r.soft \/ ~r.initialized
  THEN [r EXCEPT !.soft = value, !.expected = Nothing]
  ELSE [r EXCEPT !.soft = value, !.expected = Nothing,
                 !.serial = @ + 1,
                 !.pending = [serial |-> r.serial + 1, powered |-> value = 0]]

\* The states of the intent while all queued events are observed.
Observed ==
  LET after[n \in 0..Len(queue)] ==
        IF n = 0 THEN radio ELSE observe(after[n - 1], queue[n].soft)
  IN after

\* An event of our own was taken for a choice.
EchoTaken ==
  \E n \in 1..Len(queue) :
    queue[n].by = "service" /\ Observed[n].serial # Observed[n - 1].serial

Drained == Observed[Len(queue)]

\* As attempted, but an attempt stays pending for another try.
attempted_again(r, attempt) == r

attempted(r, attempt) ==
  IF attempt # NoChoice /\ r.pending = attempt
  THEN [r EXCEPT !.pending = NoChoice]
  ELSE r

inactive(r) == [r EXCEPT !.initialized = FALSE, !.pending = NoChoice]

-----------------------------------------------------------------------------
(* The service's main loop *)

\* WiFiEvents.active: unknown counts as active.
Active(l) == l.key # <<>> => l.key[2]

notify(l) ==
  IF Active(l) THEN [l EXCEPT !.dirty = TRUE, !.refresh = TRUE] ELSE l

Record(h, echo) == [h EXCEPT !.echo = @ \/ echo]

\* radio_ready: the queued events are read.
read_radio ==
  /\ queue # <<>> /\ work.at # "apply"
  /\ radio' = Drained
  /\ queue' = <<>>
  /\ loop' = IF radio'.serial # radio.serial THEN notify(loop) ELSE loop
  /\ history' = Record(history, EchoTaken)
  /\ UNCHANGED <<soft, work, mac, spent>>

\* The 40 ms timer: a turn of the worker, unless one is under way.
refresh ==
  /\ loop.refresh /\ work.at # "apply"
  /\ IF loop.busy \/ ~loop.dirty \/ ~Active(loop)
     THEN /\ loop' = [loop EXCEPT !.refresh = FALSE]
          /\ UNCHANGED <<queue, radio, work, history>>
     ELSE /\ radio' = Drained
          /\ queue' = <<>>
          /\ history' = Record(history, EchoTaken)
          /\ loop' = [loop EXCEPT !.refresh = radio'.serial # radio.serial,
                                  !.dirty = FALSE, !.busy = TRUE]
          /\ work' = [Idle EXCEPT
               !.at = "fetch", !.key = loop.key,
               !.attempt = IF radio'.initialized THEN radio'.pending
                                                 ELSE NoChoice]
  /\ UNCHANGED <<soft, mac, spent>>

\* The Mac's power changes, by whatever cause, and its status says so.
Powered(m, powered) ==
  [m EXCEPT !.powered = powered,
            !.revision = IF powered = m.powered THEN @ ELSE @ + 1]

\* fetch, first half: the choice is submitted.  A call that fails may have
\* been executed, may be executed later, or never.
submit ==
  /\ work.at = "fetch" /\ work.attempt # NoChoice
  /\ \/ /\ mac' = Powered(mac, work.attempt.powered)
        /\ work' = [work EXCEPT !.at = "status"]
        /\ UNCHANGED spent
     \/ /\ Spend("faults", MaxFaults)
        /\ \/ mac' = mac
           \/ mac' = Powered(mac, work.attempt.powered)
           \/ mac' = [mac EXCEPT !.late = <<work.attempt.powered>>]
        /\ work' = [work EXCEPT !.at = "status", !.problem = TRUE]
  /\ history' = [history EXCEPT !.submitted = Append(@, work.attempt.serial)]
  /\ UNCHANGED <<soft, queue, radio, loop>>

\* fetch, second half: the Mac's state, or a failure.
status ==
  /\ work.at = "status" \/ (work.at = "fetch" /\ work.attempt = NoChoice)
  /\ \/ /\ work' = [work EXCEPT !.at = "done", !.known = TRUE,
                               !.powered = mac.powered]
        /\ UNCHANGED spent
     \/ /\ Spend("faults", MaxFaults)
        /\ work' = [work EXCEPT !.at = "done", !.problem = TRUE]
  /\ UNCHANGED <<soft, queue, radio, loop, mac, history>>

\* As finish, but events still queued are left unread.
finish_unread ==
  /\ work.at = "done"
  /\ LET r == attempted(radio, work.attempt)
         heard == [loop EXCEPT !.busy = FALSE] IN
     /\ UNCHANGED queue
     /\ history' = [history EXCEPT !.window = 0]
     /\ \/ /\ work.key # loop.key \/ ~Active(loop)
           /\ radio' = r /\ loop' = notify(heard) /\ work' = Idle
        \/ /\ work.key = loop.key /\ Active(loop) /\ ~work.known
           /\ radio' = [r EXCEPT !.initialized = FALSE]
           /\ loop' = IF heard.dirty
                      THEN notify([heard EXCEPT !.retry = TRUE])
                      ELSE [heard EXCEPT !.retry = TRUE]
           /\ work' = Idle
        \/ /\ work.key = loop.key /\ Active(loop) /\ work.known
           /\ radio' = r /\ loop' = heard
           /\ work' = [work EXCEPT !.at = "apply"]
  /\ UNCHANGED <<soft, mac, spent>>

\* finish up to the use of the result: queued choices are read first, the
\* attempt is over, and a result of another session or revision is dropped.
finish ==
  /\ work.at = "done"
  /\ LET r == attempted(Drained, work.attempt)
         heard == IF Drained.serial # radio.serial
                  THEN notify([loop EXCEPT !.busy = FALSE])
                  ELSE [loop EXCEPT !.busy = FALSE] IN
     /\ queue' = <<>>
     /\ history' = Record([history EXCEPT !.window = 0], EchoTaken)
     /\ \/ /\ work.key # loop.key \/ ~Active(loop)
           /\ radio' = r /\ loop' = notify(heard) /\ work' = Idle
        \/ /\ work.key = loop.key /\ Active(loop) /\ ~work.known
           /\ radio' = [r EXCEPT !.initialized = FALSE]
           /\ loop' = IF heard.dirty
                      THEN notify([heard EXCEPT !.retry = TRUE])
                      ELSE [heard EXCEPT !.retry = TRUE]
           /\ work' = Idle
        \/ /\ work.key = loop.key /\ Active(loop) /\ work.known
           /\ radio' = r /\ loop' = heard
           /\ work' = [work EXCEPT !.at = "apply"]
  /\ UNCHANGED <<soft, mac, spent>>

\* As apply, but a choice it keeps does not start another turn.
apply_once ==
  LET powered == work.powered
      desired == Blocked(powered)
      kept == radio.pending # NoChoice /\ radio.pending.powered # powered
      writes == ~kept /\ desired # radio.soft
      r == [radio EXCEPT !.initialized = TRUE,
                         !.pending = IF kept THEN @ ELSE NoChoice] IN
  /\ work.at = "apply"
  /\ IF writes
     THEN /\ SetSoft(desired, "service")
          /\ radio' = [r EXCEPT !.expected = desired, !.soft = desired]
     ELSE /\ UNCHANGED <<soft, queue>>
          /\ radio' = r
  /\ loop' = IF loop.dirty THEN notify(loop) ELSE loop
  /\ work' = Idle
  /\ history' = [history EXCEPT
       !.raced = @ \/ (writes /\ history.window > 1), !.window = 0]
  /\ UNCHANGED <<mac, spent>>

\* finish, the use of the result.  The switch may have been changed since the
\* events were read: two system calls, and other processes between them.
apply ==
  LET powered == work.powered
      desired == Blocked(powered)
      kept == radio.pending # NoChoice /\ radio.pending.powered # powered
      writes == ~kept /\ desired # radio.soft
      r == [radio EXCEPT !.initialized = TRUE,
                         !.pending = IF kept THEN @ ELSE NoChoice] IN
  /\ work.at = "apply"
  /\ IF writes
     THEN /\ SetSoft(desired, "service")
          /\ radio' = [r EXCEPT !.expected = desired, !.soft = desired]
     ELSE /\ UNCHANGED <<soft, queue>>
          /\ radio' = r
  /\ loop' = IF kept \/ loop.dirty THEN notify(loop) ELSE loop
  /\ work' = Idle
  /\ history' = [history EXCEPT
       !.raced = @ \/ (writes /\ history.window > 1), !.window = 0]
  /\ UNCHANGED <<mac, spent>>

\* The retry timer, or the fallback poll without a status channel.
retry ==
  /\ work.at # "apply"
  /\ \/ loop.retry /\ loop' = notify([loop EXCEPT !.retry = FALSE])
     \/ loop.key = <<>> /\ ~loop.refresh /\ ~loop.busy /\ loop' = notify(loop)
  /\ UNCHANGED <<soft, queue, radio, work, mac, history, spent>>

\* The key of the events changed: host_changed.
Changed(key) ==
  /\ loop.key # key /\ work.at # "apply"
  /\ LET l == [loop EXCEPT !.key = key] IN
     /\ radio' = IF Active(l) THEN radio ELSE inactive(radio)
     /\ loop' = notify(l)

\* A new status reaches the guest.
read_host ==
  /\ Changed(<<mac.revision, mac.active>>)
  /\ UNCHANGED <<soft, queue, work, mac, history, spent>>

\* The status has not been renewed for 25 seconds.
expire ==
  /\ Changed(<<>>)
  /\ Spend("faults", MaxFaults)
  /\ UNCHANGED <<soft, queue, work, mac, history>>

Fresh(value) ==
  [soft |-> value, initialized |-> FALSE, expected |-> Nothing, serial |-> 0,
   pending |-> NoChoice]

\* The service fails and is restarted.  The call it was making may still be
\* executed; the new process is sent the state of the switch.
restart ==
  /\ Spend("faults", MaxFaults)
  /\ radio' = Fresh(soft)
  /\ queue' = <<>>
  /\ loop' = notify([key |-> <<>>, busy |-> FALSE, dirty |-> FALSE,
                     refresh |-> FALSE, retry |-> FALSE])
  /\ \/ mac' = mac
     \/ /\ work.at = "fetch" /\ work.attempt # NoChoice
        /\ mac' = [mac EXCEPT !.late = <<work.attempt.powered>>]
  /\ work' = Idle
  /\ history' = [history EXCEPT !.submitted = <<>>, !.window = 0]
  /\ UNCHANGED soft

-----------------------------------------------------------------------------
(* The users and the Mac *)

\* The guest's user, or a desktop service for them, flips the switch.
Toggle ==
  /\ Spend("toggles", MaxToggles)
  /\ SetSoft(1 - soft, "user")
  /\ history' = [history EXCEPT
       !.window = IF work.at = "apply" THEN @ + 1 ELSE @]
  /\ UNCHANGED <<radio, loop, work, mac>>

\* The Mac's own user changes the power.
MacPower ==
  /\ Spend("mac", MaxMac)
  /\ mac' = Powered(mac, ~mac.powered)
  /\ UNCHANGED <<soft, queue, radio, loop, work, history>>

\* A call given up by the guest is executed after all.
MacLate ==
  /\ mac.late # <<>>
  /\ mac' = [Powered(mac, Head(mac.late)) EXCEPT !.late = <<>>]
  /\ UNCHANGED <<soft, queue, radio, loop, work, history, spent>>

\* The macOS session is switched away from or back to.
Session ==
  /\ Spend("sessions", MaxSessions)
  /\ mac' = [mac EXCEPT !.active = ~@]
  /\ UNCHANGED <<soft, queue, radio, loop, work, history>>

Init ==
  /\ soft \in {0, 1}
  /\ queue = <<>>
  /\ radio = Fresh(soft)
  /\ loop = [key |-> <<>>, busy |-> FALSE, dirty |-> TRUE, refresh |-> TRUE,
             retry |-> FALSE]
  /\ work = Idle
  /\ mac \in [powered : BOOLEAN, late : {<<>>}, revision : {0},
              active : BOOLEAN]
  /\ history = [submitted |-> <<>>, echo |-> FALSE, raced |-> FALSE,
                window |-> 0]
  /\ spent = [toggles |-> 0, mac |-> 0, sessions |-> 0, faults |-> 0]

ServiceStep ==
  read_radio \/ refresh \/ submit \/ status \/ finish \/ apply \/ retry
    \/ read_host

Next ==
  \/ ServiceStep
  \/ expire \/ restart
  \/ Toggle \/ MacPower \/ MacLate \/ Session

Spec == Init /\ [][Next]_vars

\* The main loop serves every source, the worker's calls return (they have
\* timeouts) and the status channel delivers the latest status.
Fairness ==
  /\ WF_vars(read_radio) /\ WF_vars(refresh) /\ WF_vars(submit)
  /\ WF_vars(status) /\ WF_vars(finish) /\ WF_vars(apply)
  /\ WF_vars(retry) /\ WF_vars(read_host) /\ WF_vars(MacLate)

-----------------------------------------------------------------------------
(* Properties *)

\* A choice is submitted to the Mac at most once by a process, whatever became
\* of the call: an uncertain power change is never repeated.
SubmittedOnce ==
  \A i, j \in DOMAIN history.submitted :
    i < j => history.submitted[i] < history.submitted[j]

\* The echo of the service's own write is never taken for a choice, so a
\* change made on the Mac is not sent back to it; except when somebody flips
\* the switch twice between the service's read and its write.
EchoIgnored == history.echo => history.raced

\* Only choices are submitted to the Mac, and each at most once.
ChoicesSubmittedOnce == SubmittedOnce /\ EchoIgnored

\* When the service changes the switch it overrides no choice that was made
\* before it took up the reply: not one it already holds, and not one whose
\* event it has yet to read.
NewerChoiceKept ==
  [][(apply /\ soft' # soft) =>
       \/ history'.raced
       \/ /\ radio.pending = NoChoice \/ radio.pending.powered = work.powered
          /\ \A i \in DOMAIN queue : queue[i].by # "user"]_vars

\* Once changes and faults stop, the switch and the Mac agree, unless the
\* macOS session is inactive, when the guest leaves the Mac alone.
Converges == <>[](~mac.active \/ soft = Blocked(mac.powered))
=============================================================================
