----------------------------- MODULE Bluetooth ------------------------------
(***************************************************************************)
(* Bluetooth management.  The guest's stand-in for BlueZ                   *)
(* (src/guest/devices/bluetooth_bluez.py, bluetooth_events.py) shows the   *)
(* Mac's adapter and devices, feeds the rfkill driver                      *)
(* (src/guest/drivers/bluetooth/linuxhost_bt_rfkill.c) and runs Connect,   *)
(* Disconnect and Pair on the Mac (bluetooth_management.py,                *)
(* src/host/devices/BluetoothService.swift).  A second client runs the     *)
(* same operations through src/guest/devices/device_service.py.            *)
(*                                                                         *)
(* One device is modelled, found by a scan before, paired or not, linked   *)
(* or not.  An operation's UUID is a number, and names the pairing attempt *)
(* and its code as well.                                                   *)
(***************************************************************************)
EXTENDS Integers, FiniteSets

CONSTANTS
  Senders,     \* D-Bus clients of the bridge
  NoKey,       \* no revision: the status file is stale or absent
  BtBudgets    \* bounds, one record per instance explored: whether the bridge
               \* starts (boot), operations of the bridge (ops) and of the
               \* other client (cli), changes of the Mac's radio and link
               \* (changes), announcements of changes (news), session changes
               \* (switches), discoveries (calls), agents (agents), scans
               \* repeated while a discovery lasts (scans), RPCs lost (losses),
               \* stale status files (stales), minutes that pass (minutes),
               \* 15 seconds without a feed of the driver (lapses), D-Bus
               \* clients that leave (leaves), ends of the bridge (quits)

ASSUME BtAssumption ==
  BtBudgets \subseteq [{"boot", "ops", "cli", "changes", "news", "switches", "calls",
    "agents", "scans", "losses", "stales", "minutes", "lapses", "leaves",
    "quits"} -> Nat]

VARIABLES
  host,     \* the Mac: session active, radio powered, device linked and paired
  service,  \* BluetoothService: operation, pairing, connection, scan, revision
  file,     \* status.json: revision and session; whether it changed
  bz,       \* Bridge and BluetoothEvents, on the GLib main loop
  reader,   \* the pool's worker that reads the devices, after a scan or not
  clients,  \* device_operation, in the pool's other worker and in the client
  peers,    \* D-Bus clients: present, gone, or gone and not yet announced
  rfkill,   \* the driver: available, powered, fed within 15 seconds
  btTale,   \* history of attempts: asked for a confirmation (needs), code
            \* approved in the guest, confirmed by the service (told), and of
            \* operations that did what they were asked (won)
  btLeft    \* what is left of the budget

btVars == <<host, service, file, bz, reader, clients, peers, rfkill, btTale, btLeft>>
hostVars == <<host, service>>
guestVars == <<bz, reader, peers, rfkill>>

BtSpend(kind) ==
  /\ btLeft[kind] > 0
  /\ btLeft' = [btLeft EXCEPT ![kind] = @ - 1]

-----------------------------------------------------------------------------
(* The Mac's service, on its main queue. *)

NoOperation == [id |-> 0, state |-> "none", success |-> FALSE, ask |-> "none"]

\* A change is announced 50 ms later, with those that follow it until then.
invalidate(s) == [s EXCEPT !.changing = TRUE]

PendingChange ==
  /\ service.changing
  /\ BtSpend("news")
  /\ service' = [service EXCEPT !.changing = FALSE, !.rev = @ + 1]
  /\ UNCHANGED <<host, file, guestVars, clients, btTale>>

Busy == service.scan \/ service.pairing # 0 \/ service.connecting # 0 \/ ~host.powered

Refused == ~host.active

\* What a client's request for verb gets: a new operation, or a refusal.
Accepts(verb) ==
  /\ ~Refused /\ ~Busy
  /\ verb \in {"connect", "disconnect"} => host.paired

finishPairOperation_forgets(s, ok) == invalidate([s EXCEPT !.pairOp = 0])

finishPairOperation(s, ok) ==
  invalidate([s EXCEPT !.pairOp = 0,
    !.operation = [NoOperation EXCEPT !.id = s.pairOp, !.state = "complete", !.success = ok]])

\* started: whether the framework takes the attempt.
NewOperation(verb, started) ==
  LET id == service.ids + 1
      s  == invalidate([service EXCEPT !.ids = id,
              !.operation = [NoOperation EXCEPT !.id = id, !.state = "pending"]])
  IN IF verb # "pair" THEN [s EXCEPT !.connecting = id, !.verb = verb]
     ELSE IF host.paired THEN finishPairOperation([s EXCEPT !.pairOp = id], TRUE)
     ELSE IF started THEN [s EXCEPT !.pairOp = id, !.pairing = id, !.attempts = @ \cup {id}]
     ELSE finishPairOperation([s EXCEPT !.pairOp = id], FALSE)

\* openConnection or closeConnection ended, 2 seconds ago.
ConnectionDone ==
  /\ service.connecting # 0
  /\ \E works \in BOOLEAN :
       LET want == service.verb = "connect"
           now  == IF works THEN want ELSE host.linked
       IN /\ works => host.powered
          /\ host' = [host EXCEPT !.linked = now]
          /\ btTale' = [btTale EXCEPT !.won = IF works THEN @ \cup {service.connecting} ELSE @]
          /\ service' = invalidate([service EXCEPT !.connecting = 0,
               !.operation = [NoOperation EXCEPT !.id = service.connecting,
                 !.state = "complete", !.success = works]])
  /\ UNCHANGED <<file, guestVars, clients, btLeft>>

\* A callback counts only from the attempt that is under way.
Current(a) == service.pairing = a

PairingAsks(a) ==
  /\ a \in service.attempts /\ Current(a)
  /\ a \notin btTale.needs /\ service.operation.ask = "none"
  /\ \E kind \in {"confirm", "passkey"} :
       /\ service' = invalidate([service EXCEPT !.operation.ask = kind])
       /\ btTale' = [btTale EXCEPT !.needs = IF kind = "confirm" THEN @ \cup {a} ELSE @]
  /\ UNCHANGED <<host, file, guestVars, clients, btLeft>>

\* devicePairingFinished, a request for a PIN, or the 60 seconds are over.
PairingEnds(a) ==
  /\ a \in service.attempts
  /\ Current(a)
  /\ \E ok \in BOOLEAN :
       /\ ok => host.powered /\ a \notin btTale.needs \ btTale.told
       /\ host' = [host EXCEPT !.paired = @ \/ ok]
       /\ btTale' = [btTale EXCEPT !.won = IF ok THEN @ \cup {a} ELSE @]
       /\ service' = [finishPairOperation(service, ok) EXCEPT !.pairing = 0,
            !.attempts = IF ok THEN @ \ {a} ELSE @]
  /\ UNCHANGED <<file, guestVars, clients, btLeft>>

Confirms_any(id) == ~Refused /\ service.operation.ask = "confirm" /\ service.pairing # 0

\* bluetooth-confirm: only for the operation that pairs, once it has asked.
Confirms(id) ==
  /\ ~Refused
  /\ id = service.pairOp /\ service.operation.ask = "confirm" /\ service.pairing # 0

finishScan(s) == invalidate([s EXCEPT !.scan = FALSE])

\* The inquiry is complete, or the timer of this scan fired.
ScanEnds ==
  /\ service.scan
  /\ service' = finishScan(service)
  /\ UNCHANGED <<host, file, guestVars, clients, btTale, btLeft>>

\* centralManagerDidUpdateState, or a device notification.
HostChanges ==
  /\ BtSpend("changes")
  /\ \/ /\ host' = [host EXCEPT !.powered = ~@, !.linked = FALSE]
        /\ service' = IF service.scan THEN finishScan(service) ELSE invalidate(service)
     \/ /\ host.powered /\ host.paired
        /\ host' = [host EXCEPT !.linked = ~@]
        /\ service' = invalidate(service)
  /\ UNCHANGED <<file, guestVars, clients, btTale>>

SessionSwitches ==
  /\ BtSpend("switches")
  /\ host' = [host EXCEPT !.active = ~@]
  /\ UNCHANGED <<service, file, guestVars, clients, btTale>>

-----------------------------------------------------------------------------
(* The bridge, on the GLib main loop of the guest. *)

Active(b) == b.key = NoKey \/ b.key.active
later(b, name) == IF b.closed THEN b ELSE [b EXCEPT !.timers = @ \cup {name}]
notify(b) == later(b, "refresh")
retry(b) == IF Active(b) THEN later(b, "retry") ELSE b
again_later(b) == [b EXCEPT !.again = FALSE]

again(b) == IF b.again THEN notify([b EXCEPT !.again = FALSE]) ELSE b
schedule_discovery(b) == IF b.discovery # {} /\ Active(b) THEN later(b, "discovery") ELSE b

Unavailable == [available |-> FALSE, powered |-> FALSE, linked |-> FALSE, paired |-> FALSE]

update(b, state) == [b EXCEPT !.shown = state, !.radioKey = b.key]

\* write_radio: the driver's ioctl.
Fed(b) == [available |-> b.shown.available, powered |-> b.shown.powered, fresh |-> TRUE]

refresh(b, scan) ==
  /\ IF reader.pc # "idle"
     THEN bz' = [b EXCEPT !.again = TRUE] /\ UNCHANGED <<reader, rfkill>>
     ELSE IF ~Active(b)
     THEN /\ bz' = update(b, Unavailable)
          /\ rfkill' = Fed(bz')
          /\ UNCHANGED reader
     ELSE /\ bz' = b
          /\ reader' = [reader EXCEPT !.pc =
               IF scan /\ b.discovery # {} /\ clients["bluez"].pc = "idle"
               THEN "scan" ELSE "devices"]
          /\ UNCHANGED rfkill
  /\ UNCHANGED <<hostVars, clients, peers, btTale>>

host_revision == IF file.valid THEN [rev |-> file.rev, active |-> file.active] ELSE NoKey

\* The cached radio state is fed again while the revision it belongs to lasts.
heartbeat(b) == b.key # NoKey /\ b.key = b.radioKey /\ Active(b)

read_host ==
  LET key  == host_revision
      mode == IF key = NoKey THEN "polling" ELSE "events"
      b0   == [bz EXCEPT !.timers = @ \ {"expiry"}]
      b1   == IF mode = bz.mode THEN b0
              ELSE notify(later([b0 EXCEPT !.mode = mode], "reconcile"))
      b2   == IF key = bz.key THEN b1 ELSE notify([b1 EXCEPT !.key = key])
  IN /\ bz' = IF key = NoKey THEN b2 ELSE later(b2, "expiry")
     /\ rfkill' = IF heartbeat(b2) THEN Fed(b2) ELSE rfkill
     /\ UNCHANGED <<hostVars, reader, clients, peers, btTale, btLeft>>

status_changed ==
  /\ file.event /\ ~bz.closed
  /\ file' = [file EXCEPT !.event = FALSE]
  /\ read_host

Pop(name) == [bz EXCEPT !.timers = @ \ {name}]

Expiry == "expiry" \in bz.timers /\ ~file.valid /\ read_host /\ UNCHANGED file

Refresh ==
  /\ "refresh" \in bz.timers
  /\ refresh(Pop("refresh"), FALSE)
  /\ UNCHANGED <<file, btLeft>>

Discovery ==
  /\ "discovery" \in bz.timers
  /\ BtSpend("scans")
  /\ refresh(Pop("discovery"), TRUE)
  /\ UNCHANGED file

Retry ==
  /\ "retry" \in bz.timers
  /\ bz' = notify(Pop("retry"))
  /\ UNCHANGED <<hostVars, file, reader, clients, peers, rfkill, btTale, btLeft>>

\* Every minute, or every 2 seconds while there is no revision.
Reconcile ==
  /\ "reconcile" \in bz.timers
  /\ IF bz.key = NoKey THEN UNCHANGED btLeft ELSE BtSpend("minutes")
  /\ bz' = LET b == Pop("reconcile") IN later(IF Active(b) THEN notify(b) ELSE b, "reconcile")
  /\ UNCHANGED <<hostVars, file, reader, clients, peers, rfkill, btTale>>

\* finished, of a read.
ReadFinished ==
  /\ reader.pc = "done" /\ ~bz.closed
  /\ LET b == IF reader.res.available THEN update(bz, reader.res)
              ELSE retry(update(bz, Unavailable))
     IN /\ bz' = schedule_discovery(again(b))
        /\ rfkill' = Fed(b)
  /\ reader' = [reader EXCEPT !.pc = "idle", !.res = Unavailable]
  /\ UNCHANGED <<hostVars, file, clients, peers, btTale, btLeft>>

discovery_changed(b) == IF b.discovery = {} THEN [b EXCEPT !.timers = @ \ {"discovery"}] ELSE b

StartDiscovery(s) ==
  /\ peers[s] = "there" /\ ~bz.closed
  /\ BtSpend("calls")
  /\ refresh([bz EXCEPT !.discovery = @ \cup {s}], TRUE)
  /\ UNCHANGED file

StopDiscovery(s) ==
  /\ peers[s] = "there" /\ s \in bz.discovery /\ ~bz.closed
  /\ bz' = discovery_changed([bz EXCEPT !.discovery = @ \ {s}])
  /\ UNCHANGED <<hostVars, file, reader, clients, peers, rfkill, btTale, btLeft>>

RegisterAgent(s) ==
  /\ peers[s] = "there" /\ s \notin bz.agents /\ ~bz.closed
  /\ BtSpend("agents")
  /\ bz' = [bz EXCEPT !.agents = @ \cup {s}]
  /\ UNCHANGED <<hostVars, file, reader, clients, peers, rfkill, btTale>>

\* RequestDefaultAgent, and UnregisterAgent.
DefaultAgent(s) ==
  /\ peers[s] = "there" /\ s \in bz.agents /\ ~bz.closed
  /\ \/ bz.default # {s} /\ bz' = [bz EXCEPT !.default = {s}]
     \/ bz' = [bz EXCEPT !.agents = @ \ {s}, !.default = @ \ {s}]
  /\ UNCHANGED <<hostVars, file, reader, clients, peers, rfkill, btTale, btLeft>>

\* A D-Bus client disconnects; the bus announces it after its last call.
PeerLeaves(s) ==
  /\ peers[s] = "there"
  /\ BtSpend("leaves")
  /\ peers' = [peers EXCEPT ![s] = "leaving"]
  /\ UNCHANGED <<hostVars, file, bz, reader, clients, rfkill, btTale>>

owner_changed(s) ==
  /\ peers[s] = "leaving" /\ ~bz.closed
  /\ peers' = [peers EXCEPT ![s] = "gone"]
  /\ bz' = discovery_changed([bz EXCEPT !.discovery = @ \ {s}, !.agents = @ \ {s},
                                        !.default = @ \ {s}])
  /\ UNCHANGED <<hostVars, file, reader, clients, rfkill, btTale, btLeft>>

\* close: the main loop is over, and no callback runs any more.
Quit ==
  /\ ~bz.closed
  /\ BtSpend("quits")
  /\ bz' = [bz EXCEPT !.closed = TRUE, !.timers = {}]
  /\ UNCHANGED <<hostVars, file, reader, clients, peers, rfkill, btTale>>

-----------------------------------------------------------------------------
(* The workers: each request is handled on the Mac's main queue. *)

ReadDone(res) == reader' = [pc |-> "done", res |-> res]

ReaderScan ==
  /\ reader.pc = "scan"
  /\ IF Refused \/ Busy
     THEN ReadDone(Unavailable) /\ UNCHANGED service
     ELSE /\ service' = invalidate([service EXCEPT !.scan = TRUE])
          /\ reader' = [reader EXCEPT !.pc = "scanning"]
  /\ UNCHANGED <<host, file, bz, clients, peers, rfkill, btTale, btLeft>>

\* finish answers the scan, with an error if the inquiry had one.
ReaderScanned ==
  /\ reader.pc = "scanning" /\ ~service.scan
  /\ IF host.active /\ host.powered
     THEN reader' = [reader EXCEPT !.pc = "devices"]
     ELSE ReadDone(Unavailable)
  /\ UNCHANGED <<hostVars, file, bz, clients, peers, rfkill, btTale, btLeft>>

ReaderDevices ==
  /\ reader.pc = "devices"
  /\ IF Refused THEN ReadDone(Unavailable)
     ELSE ReadDone([available |-> TRUE, powered |-> host.powered, linked |-> host.linked,
                    paired |-> host.paired])
  /\ UNCHANGED <<hostVars, file, bz, clients, peers, rfkill, btTale, btLeft>>

ReaderFails ==
  /\ reader.pc \in {"scan", "devices"}
  /\ BtSpend("losses")
  /\ ReadDone(Unavailable)
  /\ UNCHANGED <<hostVars, file, bz, clients, peers, rfkill, btTale>>

NoCall == [pc |-> "idle", verb |-> "pair", id |-> 0, agent |-> FALSE, answer |-> FALSE, seen |-> FALSE]
Ends(c, ok) == [NoCall EXCEPT !.pc = "done", !.id = c.id, !.answer = ok]
Step(c, to) == clients' = [clients EXCEPT ![c] = to]

\* Connect, Disconnect or Pair over D-Bus: refused while another is pending.
Method(s, verb) ==
  /\ peers[s] = "there" /\ ~bz.closed /\ bz.shown.available
  /\ clients["bluez"].pc = "idle"
  /\ BtSpend("ops")
  /\ Step("bluez", [NoCall EXCEPT !.pc = "call", !.verb = verb,
                                  !.agent = s \in bz.agents \/ bz.default # {}])
  /\ UNCHANGED <<hostVars, file, guestVars, btTale>>

\* The other client has no agent.
CliStarts(verb) ==
  /\ clients["cli"].pc = "idle"
  /\ BtSpend("cli")
  /\ Step("cli", [NoCall EXCEPT !.pc = "call", !.verb = verb])
  /\ UNCHANGED <<hostVars, file, guestVars, btTale>>

\* The operation is asked for; its reply may be lost though it has begun.
ClientCalls(c) ==
  LET w == clients[c] IN
  /\ w.pc = "call"
  /\ \E heard \in BOOLEAN, started \in BOOLEAN :
       /\ IF heard THEN UNCHANGED btLeft ELSE BtSpend("losses")
       /\ IF Accepts(w.verb)
          THEN LET s == NewOperation(w.verb, started)
               IN /\ service' = s
                  /\ btTale' = [btTale EXCEPT !.won =
                       IF s.operation.success THEN @ \cup {s.ids} ELSE @]
                  /\ Step(c, IF heard THEN [w EXCEPT !.pc = "poll", !.id = s.ids] ELSE Ends(w, FALSE))
          ELSE /\ Step(c, Ends(w, FALSE))
               /\ UNCHANGED <<service, btTale>>
  /\ UNCHANGED <<host, file, guestVars>>

\* Another operation has taken the place of the one asked about.
Superseded(c) == service.operation.id # clients[c].id

\* One turn of device_operation's loop, and its deadline.
ClientPolls(c) ==
  LET w == clients[c]
      o == service.operation
  IN /\ w.pc = "poll"
     /\ \/ (Refused \/ Superseded(c)) /\ Step(c, Ends(w, FALSE))
        \/ /\ ~Refused /\ ~Superseded(c)
           /\ \/ o.ask = "confirm" /\ Step(c, [w EXCEPT !.pc = "ask"])
              \/ /\ o.ask = "passkey" /\ ~w.seen
                 /\ \/ (c = "cli" \/ w.agent) /\ Step(c, [w EXCEPT !.seen = TRUE])
                    \/ c = "bluez" /\ Step(c, Ends(w, FALSE))
              \/ o.state = "complete" /\ Step(c, Ends(w, o.success))
     /\ UNCHANGED <<hostVars, file, guestVars, btTale, btLeft>>

ClientGivesUp(c) ==
  /\ clients[c].pc = "poll"
  /\ Step(c, Ends(clients[c], FALSE))
  /\ UNCHANGED <<hostVars, file, guestVars, btTale, btLeft>>

\* The guest's user compares the code, if there is an agent to show it.
AgentAnswers(c) ==
  LET w == clients[c] IN
  /\ w.pc = "ask"
  /\ \E yes \in BOOLEAN :
       /\ yes => w.agent
       /\ Step(c, [w EXCEPT !.pc = "confirm", !.answer = yes])
       /\ btTale' = [btTale EXCEPT !.approved = IF yes THEN @ \cup {w.id} ELSE @]
  /\ UNCHANGED <<hostVars, file, guestVars, btLeft>>

\* bluetooth-confirm.  Without an agent the bridge's exception goes on.
ClientConfirms(c) ==
  LET w == clients[c]
      s == invalidate([service EXCEPT !.operation.ask = "none"])
  IN /\ w.pc = "confirm"
     /\ IF Confirms(w.id)
        THEN /\ service' = s
             /\ btTale' = [btTale EXCEPT !.told = IF w.answer THEN @ \cup {service.pairing} ELSE @]
             /\ Step(c, IF c = "bluez" /\ ~w.agent THEN Ends(w, FALSE)
                        ELSE [w EXCEPT !.pc = "poll", !.answer = FALSE])
        ELSE Step(c, Ends(w, FALSE)) /\ UNCHANGED <<service, btTale>>
     /\ UNCHANGED <<host, file, guestVars, btLeft>>

\* finished, of an operation: a success is followed by a refresh.
CallFinished(c) ==
  LET w == clients[c] IN
  /\ w.pc = "done"
  /\ c = "bluez" => ~bz.closed
  /\ bz' = IF c = "cli" THEN bz
           ELSE schedule_discovery(again([bz EXCEPT !.again = @ \/ w.answer]))
  /\ Step(c, NoCall)
  /\ UNCHANGED <<hostVars, file, reader, peers, rfkill, btTale, btLeft>>

-----------------------------------------------------------------------------
(* The status file and the driver. *)

\* The agent replaces the file, with the Mac's revision and session, when it
\* changes and every few seconds: here, at the latest when the driver has
\* not been fed for a while.
Publish ==
  LET now == [rev |-> service.rev, active |-> host.active, valid |-> TRUE, event |-> TRUE]
  IN /\ ~file.event /\ ~bz.closed
     /\ now # [file EXCEPT !.event = TRUE] \/ ~rfkill.fresh
     /\ file' = now
     /\ UNCHANGED <<hostVars, guestVars, clients, btTale, btLeft>>

GoesStale ==
  /\ file.valid /\ ~file.event
  /\ BtSpend("stales")
  /\ file' = [file EXCEPT !.valid = FALSE]
  /\ UNCHANGED <<hostVars, guestVars, clients, btTale>>

FifteenSeconds ==
  /\ rfkill.fresh
  /\ IF bz.closed THEN UNCHANGED btLeft ELSE BtSpend("lapses")
  /\ rfkill' = [rfkill EXCEPT !.fresh = FALSE]
  /\ UNCHANGED <<hostVars, file, bz, reader, clients, peers, btTale>>

expire_state ==
  /\ rfkill.available /\ ~rfkill.fresh
  /\ rfkill' = [rfkill EXCEPT !.available = FALSE]
  /\ UNCHANGED <<hostVars, file, bz, reader, clients, peers, btTale, btLeft>>

-----------------------------------------------------------------------------
BtInit ==
  /\ btLeft \in BtBudgets
  /\ \E paired \in BOOLEAN :
       host = [active |-> TRUE, powered |-> TRUE, linked |-> FALSE, paired |-> paired]
  /\ service = [operation |-> NoOperation, ids |-> 0, pairing |-> 0, pairOp |-> 0,
                attempts |-> {}, connecting |-> 0, verb |-> "connect", scan |-> FALSE,
                changing |-> FALSE, rev |-> 1]
  /\ file = [rev |-> 1, active |-> TRUE, valid |-> TRUE, event |-> btLeft.boot > 0]
  /\ LET key == IF btLeft.boot > 0 THEN NoKey ELSE [rev |-> 1, active |-> TRUE]
     IN bz = [key |-> key, mode |-> IF key = NoKey THEN "none" ELSE "events",
              shown |-> [Unavailable EXCEPT !.available = TRUE, !.powered = TRUE,
                                            !.paired = host.paired],
              radioKey |-> key, again |-> FALSE,
              timers |-> IF key = NoKey THEN {} ELSE {"reconcile", "expiry"},
              discovery |-> {}, agents |-> {}, default |-> {}, closed |-> FALSE]
  /\ reader = [pc |-> "idle", res |-> Unavailable]
  /\ clients = [c \in {"bluez", "cli"} |-> NoCall]
  /\ peers = [s \in Senders |-> "there"]
  /\ rfkill = Fed(bz)
  /\ btTale = [needs |-> {}, approved |-> {}, told |-> {}, won |-> {}]

Attempts == \E a \in service.attempts : PairingAsks(a) \/ PairingEnds(a)
AttemptEnds == \E a \in service.attempts : PairingEnds(a)
Host == PendingChange \/ ConnectionDone \/ Attempts \/ ScanEnds \/ HostChanges \/ SessionSwitches
Loop == status_changed \/ Expiry \/ Refresh \/ Discovery \/ Retry \/ Reconcile \/ ReadFinished \/ Quit
Bus == \E s \in Senders :
         \/ StartDiscovery(s) \/ StopDiscovery(s) \/ RegisterAgent(s) \/ DefaultAgent(s)
         \/ PeerLeaves(s) \/ owner_changed(s)
         \/ \E v \in {"connect", "disconnect", "pair"} : Method(s, v)
Read == ReaderScan \/ ReaderScanned \/ ReaderDevices
Turn(c) == ClientCalls(c) \/ ClientPolls(c) \/ ClientGivesUp(c) \/ AgentAnswers(c)
           \/ ClientConfirms(c) \/ CallFinished(c)
Driver == FifteenSeconds \/ expire_state

BtNext ==
  \/ Host \/ Loop \/ Bus \/ Read \/ ReaderFails \/ Driver \/ Publish \/ GoesStale
  \/ \E v \in {"connect", "disconnect", "pair"} : CliStarts(v)
  \/ \E c \in {"bluez", "cli"} : Turn(c)

\* Timers fire, workers run, the Mac's framework and the 60 seconds end an
\* attempt.  Nothing makes the Mac or a user change anything, and the minute
\* of a reconciliation is not waited for while there is a revision.
BtFairness ==
  /\ WF_btVars(PendingChange) /\ WF_btVars(ConnectionDone) /\ WF_btVars(AttemptEnds)
  /\ WF_btVars(ScanEnds) /\ WF_btVars(Publish) /\ WF_btVars(status_changed)
  /\ WF_btVars(Expiry) /\ WF_btVars(Refresh) /\ WF_btVars(Retry)
  /\ WF_btVars(bz.key = NoKey /\ Reconcile) /\ WF_btVars(ReadFinished) /\ WF_btVars(Read)
  /\ WF_btVars(expire_state) /\ WF_btVars(FifteenSeconds)
  /\ \A c \in {"bluez", "cli"} : WF_btVars(Turn(c))
  /\ \A s \in Senders : WF_btVars(owner_changed(s))

BtSpec == BtInit /\ [][BtNext]_btVars /\ BtFairness

-----------------------------------------------------------------------------
(* Properties *)

\* A pending operation of the service has exactly one party that will end
\* it, a pairing attempt or a connection, and no party works for another.
OperationOwned ==
  LET owners == {service.pairOp, service.connecting} \ {0}
  IN owners = IF service.operation.state = "pending" THEN {service.operation.id} ELSE {}

\* The service confirms only a pairing whose own code the guest's user has
\* approved, however late the answer and whoever pairs by then.
ConfirmsWhatWasShown == btTale.told \subseteq btTale.approved

\* A client that reports success reports what its own operation did.
OutcomeTrue ==
  \A c \in DOMAIN clients :
    clients[c].pc = "done" /\ clients[c].answer => clients[c].id \in btTale.won

\* An operation has one party that ends it, confirms the code that its user
\* saw, and reports what it did itself.
OperationsApart == OperationOwned /\ ConfirmsWhatWasShown /\ OutcomeTrue

\* Every operation ends, on the Mac and in the client that asked for it.
OperationEnds ==
  /\ []<>(service.operation.state # "pending")
  /\ \A c \in {"bluez", "cli"} : []<>(clients[c].pc \in {"idle", "done"})

\* Without the minute's reconciliation, once the Mac has announced its last
\* change, the guest comes to show its radio and device as they are, and so
\* does rfkill.
BluetoothSettles ==
  []<>(\/ bz.closed \/ service.changing
       \/ ~host.active /\ ~bz.shown.available /\ ~rfkill.available
       \/ /\ host.active /\ rfkill.available /\ rfkill.powered = host.powered
          /\ bz.shown = [available |-> TRUE, powered |-> host.powered,
                         linked |-> host.linked, paired |-> host.paired])

\* A bridge that ended leaves no radio behind: the driver expires it.
RadioExpires == []<>(bz.closed => ~rfkill.available)

\* The guest shows the Mac's Bluetooth as it is, or none.
BluetoothFollows == BluetoothSettles /\ RadioExpires
=============================================================================
