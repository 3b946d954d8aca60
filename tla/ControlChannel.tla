--------------------------- MODULE ControlChannel ---------------------------
(***************************************************************************)
(* The private control channel: the guest's root broker                    *)
(* (src/guest/libexec/ashacky-control), the host's protocol engine         *)
(* (src/host/session/ControlChannel.swift) and the SPICE port between them *)
(* as src/host/frontend/main.m drives it.                                  *)
(*                                                                         *)
(* A local client connects to the broker and makes one call.  The broker   *)
(* numbers calls from 1 in every incarnation, so the same identifier names *)
(* different calls over time; the host keeps workers running across        *)
(* reconnects.  Sessions and the host's generations keep them apart.       *)
(*                                                                         *)
(* Frames are whole: fragments are reassembled at both ends and a garbled  *)
(* one is treated as the invalid frame it becomes.  Both ends hold the     *)
(* same token.  A UUID is drawn anew each time and never drawn again:      *)
(* UUIDs are numbered in the order in which they are drawn.  The host's    *)
(* session UUID is drawn once per generation, so the generation's number   *)
(* stands for it.                                                          *)
(***************************************************************************)
EXTENDS Naturals, Sequences, FiniteSets

CONSTANTS
  Client,       \* local connections, one call each
  MaxClients,   \* connections the broker holds (32)
  MaxWorkers,   \* host workers, those of earlier generations included (16)
  MaxQueue,     \* frames either end queues (256 KiB)
  MaxFaults     \* bound: crashes, stalls and SPICE reconnects

None == 0
Nobody == "nobody"
Refused == "refused"

ASSUME ControlAssumption ==
  /\ IsFiniteSet(Client) /\ Nobody \notin Client /\ Refused \notin Client
  /\ MaxClients \in Nat /\ MaxWorkers \in Nat
  /\ MaxQueue \in Nat \ {0} /\ MaxFaults \in Nat

VARIABLES
  broker,       \* the broker process
  client,       \* its local connections
  pending,      \* call identifier -> the client that waits
  toHost,       \* guest -> host: frames and the port's open and close events
  toGuest,      \* host -> guest: frames
  host,         \* the protocol engine
  wire,         \* the write in progress on the host's port (at most one)
  completions,  \* completion callbacks queued on the host's main queue
  workers,      \* host service workers still running
  served,       \* history: what became of each call on the host
  faults        \* faults so far

guestVars == <<broker, client, pending>>
hostVars == <<host, wire, completions, workers, served>>
vars == <<broker, client, pending, toHost, toGuest, host, wire, completions,
          workers, served, faults>>

Fresh(n) == n + 1
Ids == 1..Cardinality(Client)
Live == {c \in Client : client[c].stage \in {"open", "waiting", "answering"}}

Opened == [type |-> "opened"]
Closing == [type |-> "closed"]
Hello(nonce) == [type |-> "hello", nonce |-> nonce]
Request(session, id, c) ==
  [type |-> "request", session |-> session, id |-> id, payload |-> c]
Welcome(nonce, session) ==
  [type |-> "welcome", nonce |-> nonce, session |-> session]
Response(session, id, payload) ==
  [type |-> "response", session |-> session, id |-> id, payload |-> payload]
Reset == [type |-> "reset"]

Fault ==
  /\ faults < MaxFaults
  /\ faults' = faults + 1

-----------------------------------------------------------------------------
(* The broker *)

\* systemd starts the broker: it opens the port and queues its hello.
\* RestartSec=3 lets the host finish with what the previous incarnation
\* left in flight; a host slower than that is a fault.
Start ==
  /\ ~broker.running
  /\ IF toHost = <<>> /\ wire = {} /\ completions = {}
     THEN UNCHANGED faults
     ELSE Fault
  /\ broker' = [running |-> TRUE, nonce |-> Fresh(broker.nonce),
                session |-> None, counter |-> 0,
                outgoing |-> <<Hello(Fresh(broker.nonce))>>]
  /\ toHost' = Append(toHost, Opened)
  /\ UNCHANGED <<client, pending, toGuest, hostVars>>

\* The process ends: every connection is closed and the port with it.  The
\* guest discards what its driver had buffered, QEMU holds the rest for the
\* next process that opens the port.
Die(received) ==
  /\ broker' = [broker EXCEPT !.running = FALSE, !.session = None,
                              !.counter = 0, !.outgoing = <<>>]
  /\ client' = [c \in Client |->
                  IF c \in Live THEN [client[c] EXCEPT !.stage = "closed"]
                                ELSE client[c]]
  /\ pending' = [i \in Ids |-> Nobody]
  /\ toHost' = Append(toHost, Closing)
  /\ \E k \in 0..Len(received) :
       toGuest' = SubSeq(received, k + 1, Len(received))

\* The broker crashes or is restarted, its write stalls for 10 seconds or
\* the port reads end of file.
Crash ==
  /\ broker.running
  /\ Fault
  /\ Die(toGuest)
  /\ UNCHANGED hostVars

\* As HelloExpires, but the deadline is only tested when the port has traffic.
HelloExpires_busy ==
  /\ broker.running /\ broker.session = None
  /\ toHost # <<>> \/ toGuest # <<>> \/ wire # {} \/ broker.outgoing # <<>>
  /\ Fault
  /\ Die(toGuest)
  /\ UNCHANGED hostVars

\* No welcome within 10 seconds: a slow host, or a hello or welcome lost.
HelloExpires ==
  /\ broker.running /\ broker.session = None
  /\ IF toHost = <<>> /\ toGuest = <<>> /\ wire = {} /\ broker.outgoing = <<>>
     THEN UNCHANGED faults
     ELSE Fault
  /\ Die(toGuest)
  /\ UNCHANGED hostVars

accept(c) ==
  /\ broker.running /\ client[c].stage = "idle"
  /\ client' = [client EXCEPT ![c].stage =
                  IF Cardinality(Live) >= MaxClients THEN "closed" ELSE "open"]
  /\ UNCHANGED <<broker, pending, toHost, toGuest, hostVars, faults>>

\* A client's request arrives: answered at once without a session, dropped
\* with the connection when the output queue is full.
read_client(c) ==
  /\ client[c].stage = "open"
  /\ IF broker.session = None
     THEN /\ client' = [client EXCEPT ![c].stage = "answering",
                                      ![c].answer = Refused]
          /\ UNCHANGED <<broker, pending>>
     ELSE LET id == broker.counter + 1
              full == Len(broker.outgoing) >= MaxQueue
              frame == Request(broker.session, id, c) IN
          /\ broker' = [broker EXCEPT
               !.counter = id,
               !.outgoing = IF full THEN @ ELSE Append(@, frame)]
          /\ client' = [client EXCEPT
               ![c].stage = IF full THEN "closed" ELSE "waiting",
               ![c].id = id]
          /\ pending' = IF full THEN pending ELSE [pending EXCEPT ![id] = c]
  /\ UNCHANGED <<toHost, toGuest, hostVars, faults>>

\* The client hangs up, sends a second request or passes its deadline.
close_client(c) ==
  /\ c \in Live
  /\ client' = [client EXCEPT ![c].stage = "closed"]
  /\ pending' = [i \in Ids |-> IF i = client[c].id THEN Nobody ELSE pending[i]]
  /\ UNCHANGED <<broker, toHost, toGuest, hostVars, faults>>

\* The answer has been written to the client; its connection is closed.
write_client(c) ==
  /\ client[c].stage = "answering"
  /\ client' = [client EXCEPT ![c].stage = "answered"]
  /\ pending' = [i \in Ids |-> IF i = client[c].id THEN Nobody ELSE pending[i]]
  /\ UNCHANGED <<broker, toHost, toGuest, hostVars, faults>>

\* A frame arrives on the port.
receive ==
  /\ broker.running /\ toGuest # <<>>
  /\ LET value == Head(toGuest)
         rest == Tail(toGuest) IN
     \/ /\ broker.session = None
        /\ value.type = "welcome" /\ value.nonce = broker.nonce
        /\ broker' = [broker EXCEPT !.session = value.session]
        /\ toGuest' = rest
        /\ UNCHANGED <<client, pending, toHost>>
     \/ /\ broker.session = None
        /\ ~(value.type = "welcome" /\ value.nonce = broker.nonce)
        /\ Die(rest)
     \/ /\ broker.session # None
        /\ value.type = "response" /\ value.session = broker.session
        /\ LET c == pending[value.id] IN
           IF c = Nobody
           THEN UNCHANGED <<client, pending>>
           ELSE /\ pending' = [pending EXCEPT ![value.id] = Nobody]
                /\ client' = [client EXCEPT ![c].stage = "answering",
                                            ![c].answer = value.payload]
        /\ toGuest' = rest
        /\ UNCHANGED <<broker, toHost>>
     \/ /\ broker.session # None
        /\ ~(value.type = "response" /\ value.session = broker.session)
        /\ Die(rest)
  /\ UNCHANGED <<hostVars, faults>>

\* Queued output goes to the port.  In one turn of the loop the port is read
\* before it is written, so nothing readable is left when a write happens.
write ==
  /\ broker.running /\ broker.outgoing # <<>>
  /\ toGuest = <<>>
  /\ toHost' = Append(toHost, Head(broker.outgoing))
  /\ broker' = [broker EXCEPT !.outgoing = Tail(@)]
  /\ UNCHANGED <<client, pending, toGuest, hostVars, faults>>

-----------------------------------------------------------------------------
(* The host's engine.  Every handler runs on the main queue. *)

\* As Closed, but the budget of workers is reset as well.
ClosedForgetsWorkers(h) ==
  [h EXCEPT !.generation = Fresh(@), !.session = None, !.queue = <<>>,
            !.writing = FALSE, !.active = {}, !.lastRequest = 0,
            !.outstanding = 0]

Closed(h) ==
  [h EXCEPT !.generation = Fresh(@), !.session = None, !.queue = <<>>,
            !.writing = FALSE, !.active = {}, !.lastRequest = 0]

Cancelled == {[generation |-> w.generation, success |-> FALSE] : w \in wire}

\* close(), then main.m cancels the port's writes and sends a reset, which
\* makes the guest drop its calls and start over.
fail(h) ==
  /\ host' = Closed(h)
  /\ wire' = {}
  /\ completions' = completions \cup Cancelled
  /\ toGuest' = IF h.open THEN Append(toGuest, Reset) ELSE toGuest

\* The write of the first queued frame, unless one is in progress.
drain(h) ==
  LET go == ~h.writing /\ h.queue # <<>> IN
  /\ host' = [h EXCEPT !.writing = @ \/ go]
  /\ wire' = IF go
             THEN {[generation |-> h.generation, frame |-> Head(h.queue)]}
             ELSE wire

enqueue(h, frame) ==
  IF Len(h.queue) >= MaxQueue
  THEN fail(h)
  ELSE /\ drain([h EXCEPT !.queue = Append(@, frame)])
       /\ UNCHANGED <<completions, toGuest>>

reply(h, id, payload) == enqueue(h, Response(h.session, id, payload))

Numbered(value) == [host EXCEPT !.lastRequest = value.id]

\* The request is handed to a worker.
StartWorker(value) ==
  /\ host' = [Numbered(value) EXCEPT !.active = @ \cup {value.id},
                                     !.outstanding = @ + 1]
  /\ workers' = workers \cup {[generation |-> host.generation,
                               id |-> value.id, call |-> value.payload]}
  /\ served' = [served EXCEPT ![value.payload] = "running"]
  /\ UNCHANGED <<wire, completions, toGuest>>

\* The request is answered without one.
RefuseRequest(value) ==
  /\ reply(Numbered(value), value.id, Refused)
  /\ UNCHANGED <<workers, served>>

\* As handle_request, but a busy channel drops the request without a reply.
handle_request_drops(value) ==
  \/ /\ value.id > host.lastRequest
     /\ host.outstanding < MaxWorkers
     /\ StartWorker(value)
  \/ /\ value.id > host.lastRequest
     /\ host.outstanding >= MaxWorkers
     /\ host' = Numbered(value)
     /\ UNCHANGED <<wire, completions, workers, served, toGuest>>
  \/ value.id <= host.lastRequest /\ fail(host) /\ UNCHANGED <<workers, served>>

\* A request of the session: refused when it asks for "vm-stopped", which only
\* the supervisor may, or when too many workers run; otherwise started.  A
\* request is handled once, so what it asks for is decided here.
handle_request(value) ==
  \/ /\ value.id > host.lastRequest
     /\ RefuseRequest(value)
  \/ /\ value.id > host.lastRequest
     /\ host.outstanding < MaxWorkers
     /\ StartWorker(value)
  \/ /\ value.id <= host.lastRequest
     /\ fail(host)
     /\ UNCHANGED <<workers, served>>

\* The port's open event: the engine starts over.
controlOpened ==
  /\ host' = [Closed(host) EXCEPT !.open = TRUE]
  /\ UNCHANGED <<wire, completions, workers, served, toGuest>>

\* The port's close event: writes are cancelled first.
controlClosed ==
  /\ host' = [Closed(host) EXCEPT !.open = FALSE]
  /\ wire' = {}
  /\ completions' = completions \cup Cancelled
  /\ UNCHANGED <<workers, served, toGuest>>

handle(value) ==
  \/ /\ value.type = "opened"
     /\ controlOpened
  \/ /\ value.type = "closed"
     /\ controlClosed
  \/ /\ value.type = "hello" /\ host.session = None
     /\ enqueue([host EXCEPT !.session = host.generation],
                Welcome(value.nonce, host.generation))
     /\ UNCHANGED <<workers, served>>
  \/ /\ value.type = "request"
     /\ host.session # None /\ value.session = host.session
     /\ handle_request(value)
  \/ /\ \/ value.type = "hello" /\ host.session # None
        \/ value.type = "request"
           /\ (host.session = None \/ value.session # host.session)
     /\ fail(host)
     /\ UNCHANGED <<workers, served>>

HostReceive ==
  /\ toHost # <<>>
  /\ handle(Head(toHost))
  /\ toHost' = Tail(toHost)
  /\ UNCHANGED <<guestVars, faults>>

\* The port has taken the frame; its completion is queued.
Transmit ==
  \E w \in wire :
    /\ toGuest' = Append(toGuest, w.frame)
    /\ wire' = wire \ {w}
    /\ completions' = completions \cup
         {[generation |-> w.generation, success |-> TRUE]}
    /\ UNCHANGED <<guestVars, toHost, host, workers, served, faults>>

\* The completion runs: ignored after a close, otherwise the next write.
Completed(d) ==
  /\ d \in completions
  /\ IF d.generation # host.generation
     THEN /\ completions' = completions \ {d}
          /\ UNCHANGED <<host, wire>>
     ELSE /\ completions' = completions \ {d}
          /\ drain([host EXCEPT !.queue = Tail(@), !.writing = FALSE])
  /\ UNCHANGED <<guestVars, toHost, toGuest, workers, served, faults>>

\* A write that takes 10 seconds or reports an error fails the channel.
WriteFails ==
  /\ host.writing /\ wire # {}
  /\ Fault
  /\ fail(host)
  /\ UNCHANGED <<guestVars, toHost, workers, served>>

\* As Finished, but a result of an earlier generation is sent too.
FinishedAnyGeneration(w) ==
  LET h == [host EXCEPT !.outstanding = @ - 1] IN
  /\ w \in workers
  /\ workers' = workers \ {w}
  /\ served' = [served EXCEPT ![w.call] = "done"]
  /\ IF w.id \in host.active
     THEN reply([h EXCEPT !.active = @ \ {w.id}], w.id, w.call)
     ELSE host' = h /\ UNCHANGED <<wire, completions, toGuest>>
  /\ UNCHANGED <<guestVars, toHost, faults>>

\* A worker's result arrives.  It frees its slot whatever happened since; it
\* is sent only if the channel has not been closed in between.
Finished(w) ==
  LET h == [host EXCEPT !.outstanding = @ - 1] IN
  /\ w \in workers
  /\ workers' = workers \ {w}
  /\ served' = [served EXCEPT ![w.call] = "done"]
  /\ IF w.generation = host.generation /\ w.id \in host.active
     THEN reply([h EXCEPT !.active = @ \ {w.id}], w.id, w.call)
     ELSE host' = h /\ UNCHANGED <<wire, completions, toGuest>>
  /\ UNCHANGED <<guestVars, toHost, faults>>

\* The SPICE connection is lost and comes back.  The host sees its port close
\* and, if the guest has it open, open again; the guest sees nothing.  What
\* the guest had written is lost, or delivered after the reconnect.
SpiceReconnect ==
  /\ host.open
  /\ Fault
  /\ controlClosed
  /\ IF broker.running
     THEN \E kept \in {<<>>, toHost} :
            /\ \A i \in DOMAIN kept : kept[i].type \in {"hello", "request"}
            /\ toHost' = <<Opened>> \o kept
     ELSE toHost' = <<>>
  /\ UNCHANGED guestVars

-----------------------------------------------------------------------------
Init ==
  /\ broker = [running |-> FALSE, nonce |-> 0, session |-> None,
               counter |-> 0, outgoing |-> <<>>]
  /\ client = [c \in Client |->
                 [stage |-> "idle", id |-> 0, answer |-> Nobody]]
  /\ pending = [i \in Ids |-> Nobody]
  /\ toHost = <<>> /\ toGuest = <<>>
  /\ host = [open |-> FALSE, session |-> None, generation |-> 1,
             queue |-> <<>>, writing |-> FALSE, active |-> {},
             outstanding |-> 0, lastRequest |-> 0]
  /\ wire = {} /\ completions = {} /\ workers = {}
  /\ served = [c \in Client |-> "no"]
  /\ faults = 0

Next ==
  \/ Start \/ Crash \/ HelloExpires \/ receive \/ write
  \/ \E c \in Client :
       accept(c) \/ read_client(c) \/ close_client(c) \/ write_client(c)
  \/ HostReceive \/ Transmit \/ WriteFails \/ SpiceReconnect
  \/ \E d \in completions : Completed(d)
  \/ \E w \in workers : Finished(w)

Spec == Init /\ [][Next]_vars

\* Both event loops keep turning, the port moves what is written to it,
\* systemd restarts the broker (Restart=always) and its deadlines fire.
Fairness ==
  /\ WF_vars(Start) /\ WF_vars(HelloExpires)
  /\ WF_vars(receive) /\ WF_vars(write)
  /\ WF_vars(HostReceive) /\ WF_vars(Transmit)
  /\ WF_vars(\E d \in completions : Completed(d))

-----------------------------------------------------------------------------
(* Properties *)

\* Types of the state of both ends.
TypeOK ==
  /\ broker \in [running : BOOLEAN, nonce : Nat, session : Nat,
                 counter : 0..Cardinality(Client),
                 outgoing : Seq([type : {"hello"}, nonce : Nat] \cup
                   [type : {"request"}, session : Nat, id : Ids,
                    payload : Client])]
  /\ client \in [Client ->
       [stage : {"idle", "open", "waiting", "answering", "answered", "closed"},
        id : 0..Cardinality(Client), answer : Client \cup {Nobody, Refused}]]
  /\ pending \in [Ids -> Client \cup {Nobody}]
  /\ host.outstanding \in 0..MaxWorkers /\ host.active \subseteq Ids
  /\ host.lastRequest \in 0..Cardinality(Client)
  /\ host.session \in {None, host.generation}
  /\ host.open \in BOOLEAN /\ host.writing \in BOOLEAN
  /\ served \in [Client -> {"no", "running", "done"}]
  /\ Len(host.queue) <= MaxQueue /\ Len(broker.outgoing) <= MaxQueue
  /\ faults \in 0..MaxFaults

\* The budget of host workers is exact across reconnects: `outstanding`
\* counts every worker still running, those whose channel was closed under
\* them included, and never exceeds the limit.
WorkersCounted ==
  /\ host.outstanding = Cardinality(workers)
  /\ Cardinality(workers) <= MaxWorkers

\* One write at a time, and it is the write of the first queued frame: when
\* the completion that belongs to this generation removes a frame, it is the
\* one that was written, and the queue it removes from is not empty.
WritesMatchQueue ==
  LET mine == {d \in completions : d.generation = host.generation} IN
  /\ host.writing <=> host.queue # <<>>
  /\ Cardinality(wire) + Cardinality(mine) = IF host.writing THEN 1 ELSE 0
  /\ \A w \in wire : w.frame = Head(host.queue)

\* The channel keeps its limits on clients, queued frames and workers, and its
\* counts of workers and writes are exact, across every reconnect.
LimitsKept == TypeOK /\ WorkersCounted /\ WritesMatchQueue

\* While both ends are in the same session, a call a client waits for is not
\* forgotten: its request is on the way, a worker has it, or its response is
\* on the way.
NoCallForgotten ==
  \A i \in Ids :
    (pending[i] # Nobody /\ broker.session = host.session) =>
      \/ \E q \in {broker.outgoing, toHost} : \E k \in DOMAIN q :
           q[k] = Request(host.session, i, pending[i])
      \/ i \in host.active
      \/ \E q \in {host.queue, toGuest} : \E k \in DOMAIN q :
           q[k].type = "response" /\ q[k].session = host.session
                                  /\ q[k].id = i

\* What a client knows of its call.
CallOf(c) ==
  LET answer == client[c].answer
      stage == client[c].stage IN
  IF answer = c THEN "answered"
  ELSE IF answer = Refused THEN "refused"
  ELSE IF answer # Nobody THEN "crossed"
  ELSE IF stage = "idle" THEN "idle"
  ELSE IF stage = "closed" THEN "failed"
  ELSE "waiting"

Calls == INSTANCE RemoteCalls WITH call <- [c \in Client |-> CallOf(c)]

\* The channel implements RemoteCalls: a call is executed at most once, an
\* answer is the outcome of the caller's own execution even though identifiers
\* repeat and workers outlive sessions, and a refused call is never executed.
ImplementsCalls == Calls!Spec
=============================================================================
