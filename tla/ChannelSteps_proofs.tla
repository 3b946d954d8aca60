------------------------ MODULE ChannelSteps_proofs -------------------------
(***************************************************************************)
(* The inductive invariant of the control channel, the kinds of steps it   *)
(* takes, and the types and writes that every kind keeps.                  *)
(***************************************************************************)
EXTENDS ControlChannel, Integers, TLAPS

-----------------------------------------------------------------------------
(* The inductive invariant *)

Elems(q) == {q[k] : k \in DOMAIN q}

HelloFrame == [type : {"hello"}, nonce : Nat]
RequestFrame ==
  [type : {"request"}, session : Nat, id : Ids, payload : Client]
EventFrame == [type : {"opened", "closed"}]
WelcomeFrame == [type : {"welcome"}, nonce : Nat, session : Nat]
ResponseFrame ==
  [type : {"response"}, session : Nat, id : Ids, payload : Client \cup {Refused}]
ResetFrame == [type : {"reset"}]
GuestFrame == HelloFrame \cup RequestFrame
PortInput == GuestFrame \cup EventFrame
HostFrame == WelcomeFrame \cup ResponseFrame
PortOutput == HostFrame \cup ResetFrame

HostState ==
  [open : BOOLEAN, session : Nat, generation : Nat, queue : Seq(HostFrame),
   writing : BOOLEAN, active : SUBSET Ids, outstanding : Int, lastRequest : Nat]

BrokerState ==
  [running : BOOLEAN, nonce : Nat, session : Nat, counter : Nat,
   outgoing : Seq(GuestFrame)]

ClientState ==
  [stage : {"idle", "open", "waiting", "answering", "answered", "closed"},
   id : Nat, answer : Client \cup {Nobody, Refused}]

\* Types of all the state.
Typed ==
  /\ broker \in BrokerState
  /\ client \in [Client -> ClientState]
  /\ pending \in [Ids -> Client \cup {Nobody}]
  /\ toHost \in Seq(PortInput) /\ toGuest \in Seq(PortOutput)
  /\ host \in HostState
  /\ wire \in SUBSET [generation : Nat, frame : HostFrame]
  /\ completions \in SUBSET [generation : Nat, success : BOOLEAN]
  /\ workers \in SUBSET [generation : Nat, id : Ids, call : Client]
  /\ served \in [Client -> {"no", "running", "done"}]
  /\ faults \in 0..MaxFaults

\* The completions of this generation's writes.
Mine == {d \in completions : d.generation = host.generation}

\* Nothing is written, or the first queued frame is: it is on the wire, or it
\* has been taken and its completion waits.
Writes ==
  /\ Len(host.queue) <= MaxQueue
  /\ ~host.writing => host.queue = <<>> /\ wire = {} /\ Mine = {}
  /\ host.writing =>
       /\ host.queue # <<>>
       /\ \/ /\ wire = {[generation |-> host.generation,
                         frame |-> Head(host.queue)]}
             /\ Mine = {}
          \/ /\ wire = {}
             /\ Mine = {[generation |-> host.generation, success |-> TRUE]}

\* What is queued belongs to the session; a welcome is written first.
Queued ==
  /\ host.generation > 0
  /\ host.session \in {None, host.generation}
  /\ host.session = None => host.queue = <<>>
  /\ \A f \in Elems(host.queue) : f.session = host.generation
  /\ \A k \in DOMAIN host.queue : k > 1 => host.queue[k].type = "response"

\* Nothing has the number of a generation that has not been drawn.
Ages ==
  /\ broker.session <= host.generation
  /\ \A f \in Elems(broker.outgoing) \cup Elems(toHost) :
       f.type = "request" => f.session <= host.generation
  /\ \A f \in Elems(toGuest) :
       f.type \in {"welcome", "response"} => f.session <= host.generation
  /\ \A w \in workers : w.generation <= host.generation
  /\ \A d \in completions : d.generation <= host.generation

\* No broker, request, worker or response belongs to session s.
Unused(s) ==
  /\ broker.session # s
  /\ \A f \in Elems(broker.outgoing) \cup Elems(toHost) :
       f.type = "request" => f.session # s
  /\ \A f \in Elems(toGuest) \cup Elems(host.queue) :
       f.type = "response" => f.session # s
  /\ \A w \in workers : w.generation # s

NotWelcomed(s) == \A f \in Elems(toGuest) : f.type = "welcome" => f.session # s

\* Every session is offered to one broker, and nothing belongs to it before.
Offers ==
  /\ host.session = None => Unused(host.generation) /\ NotWelcomed(host.generation)
  /\ (wire # {} /\ Head(host.queue).type = "welcome") =>
        Unused(host.generation) /\ NotWelcomed(host.generation)
  /\ \A f \in Elems(toGuest) : f.type = "welcome" => f.session > 0 /\ Unused(f.session)
  /\ \A j, k \in DOMAIN toGuest :
       (/\ toGuest[j].type = "welcome" /\ toGuest[k].type = "welcome"
        /\ toGuest[j].session = toGuest[k].session) => j = k

\* The port's open event finds the engine closed.
Events ==
  /\ \A k \in DOMAIN toHost : toHost[k].type = "opened" =>
       IF k = 1 THEN host.session = None ELSE toHost[k - 1].type = "closed"
  /\ ~broker.running =>
       IF toHost = <<>> THEN host.session = None
       ELSE toHost[Len(toHost)].type = "closed"

\* The broker's own counts.
Spent == {c \in Client : client[c].stage \notin {"idle", "open"}}

Broker ==
  /\ ~broker.running => broker.session = None /\ broker.outgoing = <<>>
  /\ broker.session = None => broker.counter = 0
  /\ broker.counter <= Cardinality(Spent)
  /\ Len(broker.outgoing) <= MaxQueue
  /\ \A f \in Elems(broker.outgoing) :
       f.type = "request" => broker.session # None /\ f.session = broker.session

Budget ==
  /\ IsFiniteSet(workers)
  /\ host.outstanding = Cardinality(workers)
  /\ Cardinality(workers) <= MaxWorkers
  /\ host.lastRequest <= Cardinality(Client)

\* The request of c is on the way.
Asked(c) ==
  \E f \in Elems(broker.outgoing) \cup Elems(toHost) :
    f.type = "request" /\ f.payload = c

\* No two requests of q are of the same client.
Once(q) ==
  \A j, k \in DOMAIN q :
    (/\ q[j].type = "request" /\ q[k].type = "request"
     /\ q[j].payload = q[k].payload) => j = k

\* A client asks once.
AskedOnce ==
  /\ Once(broker.outgoing) /\ Once(toHost)
  /\ \A f \in Elems(broker.outgoing), g \in Elems(toHost) :
       (f.type = "request" /\ g.type = "request") => f.payload # g.payload

\* What a client knows.
Clients ==
  /\ \A c \in Client :
       /\ client[c].id <= Cardinality(Client)
       /\ client[c].answer \in {Nobody, Refused, c}
       /\ client[c].stage \in {"idle", "open", "waiting"} =>
            client[c].answer = Nobody
       /\ client[c].stage \in {"answering", "answered"} =>
            client[c].answer # Nobody
       /\ client[c].stage \in {"idle", "open"} => served[c] = "no" /\ ~Asked(c)
       /\ Asked(c) => served[c] = "no" /\ client[c].answer = Nobody
  /\ \A i \in Ids : pending[i] # Nobody =>
       /\ client[pending[i]].stage = "waiting"
       /\ client[pending[i]].id = i
       /\ i <= broker.counter

\* Identifier i of session s names call c for the broker, if it is still there.
Names(s, i, c) ==
  (broker.session # None /\ s = broker.session) =>
     i <= broker.counter /\ pending[i] \in {Nobody, c}

\* If f is a response of the broker's session, the call it is for is over.
Settled(f) ==
  (/\ broker.session # None
   /\ f.type = "response" /\ f.session = broker.session) =>
     /\ f.id <= broker.counter
     /\ pending[f.id] # Nobody =>
          /\ ~Asked(pending[f.id])
          /\ \/ f.payload = pending[f.id] /\ served[pending[f.id]] = "done"
             \/ f.payload = Refused /\ served[pending[f.id]] = "no"

\* Within the broker's session an identifier names one call, from the request
\* to the response.
Matched ==
  /\ \A f \in Elems(broker.outgoing) \cup Elems(toHost) :
       f.type = "request" => Names(f.session, f.id, f.payload)
  /\ \A w \in workers : Names(w.generation, w.id, w.call)
  /\ \A f \in Elems(toGuest) \cup Elems(host.queue) : Settled(f)

Working ==
  /\ \A w \in workers : served[w.call] = "running"
  /\ \A v, w \in workers : v.call = w.call => v = w

\* The response to call i is on the way to the guest.
Answering(i, q) ==
  \E f \in Elems(q) :
    f.type = "response" /\ f.session = broker.session /\ f.id = i

\* A call that is waited for in the host's session is somewhere, and a
\* response leaves the host's queue only after it was transmitted.
Remembered ==
  \A i \in Ids : (pending[i] # Nobody /\ broker.session = host.session) =>
    /\ \/ Request(broker.session, i, pending[i]) \in
            Elems(broker.outgoing) \cup Elems(toHost)
       \/ i \in host.active
       \/ Answering(i, host.queue) \/ Answering(i, toGuest)
    /\ (/\ host.writing /\ wire = {}
        /\ Head(host.queue).type = "response" /\ Head(host.queue).id = i) =>
         Answering(i, toGuest)

\* A client that has not called leaves room for its identifier.
HasRoom ==
  /\ Cardinality(Client) \in Nat
  /\ \A c \in Client : client[c].stage \in {"idle", "open"} =>
       broker.counter + 1 <= Cardinality(Client) /\ broker.counter + 1 \in Ids

Inv ==
  /\ Typed /\ Writes /\ Queued /\ Ages /\ Offers /\ Events /\ Broker /\ Budget
  /\ AskedOnce /\ Clients /\ Matched /\ Working /\ Remembered

-----------------------------------------------------------------------------
(* Sequences *)

\* What Append adds to a sequence.
LEMMA ElemsAppend ==
  ASSUME NEW S, NEW q \in Seq(S), NEW e
  PROVE  /\ Elems(Append(q, e)) = Elems(q) \cup {e}
         /\ Len(Append(q, e)) = Len(q) + 1
         /\ DOMAIN Append(q, e) = 1..(Len(q) + 1)
         /\ \A k \in DOMAIN q : Append(q, e)[k] = q[k]
         /\ Append(q, e)[Len(q) + 1] = e
         /\ Append(q, e) # <<>>
<1>1. /\ Len(Append(q, e)) = Len(q) + 1
      /\ DOMAIN Append(q, e) = 1..(Len(q) + 1)
      /\ DOMAIN q = 1..Len(q) /\ Len(q) \in Nat
      /\ \A k \in DOMAIN q : Append(q, e)[k] = q[k]
      /\ Append(q, e)[Len(q) + 1] = e
      /\ Append(q, e) # <<>>
  OBVIOUS
<1>2. Elems(Append(q, e)) = Elems(q) \cup {e}
  BY <1>1 DEF Elems
<1> QED
  BY <1>1, <1>2, Zenon

\* What a sequence holds is its head and what its tail holds.
LEMMA ElemsTail ==
  ASSUME NEW S, NEW q \in Seq(S), q # <<>>
  PROVE  /\ Head(q) \in S /\ Tail(q) \in Seq(S)
         /\ Elems(q) = {Head(q)} \cup Elems(Tail(q))
         /\ Len(q) \in Nat \ {0} /\ Len(Tail(q)) = Len(q) - 1
         /\ Head(q) = q[1] /\ 1 \in DOMAIN q
         /\ DOMAIN Tail(q) = 1..(Len(q) - 1)
         /\ \A k \in DOMAIN Tail(q) : Tail(q)[k] = q[k + 1] /\ k + 1 \in DOMAIN q
<1>1. /\ Head(q) \in S /\ Tail(q) \in Seq(S)
      /\ Len(q) \in Nat \ {0} /\ Len(Tail(q)) = Len(q) - 1
      /\ Head(q) = q[1] /\ DOMAIN q = 1..Len(q)
      /\ DOMAIN Tail(q) = 1..(Len(q) - 1)
      /\ \A k \in 1..(Len(q) - 1) : Tail(q)[k] = q[k + 1]
  OBVIOUS
<1>2. \A k \in DOMAIN q : k = 1 \/ (k - 1 \in DOMAIN Tail(q) /\ Tail(q)[k - 1] = q[k])
  BY <1>1
<1>3. 1 \in DOMAIN q /\ \A k \in DOMAIN Tail(q) : Tail(q)[k] = q[k + 1] /\ k + 1 \in DOMAIN q
  BY <1>1
<1>4. \A k \in DOMAIN q : q[k] \in {Head(q)} \cup Elems(Tail(q))
  BY <1>1, <1>2, Zenon DEF Elems
<1>5. {Head(q)} \cup Elems(Tail(q)) \subseteq Elems(q)
  BY <1>1, <1>3, Zenon DEF Elems
<1>6. Elems(q) \subseteq {Head(q)} \cup Elems(Tail(q))
  BY <1>4, Zenon DEF Elems
<1> QED
  BY <1>1, <1>3, <1>5, <1>6, Zenon

\* A suffix of a sequence.
LEMMA ElemsSuffix ==
  ASSUME NEW S, NEW q \in Seq(S), NEW n \in 0..Len(q)
  PROVE  LET r == SubSeq(q, n + 1, Len(q)) IN
         /\ r \in Seq(S)
         /\ Elems(r) \subseteq Elems(q)
         /\ \A k \in DOMAIN r : r[k] = q[k + n] /\ k + n \in DOMAIN q /\ k \in Nat
<1> DEFINE r == SubSeq(q, n + 1, Len(q))
<1>1. /\ Len(q) \in Nat /\ n \in Nat /\ n <= Len(q)
      /\ r \in Seq(S) /\ Len(r) = Len(q) - n /\ DOMAIN r = 1..(Len(q) - n)
      /\ DOMAIN q = 1..Len(q)
      /\ \A k \in 1..(Len(q) - n) : r[k] = q[k + n]
  OBVIOUS
<1> HIDE DEF r
<1>2. \A k \in DOMAIN r : r[k] = q[k + n] /\ k + n \in DOMAIN q /\ k \in Nat
  BY <1>1
<1>3. Elems(r) \subseteq Elems(q)
  BY <1>2, Zenon DEF Elems
<1> QED
  BY <1>1, <1>2, <1>3, Zenon DEF r

\* An element before a sequence.
LEMMA ElemsCons ==
  ASSUME NEW S, NEW q \in Seq(S), NEW e \in S
  PROVE  LET r == <<e>> \o q IN
         /\ r \in Seq(S)
         /\ Elems(r) = {e} \cup Elems(q)
         /\ DOMAIN r = 1..(Len(q) + 1) /\ Len(r) = Len(q) + 1
         /\ r[1] = e /\ r # <<>>
         /\ \A k \in DOMAIN r : k > 1 => r[k] = q[k - 1] /\ k - 1 \in DOMAIN q
<1> DEFINE r == <<e>> \o q
<1>1. <<e>> \in Seq(S) /\ Len(<<e>>) = 1 /\ <<e>>[1] = e
  OBVIOUS
<1>2. /\ r \in Seq(S) /\ Len(r) = Len(q) + 1 /\ DOMAIN r = 1..(Len(q) + 1)
      /\ DOMAIN q = 1..Len(q) /\ Len(q) \in Nat
      /\ r[1] = e /\ r # <<>>
      /\ \A k \in 1..(Len(q) + 1) : k > 1 => r[k] = q[k - 1]
  BY <1>1
<1> HIDE DEF r
<1>3. \A k \in DOMAIN r : k > 1 => r[k] = q[k - 1] /\ k - 1 \in DOMAIN q
  BY <1>2
<1>4. \A k \in DOMAIN q : r[k + 1] = q[k] /\ k + 1 \in DOMAIN r
  BY <1>2
<1>5. Elems(r) \subseteq {e} \cup Elems(q)
  BY <1>2, <1>3 DEF Elems
<1>6. {e} \cup Elems(q) \subseteq Elems(r)
  BY <1>2, <1>4 DEF Elems
<1> QED
  BY <1>2, <1>3, <1>5, <1>6, Zenon DEF r

-----------------------------------------------------------------------------
(* The steps, by what they do *)

\* The engine is closed: its generation ends.
Closes ==
  /\ host'.generation = host.generation + 1 /\ host'.session = None
  /\ host'.queue = <<>> /\ host'.writing = FALSE /\ host'.active = {}
  /\ host'.lastRequest = 0
  /\ wire' = {} /\ completions' = completions \cup Cancelled
  /\ toGuest' \in {toGuest, Append(toGuest, Reset)}

\* Frame f is queued for the guest.
Queues(f) ==
  /\ Len(host.queue) < MaxQueue
  /\ host'.generation = host.generation /\ host'.session = host.generation
  /\ host'.queue = Append(host.queue, f) /\ host'.writing = TRUE
  /\ wire' = IF host.writing THEN wire
             ELSE {[generation |-> host.generation, frame |-> f]}
  /\ UNCHANGED <<completions, toGuest>>

\* Neither the workers nor their count change.
SameWork ==
  /\ host'.outstanding = host.outstanding
  /\ UNCHANGED <<workers, served>>

\* Worker w ends.
Ends(w) ==
  /\ w \in workers /\ workers' = workers \ {w}
  /\ served' = [served EXCEPT ![w.call] = "done"]
  /\ host'.outstanding = host.outstanding - 1

\* The engine takes the next frame or event of the port.
Takes == toHost # <<>> /\ toHost' = Tail(toHost)

\* The next frame is a request of the session.
Expected ==
  /\ Takes /\ Head(toHost) \in RequestFrame
  /\ host.session # None /\ Head(toHost).session = host.session

TakeCloses == Takes /\ Closes /\ SameWork

TakeHello ==
  /\ Takes /\ SameWork /\ host.session = None
  /\ Head(toHost).type = "hello" /\ Head(toHost).nonce \in Nat
  /\ Queues(Welcome(Head(toHost).nonce, host.generation))
  /\ host'.active = host.active /\ host'.lastRequest = host.lastRequest

TakeRefused ==
  /\ Expected /\ SameWork
  /\ Queues(Response(host.generation, Head(toHost).id, Refused))
  /\ host'.active = host.active /\ host'.lastRequest = Head(toHost).id

TakeStarted ==
  /\ Expected /\ host.outstanding < MaxWorkers
  /\ host'.active = host.active \cup {Head(toHost).id}
  /\ host'.lastRequest = Head(toHost).id
  /\ host'.outstanding = host.outstanding + 1
  /\ host'.generation = host.generation /\ host'.session = host.session
  /\ host'.queue = host.queue /\ host'.writing = host.writing
  /\ workers' = workers \cup {[generation |-> host.generation,
                               id |-> Head(toHost).id,
                               call |-> Head(toHost).payload]}
  /\ served' = [served EXCEPT ![Head(toHost).payload] = "running"]
  /\ UNCHANGED <<wire, completions, toGuest>>

EndCloses(w) == Ends(w) /\ Closes /\ UNCHANGED toHost

EndReplies(w) ==
  /\ Ends(w) /\ w.generation = host.generation /\ host.session # None
  /\ Queues(Response(host.generation, w.id, w.call))
  /\ host'.active = host.active \ {w.id}
  /\ host'.lastRequest = host.lastRequest
  /\ UNCHANGED toHost

EndQuiet(w) ==
  /\ Ends(w)
  /\ host'.generation = host.generation /\ host'.session = host.session
  /\ host'.queue = host.queue /\ host'.writing = host.writing
  /\ host'.active = host.active /\ host'.lastRequest = host.lastRequest
  /\ UNCHANGED <<toHost, wire, completions, toGuest>>

WriteCloses == Closes /\ SameWork /\ UNCHANGED toHost

ReconnectCloses ==
  /\ Closes /\ SameWork
  /\ \/ toHost' = <<>> /\ ~broker.running
     \/ toHost' = <<Opened>> \o <<>> /\ broker.running
     \/ /\ toHost' = <<Opened>> \o toHost /\ broker.running
        /\ \A k \in DOMAIN toHost : toHost[k].type \in {"hello", "request"}

\* The host's steps.
HostStep ==
  /\ UNCHANGED guestVars /\ faults' \in 0..MaxFaults /\ host' \in HostState
  /\ \/ TakeCloses \/ TakeHello \/ TakeRefused \/ TakeStarted
     \/ \E w \in workers : EndCloses(w) \/ EndReplies(w) \/ EndQuiet(w)
     \/ WriteCloses \/ ReconnectCloses

\* The broker starts.
GuestStarts ==
  /\ ~broker.running /\ broker'.running = TRUE
  /\ broker'.session = None /\ broker'.counter = 0
  /\ \E f \in HelloFrame : broker'.outgoing = <<f>>
  /\ toHost' = Append(toHost, Opened)
  /\ UNCHANGED <<client, pending, toGuest>>

\* r is what is left of q when its beginning is dropped.
Suffix(r, q) ==
  \E n \in Nat : \A k \in DOMAIN r : k \in Nat /\ k + n \in DOMAIN q /\ r[k] = q[k + n]

\* It ends.
GuestDies ==
  /\ broker.running /\ broker'.running = FALSE
  /\ broker'.session = None /\ broker'.counter = 0 /\ broker'.outgoing = <<>>
  /\ \A c \in Client :
       /\ client'[c].id = client[c].id /\ client'[c].answer = client[c].answer
       /\ client'[c].stage = IF c \in Live THEN "closed" ELSE client[c].stage
  /\ pending' = [i \in Ids |-> Nobody]
  /\ toHost' = Append(toHost, Closing)
  /\ Suffix(toGuest', toGuest) /\ toGuest' \in Seq(PortOutput)

\* It accepts the host's welcome.
GuestWelcomed ==
  /\ broker.running /\ broker.session = None
  /\ toGuest # <<>> /\ Head(toGuest).type = "welcome"
  /\ toGuest' = Tail(toGuest)
  /\ broker'.session = Head(toGuest).session /\ broker'.running = TRUE
  /\ broker'.counter = broker.counter /\ broker'.outgoing = broker.outgoing
  /\ UNCHANGED <<client, pending, toHost>>

\* It takes a response, and answers client c unless nobody waits.
GuestTakes ==
  /\ broker.session # None
  /\ toGuest # <<>> /\ Head(toGuest) \in ResponseFrame
  /\ Head(toGuest).session = broker.session
  /\ toGuest' = Tail(toGuest)
  /\ UNCHANGED <<broker, toHost>>

GuestIgnores ==
  GuestTakes /\ pending[Head(toGuest).id] = Nobody /\ UNCHANGED <<client, pending>>

GuestAnswers ==
  /\ GuestTakes /\ pending[Head(toGuest).id] # Nobody
  /\ pending' = [pending EXCEPT ![Head(toGuest).id] = Nobody]
  /\ LET c == pending[Head(toGuest).id] IN
     /\ client'[c].stage = "answering" /\ client'[c].id = client[c].id
     /\ client'[c].answer = Head(toGuest).payload
     /\ \A b \in Client \ {c} : client'[b] = client[b]

\* It writes a frame to the port.
GuestWrites ==
  /\ broker.outgoing # <<>>
  /\ toHost' = Append(toHost, Head(broker.outgoing))
  /\ broker'.outgoing = Tail(broker.outgoing) /\ broker'.running = broker.running
  /\ broker'.session = broker.session /\ broker'.counter = broker.counter
  /\ UNCHANGED <<client, pending, toGuest>>

\* Client c moves on without a request being sent.
GuestMoves(c) ==
  /\ UNCHANGED <<toHost, toGuest>>
  /\ \A b \in Client \ {c} : client'[b] = client[b]
  /\ broker'.running = broker.running /\ broker'.session = broker.session
  /\ broker'.outgoing = broker.outgoing
  /\ \A i \in Ids : \/ pending'[i] = Nobody
                    \/ pending'[i] = pending[i] /\ pending[i] # c
  /\ \/ /\ client[c].stage = "idle" /\ client'[c].stage \in {"open", "closed"}
        /\ broker'.counter = broker.counter
        /\ client'[c].answer = client[c].answer /\ client'[c].id = client[c].id
     \/ /\ client[c].stage = "open" /\ client'[c].stage = "answering"
        /\ broker'.counter = broker.counter
        /\ client'[c].answer = Refused /\ client'[c].id = client[c].id
     \/ /\ client[c].stage = "open" /\ client'[c].stage = "closed"
        /\ broker.session # None /\ broker'.counter = broker.counter + 1
        /\ client'[c].answer = client[c].answer
        /\ client'[c].id = broker.counter + 1
     \/ /\ c \in Live /\ client'[c].stage = "closed"
        /\ broker'.counter = broker.counter
        /\ client'[c].answer = client[c].answer /\ client'[c].id = client[c].id
     \/ /\ client[c].stage = "answering" /\ client'[c].stage = "answered"
        /\ broker'.counter = broker.counter
        /\ client'[c].answer = client[c].answer /\ client'[c].id = client[c].id

\* The request of client c is queued.
GuestAsks(c) ==
  /\ client[c].stage = "open" /\ broker.session # None
  /\ Len(broker.outgoing) < MaxQueue
  /\ broker'.counter = broker.counter + 1 /\ broker'.running = broker.running
  /\ broker'.session = broker.session
  /\ broker'.outgoing = Append(broker.outgoing,
                          Request(broker.session, broker.counter + 1, c))
  /\ client'[c].stage = "waiting" /\ client'[c].id = broker.counter + 1
  /\ client'[c].answer = client[c].answer
  /\ \A b \in Client \ {c} : client'[b] = client[b]
  /\ pending' = [pending EXCEPT ![broker.counter + 1] = c]
  /\ broker.counter + 1 \in Ids
  /\ UNCHANGED <<toHost, toGuest>>

\* The broker's steps.
GuestStep ==
  /\ UNCHANGED hostVars /\ faults' \in 0..MaxFaults
  /\ broker' \in BrokerState /\ client' \in [Client -> ClientState]
  /\ pending' \in [Ids -> Client \cup {Nobody}]
  /\ \/ GuestStarts \/ GuestDies \/ GuestWelcomed \/ GuestIgnores
     \/ GuestAnswers \/ GuestWrites
     \/ \E c \in Client : GuestMoves(c) \/ GuestAsks(c)

\* The port takes the frame on the wire.
Sends ==
  /\ \E w \in wire :
       /\ toGuest' = Append(toGuest, w.frame) /\ wire' = wire \ {w}
       /\ completions' = completions \cup
            {[generation |-> w.generation, success |-> TRUE]}
  /\ UNCHANGED <<guestVars, toHost, host, workers, served, faults>>

\* A completion of an earlier generation is ignored.
CompletesOld ==
  /\ \E d \in completions : /\ d.generation # host.generation
                            /\ completions' = completions \ {d}
  /\ UNCHANGED <<guestVars, toHost, toGuest, host, wire, workers, served, faults>>

\* A completion of this one removes the first frame and writes the next.
CompletesNext ==
  /\ host.queue # <<>> /\ wire = {} /\ host.writing
  /\ completions' = {d \in completions : d.generation # host.generation}
  /\ host' \in HostState
  /\ host'.queue = Tail(host.queue)
  /\ host'.writing = (Tail(host.queue) # <<>>)
  /\ wire' = IF Tail(host.queue) # <<>>
             THEN {[generation |-> host.generation,
                    frame |-> Head(Tail(host.queue))]}
             ELSE {}
  /\ host'.generation = host.generation /\ host'.session = host.session
  /\ host'.active = host.active /\ host'.lastRequest = host.lastRequest
  /\ host'.outstanding = host.outstanding
  /\ UNCHANGED <<guestVars, toHost, toGuest, workers, served, faults>>

-----------------------------------------------------------------------------
(* Every step is one of these *)

\* A sequence of one element.
LEMMA Singleton == \A x : Append(<<>>, x) = <<x>> /\ Head(<<x>>) = x /\ <<x>> # <<>>
OBVIOUS

\* The state after close().
LEMMA ClosedState ==
  ASSUME NEW h \in HostState
  PROVE  /\ Closed(h) \in HostState
         /\ Closed(h).generation = h.generation + 1 /\ Closed(h).session = None
         /\ Closed(h).queue = <<>> /\ Closed(h).writing = FALSE
         /\ Closed(h).active = {} /\ Closed(h).lastRequest = 0
         /\ Closed(h).outstanding = h.outstanding
<1> DEFINE n == h.generation + 1
<1>1. <<>> \in Seq(HostFrame) /\ n \in Nat /\ None \in Nat
  BY DEF HostState, None
<1>2. Closed(h) = [h EXCEPT !.generation = n, !.session = None, !.queue = <<>>,
                            !.writing = FALSE, !.active = {}, !.lastRequest = 0]
  BY Zenon DEF Closed, Fresh, HostState
<1> HIDE DEF n
<1>3. Closed(h) \in HostState
  <2>1. {} \in SUBSET Ids /\ FALSE \in BOOLEAN /\ 0 \in Nat
    OBVIOUS
  <2> QED
    BY <1>1, <1>2, <2>1, Zenon DEF HostState, None
<1>4. /\ Closed(h).generation = n /\ Closed(h).session = None
      /\ Closed(h).queue = <<>> /\ Closed(h).writing = FALSE
      /\ Closed(h).active = {} /\ Closed(h).lastRequest = 0
      /\ Closed(h).outstanding = h.outstanding
  BY <1>2, Zenon DEF HostState
<1> QED
  BY <1>3, <1>4, Zenon DEF n

\* The engine's state after close() with its port opened or closed.
LEMMA ClosedPort ==
  ASSUME NEW h \in HostState, NEW b \in BOOLEAN, NEW g,
         g = [Closed(h) EXCEPT !.open = b]
  PROVE  /\ g \in HostState /\ g.generation = h.generation + 1
         /\ g.session = None /\ g.queue = <<>> /\ g.writing = FALSE
         /\ g.active = {} /\ g.lastRequest = 0
         /\ g.outstanding = h.outstanding
<1>1. PICK c \in HostState : c = Closed(h)
  BY ClosedState, Zenon
<1>2. /\ c.generation = h.generation + 1 /\ c.session = None
      /\ c.queue = <<>> /\ c.writing = FALSE
      /\ c.active = {} /\ c.lastRequest = 0
      /\ c.outstanding = h.outstanding
  BY <1>1, ClosedState, Zenon
<1>3. g = [c EXCEPT !.open = b]
  BY <1>1, Zenon
<1>4. /\ g \in HostState /\ g.generation = c.generation
      /\ g.session = c.session /\ g.queue = c.queue
      /\ g.writing = c.writing /\ g.active = c.active
      /\ g.lastRequest = c.lastRequest /\ g.outstanding = c.outstanding
  BY <1>3, Zenon DEF HostState
<1> QED
  BY <1>2, <1>4, Zenon

\* close() ends the generation.
LEMMA FailCloses ==
  ASSUME Typed, NEW h, fail(h),
         h \in HostState, h.generation = host.generation
  PROVE  Closes /\ host' \in HostState /\ host'.outstanding = h.outstanding
BY ClosedState, Zenon DEF fail, Closes

\* A frame is queued, or the queue is full and the channel fails.
LEMMA EnqueueCases ==
  ASSUME Typed, Writes, NEW h \in HostState, NEW f \in HostFrame, enqueue(h, f),
         h.session = host.generation, h.generation = host.generation,
         h.queue = host.queue, h.writing = host.writing
  PROVE  /\ host' \in HostState /\ host'.outstanding = h.outstanding
         /\ \/ Closes
            \/ /\ Queues(f) /\ host'.active = h.active
               /\ host'.lastRequest = h.lastRequest
<1>1. host.queue \in Seq(HostFrame) /\ Len(host.queue) \in Nat /\ host.writing \in BOOLEAN /\ host.generation \in Nat
  BY DEF Typed, HostState
<1>2. CASE Len(h.queue) >= MaxQueue
  <2>1. fail(h)
    BY <1>2, Zenon DEF enqueue
  <2> QED
    BY <2>1, <1>1, FailCloses, Zenon
<1>3. CASE ~(Len(h.queue) >= MaxQueue)
  <2> DEFINE g == [h EXCEPT !.queue = Append(@, f)]
  <2>1. drain(g) /\ UNCHANGED <<completions, toGuest>>
    BY <1>3, Zenon DEF enqueue
  <2>2. /\ g.queue = Append(host.queue, f) /\ g.writing = host.writing
        /\ g.generation = host.generation /\ g.session = host.generation
        /\ g.active = h.active /\ g.outstanding = h.outstanding
        /\ g.lastRequest = h.lastRequest /\ g \in HostState
    <3>1. Append(host.queue, f) \in Seq(HostFrame)
      BY <1>1
    <3> QED
      BY <3>1, Zenon DEF HostState
  <2> HIDE DEF g
  <2>3. Append(host.queue, f) # <<>>
    BY <1>1, ElemsAppend, Zenon
  <2>4. ~host.writing => Head(Append(host.queue, f)) = f
    BY Singleton, Zenon DEF Writes
  <2>5. /\ host'.queue = Append(host.queue, f) /\ host'.writing = TRUE
        /\ host'.generation = host.generation /\ host'.session = host.generation
        /\ host'.active = h.active /\ host'.outstanding = h.outstanding
        /\ host'.lastRequest = h.lastRequest /\ host' \in HostState
    BY <2>1, <2>2, <2>3, <1>1, Zenon DEF drain, HostState
  <2>6. wire' = IF host.writing THEN wire
                ELSE {[generation |-> host.generation, frame |-> f]}
    BY <2>1, <2>2, <2>3, <2>4, Zenon DEF drain
  <2>7. Len(host.queue) < MaxQueue
    BY <1>1, <1>3, ControlAssumption
  <2> QED
    BY <2>1, <2>5, <2>6, <2>7, Zenon DEF Queues
<1> QED
  BY <1>2, <1>3, Zenon

\* The steps of the engine are those of HostStep.
LEMMA HostReceiveStep ==
  ASSUME Typed, Writes, Queued, Events, HostReceive
  PROVE  HostStep
<1> DEFINE v == Head(toHost)
<1>1. Takes /\ v \in PortInput /\ handle(v) /\ UNCHANGED <<guestVars, faults>>
  BY ElemsTail, Zenon DEF HostReceive, Takes, Typed
<1>2. host \in HostState /\ faults' \in 0..MaxFaults /\ host.generation \in Nat
  BY <1>1, Zenon DEF Typed, HostState
<1>3. 1 \in DOMAIN toHost /\ v = toHost[1]
  BY ElemsTail, Zenon DEF HostReceive, Typed
<1> HIDE DEF v
<1>4. CASE v.type = "opened" /\ controlOpened
  <2>1. host.session = None
    BY <1>3, <1>4, Zenon DEF Events
  <2>2. wire = {} /\ Cancelled = {}
    BY <2>1, Zenon DEF Queued, Writes, Cancelled
  <2>3. host' \in HostState /\ Closes /\ SameWork
    <3>1. host' = [Closed(host) EXCEPT !.open = TRUE] /\ Closed(host) \in HostState
      BY <1>2, <1>4, ClosedState, Zenon DEF controlOpened
    <3>2. /\ host' \in HostState /\ host'.generation = host.generation + 1
          /\ host'.session = None /\ host'.queue = <<>> /\ host'.writing = FALSE
          /\ host'.active = {} /\ host'.lastRequest = 0
          /\ host'.outstanding = host.outstanding
      BY <1>2, <3>1, ClosedPort, Zenon
    <3> QED
      BY <3>2, <1>4, <2>2, Zenon DEF controlOpened, Closes, SameWork
  <2> QED
    BY <1>1, <1>2, <2>3, Zenon DEF HostStep, TakeCloses
<1>5. CASE v.type = "closed" /\ controlClosed
  <2>1. host' \in HostState /\ Closes /\ SameWork
    <3>1. host' = [Closed(host) EXCEPT !.open = FALSE] /\ Closed(host) \in HostState
      BY <1>2, <1>5, ClosedState, Zenon DEF controlClosed
    <3>2. /\ host' \in HostState /\ host'.generation = host.generation + 1
          /\ host'.session = None /\ host'.queue = <<>> /\ host'.writing = FALSE
          /\ host'.active = {} /\ host'.lastRequest = 0
          /\ host'.outstanding = host.outstanding
      BY <1>2, <3>1, ClosedPort, Zenon
    <3> QED
      BY <3>2, <1>5, Zenon DEF controlClosed, Closes, SameWork
  <2> QED
    BY <1>1, <1>2, <2>1, Zenon DEF HostStep, TakeCloses
<1>6. CASE /\ v.type = "hello" /\ host.session = None
           /\ enqueue([host EXCEPT !.session = host.generation],
                      Welcome(v.nonce, host.generation))
           /\ UNCHANGED <<workers, served>>
  <2> DEFINE h == [host EXCEPT !.session = host.generation]
             f == Welcome(v.nonce, host.generation)
  <2>1. v.nonce \in Nat
    BY <1>1, <1>6, Zenon DEF PortInput, GuestFrame, HelloFrame, RequestFrame, EventFrame
  <2>2. f \in HostFrame
    BY <1>2, <2>1, Zenon DEF HostFrame, WelcomeFrame, Welcome
  <2>3. /\ h \in HostState /\ h.session = host.generation
        /\ h.generation = host.generation /\ h.queue = host.queue
        /\ h.writing = host.writing /\ h.active = host.active
        /\ h.lastRequest = host.lastRequest /\ h.outstanding = host.outstanding
    BY <1>2, Zenon DEF HostState
  <2>4. enqueue(h, f)
    BY <1>6, Zenon
  <2> HIDE DEF h, f
  <2>5. /\ host' \in HostState /\ host'.outstanding = h.outstanding
        /\ \/ Closes
           \/ /\ Queues(f) /\ host'.active = h.active
              /\ host'.lastRequest = h.lastRequest
    BY <2>2, <2>3, <2>4, EnqueueCases, Zenon
  <2>6. SameWork
    BY <2>3, <2>5, <1>6, Zenon DEF SameWork
  <2>7. TakeCloses \/ TakeHello
    BY <1>1, <1>6, <2>1, <2>3, <2>5, <2>6, Zenon DEF TakeCloses, TakeHello, f, v
  <2> QED
    BY <1>1, <1>2, <2>5, <2>7, Zenon DEF HostStep
<1>7. CASE /\ v.type = "request" /\ host.session # None
           /\ v.session = host.session /\ handle_request(v)
  <2>1. v \in RequestFrame
    BY <1>1, <1>7, Zenon DEF PortInput, GuestFrame, HelloFrame, RequestFrame, EventFrame
  <2>2. Expected
    BY <1>1, <1>7, <2>1, Zenon DEF Expected, v
  <2>3. host.session = host.generation
    BY <1>7, Zenon DEF Queued
  <2>4. v.id \in Nat /\ v.id \in Ids /\ v.payload \in Client
    BY <2>1 DEF RequestFrame, Ids
  <2>5. CASE RefuseRequest(v)
    <3> DEFINE h == Numbered(v)
               f == Response(h.session, v.id, Refused)
    <3>1. /\ h \in HostState /\ h.session = host.generation
          /\ h.generation = host.generation /\ h.queue = host.queue
          /\ h.writing = host.writing /\ h.active = host.active
          /\ h.lastRequest = v.id /\ h.outstanding = host.outstanding
      BY <1>2, <2>3, <2>4, Zenon DEF HostState, Numbered
    <3>2. enqueue(h, f) /\ UNCHANGED <<workers, served>>
      BY <2>5, Zenon DEF RefuseRequest, reply
    <3>3. f = Response(host.generation, v.id, Refused)
      BY <3>1, Zenon
    <3> HIDE DEF h, f
    <3>4. f \in HostFrame
      BY <1>2, <2>4, <3>3, Zenon DEF HostFrame, ResponseFrame, Response
    <3>5. /\ host' \in HostState /\ host'.outstanding = h.outstanding
          /\ \/ Closes
             \/ /\ Queues(f) /\ host'.active = h.active
                /\ host'.lastRequest = h.lastRequest
      BY <3>1, <3>2, <3>4, EnqueueCases, Zenon
    <3>6. SameWork
      BY <3>1, <3>2, <3>5, Zenon DEF SameWork
    <3>7. TakeCloses \/ TakeRefused
      BY <1>1, <2>2, <3>1, <3>3, <3>5, <3>6, Zenon DEF TakeCloses, TakeRefused, v
    <3> QED
      BY <1>1, <1>2, <3>5, <3>7, Zenon DEF HostStep
  <2>6. CASE host.outstanding < MaxWorkers /\ StartWorker(v)
    <3> DEFINE h == Numbered(v)
    <3>1. /\ h \in HostState /\ h.session = host.session
          /\ h.generation = host.generation /\ h.queue = host.queue
          /\ h.writing = host.writing /\ h.active = host.active
          /\ h.lastRequest = v.id /\ h.outstanding = host.outstanding
      BY <1>2, <2>4, Zenon DEF HostState, Numbered
    <3>2. /\ host' = [h EXCEPT !.active = @ \cup {v.id}, !.outstanding = @ + 1]
          /\ workers' = workers \cup {[generation |-> host.generation,
                               id |-> v.id, call |-> v.payload]}
          /\ served' = [served EXCEPT ![v.payload] = "running"]
          /\ UNCHANGED <<wire, completions, toGuest>>
      BY <2>6, Zenon DEF StartWorker
    <3> HIDE DEF h
    <3> DEFINE a == h.active \cup {v.id}
               n == h.outstanding + 1
    <3>a. a \in SUBSET Ids /\ n \in Int
      BY <3>1, <2>4 DEF HostState
    <3>b. host' = [h EXCEPT !.active = a, !.outstanding = n]
      BY <3>1, <3>2, Zenon DEF HostState
    <3> HIDE DEF a, n
    <3>3. /\ host' \in HostState
          /\ host'.active = host.active \cup {v.id}
          /\ host'.lastRequest = v.id
          /\ host'.outstanding = host.outstanding + 1
          /\ host'.generation = host.generation /\ host'.session = host.session
          /\ host'.queue = host.queue /\ host'.writing = host.writing
      <4>1. host' \in HostState /\ host'.active = a /\ host'.outstanding = n
        BY <3>1, <3>a, <3>b, Zenon DEF HostState
      <4>2. /\ host'.lastRequest = h.lastRequest /\ host'.generation = h.generation
            /\ host'.session = h.session /\ host'.queue = h.queue
            /\ host'.writing = h.writing
        BY <3>1, <3>b, Zenon DEF HostState
      <4> QED
        BY <3>1, <4>1, <4>2, Zenon DEF a, n
    <3>4. TakeStarted
      BY <2>2, <2>6, <3>2, <3>3, Zenon DEF TakeStarted, v
    <3> QED
      BY <1>1, <1>2, <3>3, <3>4, Zenon DEF HostStep
  <2>7. CASE fail(host) /\ UNCHANGED <<workers, served>>
    <3>1. Closes /\ host' \in HostState /\ SameWork
      BY <1>2, <2>7, FailCloses, Zenon DEF SameWork
    <3> QED
      BY <1>1, <1>2, <3>1, Zenon DEF HostStep, TakeCloses
  <2> QED
    BY <1>7, <2>5, <2>6, <2>7, Zenon DEF handle_request
<1>8. CASE fail(host) /\ UNCHANGED <<workers, served>>
  <2>1. Closes /\ host' \in HostState /\ SameWork
    BY <1>2, <1>8, FailCloses, Zenon DEF SameWork
  <2> QED
    BY <1>1, <1>2, <2>1, Zenon DEF HostStep, TakeCloses
<1> QED
  BY <1>1, <1>4, <1>5, <1>6, <1>7, <1>8, Zenon DEF handle

\* As are the end of a worker, a failed write and a reconnect.
LEMMA OtherHostStep ==
  ASSUME Typed, Writes, Queued, Offers,
         WriteFails \/ SpiceReconnect \/ \E w \in workers : Finished(w)
  PROVE  HostStep
<1>1. host \in HostState /\ host.generation \in Nat
  BY Zenon DEF Typed, HostState
<1>2. CASE WriteFails
  <2>1. faults' \in 0..MaxFaults
    BY <1>2, ControlAssumption DEF WriteFails, Fault, Typed
  <2>2. Closes /\ host' \in HostState /\ SameWork
    BY <1>1, <1>2, FailCloses, Zenon DEF WriteFails, SameWork
  <2> QED
    BY <1>2, <2>1, <2>2, Zenon DEF WriteFails, HostStep, WriteCloses
<1>3. CASE SpiceReconnect
  <2>1. faults' \in 0..MaxFaults
    BY <1>3, ControlAssumption DEF SpiceReconnect, Fault, Typed
  <2>2. Closes /\ host' \in HostState /\ SameWork
    <3>1. host' = [Closed(host) EXCEPT !.open = FALSE] /\ Closed(host) \in HostState
      BY <1>1, <1>3, ClosedState, Zenon DEF SpiceReconnect, controlClosed
    <3>2. /\ host' \in HostState /\ host'.generation = host.generation + 1
          /\ host'.session = None /\ host'.queue = <<>> /\ host'.writing = FALSE
          /\ host'.active = {} /\ host'.lastRequest = 0
          /\ host'.outstanding = host.outstanding
      BY <1>1, <3>1, ClosedPort, Zenon
    <3> QED
      BY <3>2, <1>3, Zenon DEF SpiceReconnect, controlClosed, Closes, SameWork
  <2>3. \/ toHost' = <<>> /\ ~broker.running
        \/ toHost' = <<Opened>> \o <<>> /\ broker.running
        \/ /\ toHost' = <<Opened>> \o toHost /\ broker.running
           /\ \A k \in DOMAIN toHost : toHost[k].type \in {"hello", "request"}
    BY <1>3, Zenon DEF SpiceReconnect
  <2> QED
    BY <1>3, <2>1, <2>2, <2>3, Zenon DEF SpiceReconnect, HostStep, ReconnectCloses
<1>4. CASE \E w \in workers : Finished(w)
  <2>1. PICK w \in workers : Finished(w)
    BY <1>4, Zenon
  <2> DEFINE h == [host EXCEPT !.outstanding = @ - 1]
  <2>2. /\ h \in HostState /\ h.session = host.session
        /\ h.generation = host.generation /\ h.queue = host.queue
        /\ h.writing = host.writing /\ h.active = host.active
        /\ h.lastRequest = host.lastRequest
        /\ h.outstanding = host.outstanding - 1
    BY <1>1 DEF HostState
  <2>3. /\ workers' = workers \ {w} /\ served' = [served EXCEPT ![w.call] = "done"]
        /\ UNCHANGED <<guestVars, toHost, faults>>
    BY <2>1, Zenon DEF Finished
  <2>4. faults' \in 0..MaxFaults
    BY <2>3, Zenon DEF Typed
  <2>5. CASE w.generation = host.generation /\ w.id \in host.active
    <3> DEFINE g == [h EXCEPT !.active = @ \ {w.id}]
               f == Response(g.session, w.id, w.call)
    <3>1. enqueue(g, f)
      BY <2>1, <2>5, Zenon DEF Finished, reply
    <3>2. host.session = host.generation /\ host.session # None
      BY <2>5, Zenon DEF Offers, Unused, Queued
    <3> HIDE DEF h
    <3>3. /\ g \in HostState /\ g.session = host.generation
          /\ g.generation = host.generation /\ g.queue = host.queue
          /\ g.writing = host.writing /\ g.active = host.active \ {w.id}
          /\ g.lastRequest = host.lastRequest
          /\ g.outstanding = host.outstanding - 1
      BY <2>2, <3>2, Zenon DEF HostState
    <3>4. f = Response(host.generation, w.id, w.call)
      BY <3>3, Zenon
    <3> HIDE DEF g, f
    <3>5. f \in HostFrame
      BY <1>1, <3>4, Zenon DEF HostFrame, ResponseFrame, Response, Typed
    <3>6. /\ host' \in HostState /\ host'.outstanding = g.outstanding
          /\ \/ Closes
             \/ /\ Queues(f) /\ host'.active = g.active
                /\ host'.lastRequest = g.lastRequest
      BY <3>1, <3>3, <3>5, EnqueueCases, Zenon
    <3>7. Ends(w)
      BY <2>3, <3>3, <3>6, Zenon DEF Ends
    <3>8. EndCloses(w) \/ EndReplies(w)
      BY <2>3, <2>5, <3>2, <3>3, <3>4, <3>6, <3>7, Zenon DEF EndCloses, EndReplies
    <3> QED
      BY <2>3, <2>4, <3>6, <3>8, Zenon DEF HostStep
  <2>6. CASE ~(w.generation = host.generation /\ w.id \in host.active)
    <3>1. host' = h /\ UNCHANGED <<wire, completions, toGuest>>
      BY <2>1, <2>6, Zenon DEF Finished
    <3> HIDE DEF h
    <3>2. EndQuiet(w) /\ host' \in HostState
      BY <2>2, <2>3, <3>1, Zenon DEF EndQuiet, Ends
    <3> QED
      BY <2>3, <2>4, <3>2, Zenon DEF HostStep
  <2> QED
    BY <2>5, <2>6, Zenon
<1> QED
  BY <1>2, <1>3, <1>4, Zenon

\* A completion is one of the two kinds.
LEMMA CompletedStep ==
  ASSUME Typed, Writes, NEW d \in completions, Completed(d)
  PROVE  CompletesOld \/ CompletesNext
<1>1. host \in HostState /\ host.queue \in Seq(HostFrame) /\ host.writing \in BOOLEAN
  BY Zenon DEF Typed, HostState
<1>2. CASE d.generation # host.generation
  BY <1>2, Zenon DEF Completed, CompletesOld
<1>3. CASE d.generation = host.generation
  <2> DEFINE h == [host EXCEPT !.queue = Tail(@), !.writing = FALSE]
             q == Tail(host.queue)
  <2>1. d \in Mine
    BY <1>3, Zenon DEF Mine
  <2>2. host.writing /\ host.queue # <<>> /\ wire = {} /\ Mine = {d}
    BY <2>1, Zenon DEF Writes
  <2>3. completions' = completions \ {d} /\ drain(h)
        /\ UNCHANGED <<guestVars, toHost, toGuest, workers, served, faults>>
    BY <1>3, Zenon DEF Completed
  <2>4. completions' = {e \in completions : e.generation # host.generation}
    BY <2>2, <2>3, Zenon DEF Mine
  <2>5. q \in Seq(HostFrame)
    BY <1>1, <2>2, ElemsTail, Zenon
  <2>6. h = [host EXCEPT !.queue = q, !.writing = FALSE]
    BY <1>1, Zenon DEF HostState
  <2> HIDE DEF q, h
  <2>7. /\ h \in HostState /\ h.queue = q /\ h.writing = FALSE
        /\ h.generation = host.generation /\ h.session = host.session
        /\ h.active = host.active /\ h.lastRequest = host.lastRequest
        /\ h.outstanding = host.outstanding
    BY <1>1, <2>5, <2>6, Zenon DEF HostState
  <2> DEFINE b == q # <<>>
  <2>8. host' = [h EXCEPT !.writing = b] /\ b \in BOOLEAN
    BY <2>3, <2>7, Zenon DEF drain, HostState
  <2>9. wire' = IF q # <<>> THEN {[generation |-> host.generation, frame |-> Head(q)]}
                ELSE {}
    BY <2>2, <2>3, <2>7, Zenon DEF drain
  <2> HIDE DEF b
  <2>10. /\ host' \in HostState /\ host'.queue = q /\ host'.writing = b
         /\ host'.generation = host.generation /\ host'.session = host.session
         /\ host'.active = host.active /\ host'.lastRequest = host.lastRequest
         /\ host'.outstanding = host.outstanding
    BY <2>7, <2>8, Zenon DEF HostState
  <2> QED
    BY <2>2, <2>3, <2>4, <2>9, <2>10, Zenon DEF CompletesNext, q, b
<1> QED
  BY <1>2, <1>3, Zenon

\* Dropping the beginning of a suffix leaves a suffix.
LEMMA SuffixOf ==
  ASSUME NEW S, NEW q \in Seq(S), NEW p \in Seq(S), Suffix(p, q), NEW n \in 0..Len(p)
  PROVE  /\ Suffix(SubSeq(p, n + 1, Len(p)), q)
         /\ SubSeq(p, n + 1, Len(p)) \in Seq(S)
<1> DEFINE r == SubSeq(p, n + 1, Len(p))
<1>1. /\ r \in Seq(S) /\ n \in Nat
      /\ \A k \in DOMAIN r : r[k] = p[k + n] /\ k + n \in DOMAIN p /\ k \in Nat
  BY ElemsSuffix
<1>2. PICK m \in Nat : \A k \in DOMAIN p : k \in Nat /\ k + m \in DOMAIN q /\ p[k] = q[k + m]
  BY Zenon DEF Suffix
<1> HIDE DEF r
<1>3. \A k \in DOMAIN r : k \in Nat /\ k + (n + m) \in DOMAIN q /\ r[k] = q[k + (n + m)]
  <2>1. TAKE k \in DOMAIN r
  <2>2. r[k] = p[k + n] /\ k + n \in DOMAIN p /\ k \in Nat
    BY <1>1, Zenon
  <2>3. (k + n) + m \in DOMAIN q /\ p[k + n] = q[(k + n) + m]
    BY <1>2, <2>2, Zenon
  <2>4. (k + n) + m = k + (n + m)
    BY <1>1, <1>2, <2>2
  <2> QED
    BY <2>2, <2>3, <2>4, Zenon
<1>4. n + m \in Nat
  BY <1>1, <1>2
<1>5. Suffix(r, q)
  BY <1>3, <1>4, Zenon DEF Suffix
<1> QED
  BY <1>1, <1>5, Zenon DEF r

\* What the end of the broker process does.
LEMMA DieStep ==
  ASSUME Typed, broker.running, NEW received, received \in Seq(PortOutput),
         Suffix(received, toGuest), Die(received), UNCHANGED hostVars,
         faults' \in 0..MaxFaults
  PROVE  GuestStep
<1>1. broker \in BrokerState /\ client \in [Client -> ClientState]
  BY Zenon DEF Typed
<1>2. /\ broker' \in BrokerState /\ broker'.running = FALSE
      /\ broker'.session = None /\ broker'.counter = 0 /\ broker'.outgoing = <<>>
  <2>1. <<>> \in Seq(GuestFrame) /\ 0 \in Nat /\ FALSE \in BOOLEAN
    OBVIOUS
  <2> QED
    BY <1>1, <2>1, Zenon DEF Die, BrokerState, None
<1>3. \A c \in Client :
       /\ client'[c] \in ClientState
       /\ client'[c].id = client[c].id /\ client'[c].answer = client[c].answer
       /\ client'[c].stage = IF c \in Live THEN "closed" ELSE client[c].stage
  BY <1>1, Zenon DEF Die, ClientState
<1>4. client' \in [Client -> ClientState]
  BY <1>3, Zenon DEF Die
<1>5. pending' = [i \in Ids |-> Nobody] /\ pending' \in [Ids -> Client \cup {Nobody}]
  BY Zenon DEF Die
<1>6. Suffix(toGuest', toGuest) /\ toGuest' \in Seq(PortOutput)
  <2>1. PICK n \in 0..Len(received) : toGuest' = SubSeq(received, n + 1, Len(received))
    BY Zenon DEF Die
  <2> QED
    BY <2>1, SuffixOf, Zenon DEF Typed
<1>7. GuestDies
  BY <1>2, <1>3, <1>5, <1>6, Zenon DEF GuestDies, Die
<1> QED
  BY <1>2, <1>4, <1>5, <1>7, Zenon DEF GuestStep

\* Any suffix is a suffix, and so is a tail.
LEMMA SuffixTail ==
  ASSUME NEW S, NEW q \in Seq(S)
  PROVE  Suffix(q, q) /\ (q # <<>> => Suffix(Tail(q), q) /\ Tail(q) \in Seq(S))
<1>1. \A k \in DOMAIN q : k \in Nat /\ k + 0 \in DOMAIN q /\ q[k] = q[k + 0]
  OBVIOUS
<1>2. ASSUME q # <<>>
      PROVE  \A k \in DOMAIN Tail(q) : k \in Nat /\ k + 1 \in DOMAIN q /\ Tail(q)[k] = q[k + 1]
  <2>1. /\ DOMAIN Tail(q) = 1..(Len(q) - 1) /\ Len(q) \in Nat
        /\ \A k \in DOMAIN Tail(q) : Tail(q)[k] = q[k + 1] /\ k + 1 \in DOMAIN q
    BY <1>2, ElemsTail, Zenon
  <2> QED
    BY <2>1
<1>3. q # <<>> => Tail(q) \in Seq(S)
  BY ElemsTail, Zenon
<1> QED
  BY <1>1, <1>2, <1>3, Zenon DEF Suffix

\* The steps of the broker that move no frame.
LEMMA ClientStep ==
  ASSUME Typed, HasRoom, Clients, NEW c \in Client,
         accept(c) \/ read_client(c) \/ close_client(c) \/ write_client(c)
  PROVE  GuestStep
<1>1. /\ broker \in BrokerState /\ client \in [Client -> ClientState]
      /\ pending \in [Ids -> Client \cup {Nobody}] /\ faults \in 0..MaxFaults
      /\ client[c] \in ClientState /\ broker.counter \in Nat
      /\ broker.outgoing \in Seq(GuestFrame) /\ broker.session \in Nat
      /\ Len(broker.outgoing) \in Nat
  BY DEF Typed, BrokerState
<1>2. \A i \in Ids : pending[i] = c => client[c].stage = "waiting" /\ client[c].id = i
  BY ControlAssumption DEF Clients, Nobody
<1>3. UNCHANGED hostVars /\ UNCHANGED <<toHost, toGuest, faults>>
  BY Zenon DEF accept, read_client, close_client, write_client
<1>4. CASE accept(c)
  <2> DEFINE x == IF Cardinality(Live) >= MaxClients THEN "closed" ELSE "open"
  <2>1. /\ client' = [client EXCEPT ![c].stage = x]
        /\ client[c].stage = "idle" /\ x \in {"open", "closed"}
        /\ UNCHANGED <<broker, pending>>
    BY <1>4, Zenon DEF accept
  <2> HIDE DEF x
  <2>2. /\ client' \in [Client -> ClientState]
        /\ \A b \in Client \ {c} : client'[b] = client[b]
        /\ client'[c].stage = x /\ client'[c].answer = client[c].answer
        /\ client'[c].id = client[c].id
    BY <1>1, <2>1, Zenon DEF ClientState
  <2>3. \A i \in Ids : pending[i] # c
    BY <1>2, <2>1, Zenon
  <2>4. GuestMoves(c)
    BY <1>3, <2>1, <2>2, <2>3, Zenon DEF GuestMoves
  <2> QED
    BY <1>1, <1>3, <2>1, <2>2, <2>4, Zenon DEF GuestStep
<1>5. CASE read_client(c) /\ broker.session = None
  <2>1. /\ client' = [client EXCEPT ![c].stage = "answering", ![c].answer = Refused]
        /\ client[c].stage = "open" /\ UNCHANGED <<broker, pending>>
    BY <1>5, Zenon DEF read_client
  <2>2. /\ client' \in [Client -> ClientState]
        /\ \A b \in Client \ {c} : client'[b] = client[b]
        /\ client'[c].stage = "answering" /\ client'[c].answer = Refused
        /\ client'[c].id = client[c].id
    BY <1>1, <2>1, Zenon DEF ClientState
  <2>3. \A i \in Ids : pending[i] # c
    BY <1>2, <2>1, Zenon
  <2>4. GuestMoves(c)
    BY <1>3, <2>1, <2>2, <2>3, Zenon DEF GuestMoves
  <2> QED
    BY <1>1, <1>3, <2>1, <2>2, <2>4, Zenon DEF GuestStep
<1>6. CASE /\ read_client(c) /\ broker.session # None
           /\ Len(broker.outgoing) >= MaxQueue
  <2> DEFINE n == broker.counter + 1
  <2>1. /\ client' = [client EXCEPT ![c].stage = "closed", ![c].id = n]
        /\ client[c].stage = "open" /\ UNCHANGED pending
        /\ broker' = [broker EXCEPT !.counter = n, !.outgoing = broker.outgoing]
        /\ n \in Nat
    BY <1>1, <1>6, SMTT(30) DEF read_client, BrokerState
  <2> HIDE DEF n
  <2>2. /\ client' \in [Client -> ClientState]
        /\ \A b \in Client \ {c} : client'[b] = client[b]
        /\ client'[c].stage = "closed" /\ client'[c].answer = client[c].answer
        /\ client'[c].id = n
    BY <1>1, <2>1, Zenon DEF ClientState
  <2>3. \A i \in Ids : pending[i] # c
    BY <1>2, <2>1, Zenon
  <2>4. /\ broker' \in BrokerState /\ broker'.counter = n
        /\ broker'.running = broker.running /\ broker'.session = broker.session
        /\ broker'.outgoing = broker.outgoing
    BY <1>1, <2>1, Zenon DEF BrokerState
  <2>5. GuestMoves(c)
    BY <1>3, <1>6, <2>1, <2>2, <2>3, <2>4, Zenon DEF GuestMoves, n
  <2> QED
    BY <1>1, <1>3, <2>1, <2>2, <2>4, <2>5, Zenon DEF GuestStep
<1>7. CASE /\ read_client(c) /\ broker.session # None
           /\ ~(Len(broker.outgoing) >= MaxQueue)
  <2> DEFINE n == broker.counter + 1
             f == Request(broker.session, n, c)
             q == Append(broker.outgoing, f)
  <2>1. /\ client' = [client EXCEPT ![c].stage = "waiting", ![c].id = n]
        /\ client[c].stage = "open" /\ pending' = [pending EXCEPT ![n] = c]
        /\ broker' = [broker EXCEPT !.counter = n, !.outgoing = q]
    BY <1>1, <1>7, Zenon DEF read_client, BrokerState
  <2>2. n \in Nat /\ n \in Ids
    BY <1>1, <2>1 DEF HasRoom
  <2>3. q \in Seq(GuestFrame)
    <3>1. f \in GuestFrame
      BY <1>1, <2>2, Zenon DEF GuestFrame, RequestFrame, Request
    <3> QED
      BY <1>1, <3>1
  <2> HIDE DEF n, q
  <2>4. /\ client' \in [Client -> ClientState]
        /\ \A b \in Client \ {c} : client'[b] = client[b]
        /\ client'[c].stage = "waiting" /\ client'[c].answer = client[c].answer
        /\ client'[c].id = n
    BY <1>1, <2>1, <2>2, Zenon DEF ClientState
  <2>5. /\ broker' \in BrokerState /\ broker'.counter = n
        /\ broker'.running = broker.running /\ broker'.session = broker.session
        /\ broker'.outgoing = q
    BY <1>1, <2>1, <2>2, <2>3, Zenon DEF BrokerState
  <2>6. pending' \in [Ids -> Client \cup {Nobody}]
    BY <1>1, <2>1, <2>2, Zenon
  <2>7. Len(broker.outgoing) < MaxQueue
    BY <1>1, <1>7, ControlAssumption
  <2>8. GuestAsks(c)
    BY <1>3, <1>7, <2>1, <2>2, <2>4, <2>5, <2>7, Zenon DEF GuestAsks, n, q, f
  <2> QED
    BY <1>1, <1>3, <2>4, <2>5, <2>6, <2>8, Zenon DEF GuestStep
<1>8. CASE close_client(c)
  <2>1. /\ client' = [client EXCEPT ![c].stage = "closed"] /\ c \in Live
        /\ pending' = [i \in Ids |-> IF i = client[c].id THEN Nobody ELSE pending[i]]
        /\ UNCHANGED broker
    BY <1>8, Zenon DEF close_client
  <2>2. /\ client' \in [Client -> ClientState]
        /\ \A b \in Client \ {c} : client'[b] = client[b]
        /\ client'[c].stage = "closed" /\ client'[c].answer = client[c].answer
        /\ client'[c].id = client[c].id
    BY <1>1, <2>1, Zenon DEF ClientState
  <2>3. /\ pending' \in [Ids -> Client \cup {Nobody}]
        /\ \A i \in Ids : \/ pending'[i] = Nobody
                          \/ pending'[i] = pending[i] /\ pending[i] # c
    BY <1>1, <1>2, <2>1, Zenon
  <2>4. GuestMoves(c)
    BY <1>3, <2>1, <2>2, <2>3, Zenon DEF GuestMoves
  <2> QED
    BY <1>1, <1>3, <2>1, <2>2, <2>3, <2>4, Zenon DEF GuestStep
<1>9. CASE write_client(c)
  <2>1. /\ client' = [client EXCEPT ![c].stage = "answered"]
        /\ client[c].stage = "answering"
        /\ pending' = [i \in Ids |-> IF i = client[c].id THEN Nobody ELSE pending[i]]
        /\ UNCHANGED broker
    BY <1>9, Zenon DEF write_client
  <2>2. /\ client' \in [Client -> ClientState]
        /\ \A b \in Client \ {c} : client'[b] = client[b]
        /\ client'[c].stage = "answered" /\ client'[c].answer = client[c].answer
        /\ client'[c].id = client[c].id
    BY <1>1, <2>1, Zenon DEF ClientState
  <2>3. /\ pending' \in [Ids -> Client \cup {Nobody}]
        /\ \A i \in Ids : \/ pending'[i] = Nobody
                          \/ pending'[i] = pending[i] /\ pending[i] # c
    BY <1>1, <1>2, <2>1, Zenon
  <2>4. GuestMoves(c)
    BY <1>3, <2>1, <2>2, <2>3, Zenon DEF GuestMoves
  <2> QED
    BY <1>1, <1>3, <2>1, <2>2, <2>3, <2>4, Zenon DEF GuestStep
<1> QED
  BY <1>4, <1>5, <1>6, <1>7, <1>8, <1>9, Zenon

\* The broker's other steps.
LEMMA BrokerStep ==
  ASSUME Typed, Clients,
         Start \/ Crash \/ HelloExpires \/ receive \/ write
  PROVE  GuestStep
<1>1. /\ broker \in BrokerState /\ client \in [Client -> ClientState]
      /\ pending \in [Ids -> Client \cup {Nobody}] /\ faults \in 0..MaxFaults
      /\ toGuest \in Seq(PortOutput) /\ toHost \in Seq(PortInput)
      /\ broker.running \in BOOLEAN /\ broker.outgoing \in Seq(GuestFrame)
      /\ broker.nonce \in Nat
  BY Zenon DEF Typed, BrokerState
<1>2. Fault => faults' \in 0..MaxFaults
  BY <1>1, ControlAssumption DEF Fault
<1>3. CASE Start
  <2> DEFINE f == Hello(Fresh(broker.nonce))
             q == <<f>>
  <2>1. f \in HelloFrame /\ q \in Seq(GuestFrame)
    BY <1>1 DEF HelloFrame, GuestFrame, Hello, Fresh
  <2>2. broker' = [running |-> TRUE, nonce |-> Fresh(broker.nonce),
                   session |-> None, counter |-> 0, outgoing |-> q]
    BY <1>3, Zenon DEF Start
  <2> HIDE DEF q, f
  <2>3. /\ broker' \in BrokerState /\ broker'.running = TRUE
        /\ broker'.session = None /\ broker'.counter = 0 /\ broker'.outgoing = q
    BY <1>1, <2>1, <2>2 DEF BrokerState, None, Fresh
  <2>4. faults' \in 0..MaxFaults
    BY <1>1, <1>2, <1>3, Zenon DEF Start
  <2>5. GuestStarts
    BY <1>3, <2>1, <2>3, Zenon DEF Start, GuestStarts, q
  <2> QED
    BY <1>1, <1>3, <2>3, <2>4, <2>5, Zenon DEF Start, GuestStep
<1>4. CASE Crash \/ HelloExpires
  <2>1. /\ broker.running /\ Die(toGuest) /\ UNCHANGED hostVars
        /\ faults' \in 0..MaxFaults
    BY <1>1, <1>2, <1>4, Zenon DEF Crash, HelloExpires
  <2>2. Suffix(toGuest, toGuest)
    BY <1>1, SuffixTail, Zenon
  <2> QED
    BY <1>1, <2>1, <2>2, DieStep, Zenon
<1>5. CASE receive
  <2> DEFINE v == Head(toGuest)
  <2>1. /\ broker.running /\ toGuest # <<>> /\ UNCHANGED <<hostVars, faults>>
        /\ v \in PortOutput /\ Suffix(Tail(toGuest), toGuest)
        /\ Tail(toGuest) \in Seq(PortOutput)
    BY <1>1, <1>5, ElemsTail, SuffixTail, Zenon DEF receive
  <2>2. CASE Die(Tail(toGuest))
    BY <1>1, <2>1, <2>2, DieStep, Zenon
  <2>3. CASE /\ broker.session = None /\ v.type = "welcome"
             /\ broker' = [broker EXCEPT !.session = v.session]
             /\ toGuest' = Tail(toGuest) /\ UNCHANGED <<client, pending, toHost>>
    <3>1. v.session \in Nat
      BY <2>1, <2>3, Zenon
      DEF PortOutput, HostFrame, WelcomeFrame, ResponseFrame, ResetFrame
    <3>2. /\ broker' \in BrokerState /\ broker'.session = v.session
          /\ broker'.running = broker.running /\ broker'.counter = broker.counter
          /\ broker'.outgoing = broker.outgoing
      BY <1>1, <2>3, <3>1, Zenon DEF BrokerState
    <3>3. GuestWelcomed
      BY <2>1, <2>3, <3>2, Zenon DEF GuestWelcomed
    <3> QED
      BY <1>1, <2>1, <2>3, <3>2, <3>3, Zenon DEF GuestStep
  <2>4. CASE /\ broker.session # None
             /\ v.type = "response" /\ v.session = broker.session
             /\ LET c == pending[v.id] IN
                IF c = Nobody
                THEN UNCHANGED <<client, pending>>
                ELSE /\ pending' = [pending EXCEPT ![v.id] = Nobody]
                     /\ client' = [client EXCEPT ![c].stage = "answering",
                                                 ![c].answer = v.payload]
             /\ toGuest' = Tail(toGuest)
             /\ UNCHANGED <<broker, toHost>>
    <3> DEFINE c == pending[v.id]
    <3>1. v \in ResponseFrame
      BY <2>1, <2>4, Zenon
      DEF PortOutput, HostFrame, WelcomeFrame, ResponseFrame, ResetFrame
    <3>2. v.id \in Ids /\ v.payload \in Client \cup {Refused}
      BY <3>1, Zenon DEF ResponseFrame
    <3>3. GuestTakes
      BY <2>1, <2>4, <3>1, Zenon DEF GuestTakes
    <3>4. CASE c = Nobody
      <4>1. GuestIgnores
        BY <2>4, <3>3, <3>4, Zenon DEF GuestIgnores
      <4> QED
        BY <1>1, <2>1, <2>4, <3>4, <4>1, Zenon DEF GuestStep
    <3>5. CASE c # Nobody
      <4>1. c \in Client
        BY <1>1, <3>2, <3>5, Zenon
      <4>2. /\ pending' = [pending EXCEPT ![v.id] = Nobody]
            /\ client' = [client EXCEPT ![c].stage = "answering",
                                        ![c].answer = v.payload]
        BY <2>4, <3>5, Zenon
      <4> HIDE DEF c, v
      <4>3. /\ client' \in [Client -> ClientState]
            /\ client'[c].stage = "answering" /\ client'[c].id = client[c].id
            /\ client'[c].answer = v.payload
            /\ \A b \in Client \ {c} : client'[b] = client[b]
        BY <1>1, <3>2, <4>1, <4>2, Zenon DEF ClientState
      <4>4. pending' \in [Ids -> Client \cup {Nobody}]
        BY <1>1, <4>2, Zenon
      <4>5. GuestAnswers
        BY <3>3, <3>5, <4>2, <4>3, Zenon DEF GuestAnswers, c, v
      <4> QED
        BY <1>1, <2>1, <2>4, <4>3, <4>4, <4>5, Zenon DEF GuestStep
    <3> QED
      BY <3>4, <3>5, Zenon
  <2> QED
    BY <1>5, <2>2, <2>3, <2>4, Zenon DEF receive
<1>6. CASE write
  <2> DEFINE q == Tail(broker.outgoing)
  <2>1. /\ broker.running /\ broker.outgoing # <<>>
        /\ toHost' = Append(toHost, Head(broker.outgoing))
        /\ broker' = [broker EXCEPT !.outgoing = q]
        /\ UNCHANGED <<client, pending, toGuest, hostVars, faults>>
    BY <1>6, Zenon DEF write
  <2>2. q \in Seq(GuestFrame)
    BY <1>1, <2>1, ElemsTail, Zenon
  <2> HIDE DEF q
  <2>3. /\ broker' \in BrokerState /\ broker'.outgoing = q
        /\ broker'.running = broker.running /\ broker'.session = broker.session
        /\ broker'.counter = broker.counter
    BY <1>1, <2>1, <2>2, Zenon DEF BrokerState
  <2>4. GuestWrites
    BY <2>1, <2>3, Zenon DEF GuestWrites, q
  <2> QED
    BY <1>1, <2>1, <2>3, <2>4, Zenon DEF GuestStep
<1> QED
  BY <1>3, <1>4, <1>5, <1>6, Zenon

\* Every step of the specification is one of the five kinds.
LEMMA StepKinds ==
  ASSUME Inv, HasRoom, Next
  PROVE  HostStep \/ GuestStep \/ Sends \/ CompletesOld \/ CompletesNext
<1>1. CASE HostReceive
  BY <1>1, HostReceiveStep, Zenon DEF Inv
<1>2. CASE WriteFails \/ SpiceReconnect \/ \E w \in workers : Finished(w)
  BY <1>2, OtherHostStep, Zenon DEF Inv
<1>3. CASE \E d \in completions : Completed(d)
  BY <1>3, CompletedStep, Zenon DEF Inv
<1>4. CASE Start \/ Crash \/ HelloExpires \/ receive \/ write
  BY <1>4, BrokerStep, Zenon DEF Inv
<1>5. CASE \E c \in Client :
             accept(c) \/ read_client(c) \/ close_client(c) \/ write_client(c)
  BY <1>5, ClientStep, Zenon DEF Inv
<1>6. CASE Transmit
  BY <1>6, Zenon DEF Transmit, Sends
<1> QED
  BY <1>1, <1>2, <1>3, <1>4, <1>5, <1>6, Zenon DEF Next

-----------------------------------------------------------------------------
(* Types and writes *)

\* The frames and events are in their sets.
LEMMA FrameTypes ==
  /\ Opened \in PortInput /\ Closing \in PortInput /\ Reset \in PortOutput
  /\ GuestFrame \subseteq PortInput /\ HostFrame \subseteq PortOutput
BY Zenon DEF Opened, Closing, Reset, PortInput, PortOutput, EventFrame, ResetFrame

\* What Closes leaves is typed.
LEMMA TypedCloses ==
  ASSUME Typed, Closes
  PROVE  /\ wire' \in SUBSET [generation : Nat, frame : HostFrame]
         /\ completions' \in SUBSET [generation : Nat, success : BOOLEAN]
         /\ toGuest' \in Seq(PortOutput)
<1>1. Cancelled \in SUBSET [generation : Nat, success : BOOLEAN]
  <2>1. \A w \in wire : w.generation \in Nat
    BY Zenon DEF Typed
  <2>2. \A w \in wire : [generation |-> w.generation, success |-> FALSE]
                          \in [generation : Nat, success : BOOLEAN]
    BY <2>1, Zenon
  <2> QED
    BY <2>2, Zenon DEF Cancelled
<1>2. toGuest' \in Seq(PortOutput)
  BY FrameTypes, SMTT(30) DEF Typed, Closes
<1> QED
  BY <1>1, <1>2, Zenon DEF Closes, Typed

\* What Queues leaves is typed.
LEMMA TypedQueues ==
  ASSUME Typed, NEW f \in HostFrame, Queues(f)
  PROVE  /\ wire' \in SUBSET [generation : Nat, frame : HostFrame]
         /\ completions' \in SUBSET [generation : Nat, success : BOOLEAN]
         /\ toGuest' \in Seq(PortOutput)
<1>1. host.generation \in Nat
  BY Zenon DEF Typed, HostState
<1> QED
  BY <1>1 DEF Queues, Typed

\* The frames the engine queues are typed.
LEMMA QueuedFrames ==
  ASSUME Typed
  PROVE  /\ TakeHello => Welcome(Head(toHost).nonce, host.generation) \in HostFrame
         /\ TakeRefused =>
              Response(host.generation, Head(toHost).id, Refused) \in HostFrame
         /\ \A w \in workers : Response(host.generation, w.id, w.call) \in HostFrame
<1>1. host.generation \in Nat
  BY Zenon DEF Typed, HostState
<1>2. TakeHello => Welcome(Head(toHost).nonce, host.generation) \in HostFrame
  BY <1>1, Zenon DEF TakeHello, Welcome, HostFrame, WelcomeFrame
<1>3. TakeRefused => Response(host.generation, Head(toHost).id, Refused) \in HostFrame
  BY <1>1, Zenon
  DEF TakeRefused, Expected, RequestFrame, Response, HostFrame, ResponseFrame
<1>4. \A w \in workers : Response(host.generation, w.id, w.call) \in HostFrame
  BY <1>1, Zenon DEF Response, HostFrame, ResponseFrame, Typed
<1> QED
  BY <1>2, <1>3, <1>4, Zenon

\* The types are kept.
LEMMA TypedHost ==
  ASSUME Typed, HostStep
  PROVE  Typed'
<1>1. /\ broker' \in BrokerState /\ client' \in [Client -> ClientState]
      /\ pending' \in [Ids -> Client \cup {Nobody}]
      /\ host' \in HostState /\ faults' \in 0..MaxFaults
  BY Zenon DEF Typed, HostStep, guestVars
<1>2. Takes => toHost' \in Seq(PortInput)
  BY ElemsTail DEF Takes, Typed
<1>3. ASSUME SameWork
      PROVE  /\ workers' \in SUBSET [generation : Nat, id : Ids, call : Client]
             /\ served' \in [Client -> {"no", "running", "done"}]
  BY <1>3, Zenon DEF SameWork, Typed
<1>4. ASSUME NEW w \in workers, Ends(w)
      PROVE  /\ workers' \in SUBSET [generation : Nat, id : Ids, call : Client]
             /\ served' \in [Client -> {"no", "running", "done"}]
  BY <1>4, Zenon DEF Ends, Typed
<1>5. CASE TakeCloses
  BY <1>1, <1>2, <1>3, <1>5, TypedCloses, Zenon DEF TakeCloses, Typed
<1>6. CASE TakeHello
  BY <1>1, <1>2, <1>3, <1>6, QueuedFrames, TypedQueues, Zenon DEF TakeHello, Typed
<1>7. CASE TakeRefused
  BY <1>1, <1>2, <1>3, <1>7, QueuedFrames, TypedQueues, Zenon DEF TakeRefused, Expected, Typed
<1>8. CASE TakeStarted
  <2>1. /\ Head(toHost).id \in Ids /\ Head(toHost).payload \in Client
        /\ host.generation \in Nat
    BY <1>8, Zenon DEF TakeStarted, Expected, RequestFrame, Typed, HostState
  <2>2. /\ workers' \in SUBSET [generation : Nat, id : Ids, call : Client]
        /\ served' \in [Client -> {"no", "running", "done"}]
    BY <1>8, <2>1 DEF TakeStarted, Typed
  <2> QED
    BY <1>1, <1>2, <1>8, <2>2, Zenon DEF TakeStarted, Expected, Typed
<1>9. ASSUME NEW w \in workers, EndCloses(w)
      PROVE  Typed'
  BY <1>1, <1>4, <1>9, TypedCloses, Zenon DEF EndCloses, Typed
<1>10. ASSUME NEW w \in workers, EndReplies(w)
       PROVE  Typed'
  BY <1>1, <1>4, <1>10, QueuedFrames, TypedQueues, Zenon DEF EndReplies, Typed
<1>11. ASSUME NEW w \in workers, EndQuiet(w)
       PROVE  Typed'
  BY <1>1, <1>4, <1>11, Zenon DEF EndQuiet, Typed
<1>12. CASE WriteCloses
  BY <1>1, <1>3, <1>12, TypedCloses, Zenon DEF WriteCloses, Typed
<1>13. CASE ReconnectCloses
  <2>1. <<>> \in Seq(PortInput) /\ toHost \in Seq(PortInput)
    BY DEF Typed
  <2>2. <<Opened>> \o <<>> \in Seq(PortInput) /\ <<Opened>> \o toHost \in Seq(PortInput)
    BY <2>1, FrameTypes, ElemsCons, Zenon
  <2>3. toHost' \in Seq(PortInput)
    BY <1>13, <2>1, <2>2, Zenon DEF ReconnectCloses
  <2> QED
    BY <1>1, <1>3, <1>13, <2>3, TypedCloses, Zenon DEF ReconnectCloses, Typed
<1> QED
  BY <1>5, <1>6, <1>7, <1>8, <1>9, <1>10, <1>11, <1>12, <1>13, Zenon DEF HostStep

\* A suffix holds nothing new.
LEMMA SuffixElems ==
  ASSUME NEW q, NEW r, Suffix(r, q)
  PROVE  Elems(r) \subseteq Elems(q)
BY Zenon DEF Suffix, Elems

\* The broker's steps keep the types; a suffix of what the port holds is typed.
LEMMA TypedGuest ==
  ASSUME Typed, GuestStep
  PROVE  Typed'
<1>1. /\ broker' \in BrokerState /\ client' \in [Client -> ClientState]
      /\ pending' \in [Ids -> Client \cup {Nobody}] /\ faults' \in 0..MaxFaults
      /\ UNCHANGED <<host, wire, completions, workers, served>>
  BY Zenon DEF GuestStep, hostVars
<1>2. toHost' \in Seq(PortInput)
  <2>1. GuestWrites => Head(broker.outgoing) \in PortInput
    BY ElemsTail, FrameTypes, Zenon DEF GuestWrites, Typed, BrokerState
  <2>2. \A e \in PortInput : Append(toHost, e) \in Seq(PortInput)
    BY DEF Typed
  <2>3. \/ \E e \in PortInput : toHost' = Append(toHost, e)
        \/ toHost' = toHost
    BY <2>1, FrameTypes, Zenon DEF GuestStep, GuestStarts, GuestDies, GuestWelcomed,
       GuestIgnores, GuestAnswers, GuestTakes, GuestWrites, GuestMoves, GuestAsks
  <2> QED
    BY <2>2, <2>3, Zenon DEF Typed
<1>3. toGuest' \in Seq(PortOutput)
  <2>1. toGuest # <<>> => Tail(toGuest) \in Seq(PortOutput)
    BY ElemsTail, Zenon DEF Typed
  <2> QED
    BY <2>1, Zenon DEF GuestStep, Typed, GuestStarts, GuestDies, GuestWelcomed,
       GuestIgnores, GuestAnswers, GuestTakes, GuestWrites, GuestMoves, GuestAsks
<1> QED
  BY <1>1, <1>2, <1>3, Zenon DEF Typed

\* So do the port's steps.
LEMMA TypedPort ==
  ASSUME Typed, Sends \/ CompletesOld \/ CompletesNext
  PROVE  Typed'
<1>1. CASE Sends
  <2>1. PICK w \in wire :
          /\ toGuest' = Append(toGuest, w.frame) /\ wire' = wire \ {w}
          /\ completions' = completions \cup
               {[generation |-> w.generation, success |-> TRUE]}
    BY <1>1, Zenon DEF Sends
  <2>2. w.frame \in PortOutput /\ w.generation \in Nat
    BY FrameTypes, Zenon DEF Typed
  <2>3. /\ toGuest' \in Seq(PortOutput)
        /\ completions' \in SUBSET [generation : Nat, success : BOOLEAN]
    <3>1. [generation |-> w.generation, success |-> TRUE]
            \in [generation : Nat, success : BOOLEAN]
      BY <2>2, Zenon
    <3>2. toGuest' \in Seq(PortOutput)
      BY <2>1, <2>2 DEF Typed
    <3> QED
      BY <2>1, <3>1, <3>2, Zenon DEF Typed
  <2> QED
    BY <1>1, <2>1, <2>3, Zenon DEF Sends, Typed, guestVars
<1>2. CASE CompletesOld
  BY <1>2, Zenon DEF CompletesOld, Typed, guestVars
<1>3. CASE CompletesNext
  <2>1. wire' \in SUBSET [generation : Nat, frame : HostFrame]
    <3>1. Tail(host.queue) \in Seq(HostFrame) /\ host.generation \in Nat
      BY <1>3, ElemsTail, Zenon DEF CompletesNext, Typed, HostState
    <3>2. Tail(host.queue) # <<>> => Head(Tail(host.queue)) \in HostFrame
      BY <3>1, ElemsTail, Zenon
    <3> QED
      BY <1>3, <3>1, <3>2 DEF CompletesNext
  <2> QED
    BY <1>3, <2>1, Zenon DEF CompletesNext, Typed, guestVars
<1> QED
  BY <1>1, <1>2, <1>3, Zenon

\* Closing leaves nothing written.
LEMMA WritesCloses ==
  ASSUME Typed, Writes, Ages, Closes
  PROVE  Writes'
<1>1. \A d \in completions' : d.generation \in Nat /\ d.generation <= host.generation
  <2>1. \A w \in wire : w.generation = host.generation
    BY DEF Writes
  <2>2. host.generation \in Nat
    BY Zenon DEF Typed, HostState
  <2> QED
    BY <2>1, <2>2 DEF Closes, Ages, Typed, Cancelled
<1>2. Mine' = {}
  <2>1. host.generation \in Nat /\ host'.generation = host.generation + 1
    BY Zenon DEF Typed, HostState, Closes
  <2>2. \A d \in completions' : d.generation # host'.generation
    BY <1>1, <2>1
  <2> QED
    BY <2>2, Zenon DEF Mine
<1>3. Len(<<>>) <= MaxQueue
  BY ControlAssumption
<1> QED
  BY <1>2, <1>3, Zenon DEF Closes, Writes

\* Queueing a frame starts its write if none is in progress.
LEMMA WritesQueues ==
  ASSUME Typed, Writes, NEW f \in HostFrame, Queues(f)
  PROVE  Writes'
<1>1. host.queue \in Seq(HostFrame) /\ Len(host.queue) \in Nat /\ host.writing \in BOOLEAN
  BY DEF Typed, HostState
<1>2. Len(host'.queue) <= MaxQueue /\ host'.queue # <<>>
  BY <1>1, ElemsAppend, ControlAssumption DEF Queues
<1>3. Mine' = Mine
  BY Zenon DEF Mine, Queues
<1>4. CASE host.writing
  <2>1. host.queue # <<>>
    BY <1>4, Zenon DEF Writes
  <2>2. Head(host'.queue) = Head(host.queue)
    BY <1>1, <2>1 DEF Queues
  <2> QED
    BY <1>2, <1>3, <1>4, <2>2, Zenon DEF Writes, Queues
<1>5. CASE ~host.writing
  <2>1. Head(host'.queue) = f
    BY <1>5, Singleton, Zenon DEF Writes, Queues
  <2> QED
    BY <1>2, <1>3, <1>5, <2>1, Zenon DEF Writes, Queues
<1> QED
  BY <1>4, <1>5, <1>1, Zenon

\* A write is one of the first queued frame.
LEMMA WritesHost ==
  ASSUME Typed, Writes, Ages, HostStep
  PROVE  Writes'
<1>1. Closes => Writes'
  BY WritesCloses, Zenon
<1>2. TakeHello \/ TakeRefused => Writes'
  BY QueuedFrames, WritesQueues, Zenon DEF TakeHello, TakeRefused
<1>3. ASSUME NEW w \in workers, EndReplies(w)
      PROVE  Writes'
  BY <1>3, QueuedFrames, WritesQueues, Zenon DEF EndReplies
<1>4. ASSUME TakeStarted \/ \E w \in workers : EndQuiet(w)
      PROVE  Writes'
  BY <1>4, Zenon DEF TakeStarted, EndQuiet, Writes, Mine
<1> QED
  BY <1>1, <1>2, <1>3, <1>4, Zenon
  DEF HostStep, TakeCloses, EndCloses, WriteCloses, ReconnectCloses

\* So do the broker's steps, the port's and the completions.
LEMMA WritesOther ==
  ASSUME Typed, Writes, GuestStep \/ Sends \/ CompletesOld \/ CompletesNext
  PROVE  Writes'
<1>1. CASE GuestStep
  BY <1>1, Zenon DEF GuestStep, hostVars, Writes, Mine
<1>2. CASE Sends
  <2>1. PICK w \in wire :
          /\ wire' = wire \ {w}
          /\ completions' = completions \cup
               {[generation |-> w.generation, success |-> TRUE]}
    BY <1>2, Zenon DEF Sends
  <2>2. /\ wire = {w} /\ w.generation = host.generation /\ Mine = {} /\ host.writing
        /\ host.queue # <<>>
    BY DEF Writes
  <2>3. UNCHANGED host
    BY <1>2, Zenon DEF Sends
  <2>4. Mine' = {[generation |-> host.generation, success |-> TRUE]}
    BY <2>1, <2>2, <2>3 DEF Mine
  <2> QED
    BY <2>1, <2>2, <2>3, <2>4, Zenon DEF Writes
<1>3. CASE CompletesOld
  <2>1. Mine' = Mine
    BY <1>3, Zenon DEF CompletesOld, Mine
  <2> QED
    BY <1>3, <2>1, Zenon DEF CompletesOld, Writes
<1>4. CASE CompletesNext
  <2>1. Mine' = {}
    BY <1>4, Zenon DEF CompletesNext, Mine
  <2>2. Len(Tail(host.queue)) <= MaxQueue
    <3>1. host.queue \in Seq(HostFrame) /\ host.queue # <<>>
      BY <1>4, Zenon DEF CompletesNext, Typed, HostState
    <3>2. Len(host.queue) \in Nat /\ Len(Tail(host.queue)) = Len(host.queue) - 1
      BY <3>1, ElemsTail, Zenon
    <3> QED
      BY <3>2, ControlAssumption DEF Writes
  <2> QED
    BY <1>4, <2>1, <2>2, Zenon DEF CompletesNext, Writes
<1> QED
  BY <1>1, <1>2, <1>3, <1>4, Zenon
=============================================================================
