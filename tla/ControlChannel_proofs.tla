----------------------- MODULE ControlChannel_proofs ------------------------
(***************************************************************************)
(* The control channel, for every number of clients, workers and faults:   *)
(* its limits and counts are exact, no call is forgotten, and it           *)
(* implements RemoteCalls.                                                 *)
(***************************************************************************)
EXTENDS ChannelCalls_proofs, FiniteSetTheorems

-----------------------------------------------------------------------------
(* Counting *)

\* A client that has not called leaves room for its identifier.
LEMMA Room ==
  ASSUME Typed, Broker
  PROVE  HasRoom
<1> SUFFICES ASSUME NEW c \in Client, client[c].stage \in {"idle", "open"}
             PROVE  broker.counter + 1 <= Cardinality(Client) /\ broker.counter + 1 \in Ids
  BY FS_CardinalityType, ControlAssumption, Zenon DEF HasRoom
<1>1. Spent \in SUBSET Client /\ c \notin Spent
  BY Zenon DEF Spent
<1>2. Spent \cup {c} \in SUBSET Client
  BY <1>1, Zenon
<1>3. IsFiniteSet(Spent) /\ Cardinality(Spent) \in Nat
  BY <1>1, FS_Subset, FS_CardinalityType, ControlAssumption, Zenon
<1>4. Cardinality(Spent \cup {c}) = Cardinality(Spent) + 1
  BY <1>1, <1>3, FS_AddElement, Zenon
<1>5. Cardinality(Spent \cup {c}) <= Cardinality(Client) /\ Cardinality(Client) \in Nat
  BY <1>2, FS_Subset, FS_CardinalityType, ControlAssumption, Zenon
<1>6. broker.counter \in Nat /\ broker.counter <= Cardinality(Spent)
  BY Zenon DEF Typed, Broker, BrokerState
<1> QED
  BY <1>3, <1>4, <1>5, <1>6, SMTT(30) DEF Ids

\* The broker's own state stays consistent.
LEMMA BrokerNext ==
  ASSUME Typed, Broker, HostStep \/ GuestStep \/ Sends \/ CompletesOld \/ CompletesNext
  PROVE  Broker'
<1>1. /\ broker \in BrokerState /\ broker.counter \in Nat
      /\ broker.outgoing \in Seq(GuestFrame) /\ Len(broker.outgoing) \in Nat
      /\ broker.running \in BOOLEAN
  BY DEF Typed, BrokerState
<1>2. CASE UNCHANGED <<broker, client>>
  BY <1>2, Zenon DEF Broker, Spent
<1>3. CASE GuestStep
  <2>1. Spent \subseteq Client /\ Spent' \subseteq Client
    BY Zenon DEF Spent
  <2>2. /\ IsFiniteSet(Spent) /\ Cardinality(Spent) \in Nat
        /\ IsFiniteSet(Spent') /\ Cardinality(Spent') \in Nat
    BY <2>1, FS_Subset, FS_CardinalityType, ControlAssumption, Zenon
  <2>3. CASE GuestStarts
    <3>1. PICK f \in HelloFrame : broker'.outgoing = <<f>>
      BY <2>3, Zenon DEF GuestStarts
    <3>2. Elems(broker'.outgoing) = {f} /\ f.type = "hello" /\ Len(broker'.outgoing) = 1
      BY <3>1, ElemsSmall, Zenon DEF HelloFrame
    <3> QED
      BY <2>2, <2>3, <3>2, ControlAssumption, SMTT(30) DEF GuestStarts, Broker
  <2>4. CASE GuestDies
    <3>1. Elems(broker'.outgoing) = {} /\ Len(broker'.outgoing) = 0
      BY <2>4, ElemsSmall, Zenon DEF GuestDies
    <3> QED
      BY <2>2, <2>4, <3>1, ControlAssumption, SMTT(30) DEF GuestDies, Broker
  <2>5. CASE GuestWelcomed
    <3>1. \A f \in Elems(broker.outgoing) : f.type # "request"
      BY <2>5, Zenon DEF GuestWelcomed, Broker
    <3>2. Spent' = Spent
      BY <2>5, Zenon DEF GuestWelcomed, Spent
    <3>3. broker'.counter = 0
      BY <2>5, Zenon DEF GuestWelcomed, Broker
    <3> QED
      BY <2>2, <2>5, <3>1, <3>2, <3>3, Zenon DEF GuestWelcomed, Broker
  <2>6. ASSUME Spent \subseteq Spent' PROVE Cardinality(Spent) <= Cardinality(Spent')
    BY <2>2, <2>6, FS_Subset, Zenon
  <2>7. CASE GuestIgnores \/ GuestAnswers
    <3>1. Spent \subseteq Spent'
      BY <2>7, Zenon DEF GuestIgnores, GuestAnswers, Spent
    <3>2. UNCHANGED broker
      BY <2>7, Zenon DEF GuestIgnores, GuestAnswers, GuestTakes
    <3> QED
      BY <1>1, <2>2, <2>6, <3>1, <3>2, SMTT(30) DEF Broker
  <2>8. CASE GuestWrites
    <3>1. /\ Elems(Tail(broker.outgoing)) \subseteq Elems(broker.outgoing)
          /\ Len(Tail(broker.outgoing)) = Len(broker.outgoing) - 1
      BY <1>1, <2>8, ElemsTail, Zenon DEF GuestWrites
    <3>2. Spent' = Spent
      BY <2>8, Zenon DEF GuestWrites, Spent
    <3>3. Len(broker'.outgoing) <= MaxQueue
      BY <1>1, <2>8, <3>1, ControlAssumption, SMTT(30) DEF GuestWrites, Broker
    <3>4. broker'.running
      BY <1>1, <2>8, Zenon DEF GuestWrites, Broker
    <3> QED
      BY <1>1, <2>2, <2>8, <3>1, <3>2, <3>3, <3>4, ZenonT(40) DEF GuestWrites, Broker
  <2>9. ASSUME NEW c \in Client, client[c].stage \in {"idle", "open"},
               client'[c].stage \notin {"idle", "open"},
               \A b \in Client \ {c} : client'[b] = client[b]
        PROVE  Cardinality(Spent') = Cardinality(Spent) + 1
    <3>1. Spent' = Spent \cup {c} /\ c \notin Spent
      BY <2>9, Zenon DEF Spent
    <3> QED
      BY <2>2, <3>1, FS_AddElement, Zenon
  <2>10. ASSUME NEW c \in Client, GuestMoves(c)
         PROVE  Broker'
    <3>1. /\ broker'.running = broker.running /\ broker'.session = broker.session
          /\ broker'.outgoing = broker.outgoing
      BY <2>10, Zenon DEF GuestMoves
    <3>2. broker'.counter <= Cardinality(Spent')
      <4>1. CASE broker'.counter = broker.counter
        <5>1. Spent \subseteq Spent'
          BY <2>10, Zenon DEF GuestMoves, Spent, Live
        <5> QED
          BY <1>1, <2>2, <2>6, <4>1, <5>1, SMTT(30) DEF Broker
      <4>2. CASE broker'.counter # broker.counter
        <5>1. /\ broker'.counter = broker.counter + 1
              /\ client[c].stage = "open" /\ client'[c].stage = "closed"
              /\ \A b \in Client \ {c} : client'[b] = client[b]
          BY <2>10, <4>2, Zenon DEF GuestMoves
        <5>2. Cardinality(Spent') = Cardinality(Spent) + 1
          BY <2>9, <5>1, Zenon
        <5> QED
          BY <1>1, <2>2, <5>1, <5>2, SMTT(30) DEF Broker
      <4> QED
        BY <4>1, <4>2, Zenon
    <3>3. broker.session = None => broker'.counter = broker.counter
      BY <2>10, Zenon DEF GuestMoves
    <3> QED
      BY <3>1, <3>2, <3>3, Zenon DEF Broker
  <2>11. ASSUME NEW c \in Client, GuestAsks(c)
         PROVE  Broker'
    <3> DEFINE f == Request(broker.session, broker.counter + 1, c)
    <3>1. /\ broker'.running = broker.running /\ broker'.session = broker.session
          /\ broker.session # None /\ broker'.counter = broker.counter + 1
          /\ broker'.outgoing = Append(broker.outgoing, f)
      BY <2>11, Zenon DEF GuestAsks
    <3>2. /\ Elems(broker'.outgoing) = Elems(broker.outgoing) \cup {f}
          /\ Len(broker'.outgoing) = Len(broker.outgoing) + 1
      BY <1>1, <3>1, ElemsAppend
    <3>3. f.session = broker.session
      BY Zenon DEF Request
    <3>4. Cardinality(Spent') = Cardinality(Spent) + 1
      BY <2>9, <2>11, Zenon DEF GuestAsks
    <3>5. Len(broker'.outgoing) <= MaxQueue
      BY <1>1, <2>11, <3>2, ControlAssumption, SMTT(30) DEF GuestAsks
    <3>6. broker'.counter <= Cardinality(Spent')
      BY <1>1, <2>2, <3>1, <3>4, SMTT(30) DEF Broker
    <3> HIDE DEF f
    <3> QED
      BY <1>1, <3>1, <3>2, <3>3, <3>5, <3>6, Zenon DEF Broker
  <2> QED
    BY <1>3, <2>3, <2>4, <2>5, <2>7, <2>8, <2>10, <2>11, ZenonT(40) DEF GuestStep
<1> QED
  BY <1>2, <1>3, Zenon DEF HostStep, Sends, CompletesOld, CompletesNext, guestVars

\* The budget of workers is exact, and a call has at most one of them.
LEMMA WorkersNext ==
  ASSUME Typed, Budget, Working, Clients,
         HostStep \/ GuestStep \/ Sends \/ CompletesOld \/ CompletesNext
  PROVE  Budget' /\ Working'
<1>1. /\ Cardinality(workers) \in Nat /\ Cardinality(Client) \in Nat
      /\ host.lastRequest \in Nat /\ host.outstanding \in Int
      /\ served \in [Client -> {"no", "running", "done"}]
      /\ \A w \in workers : w.call \in Client
  BY FS_CardinalityType, FrameFields, ControlAssumption, Zenon
  DEF Budget, Typed, HostState
<1>2. CASE HostStep
  <2>1. host'.lastRequest <= Cardinality(Client)
    <3>1. Expected => Head(toHost).id \in Ids
      BY Zenon DEF Expected, RequestFrame
    <3>2. Expected => Head(toHost).id <= Cardinality(Client)
      BY <1>1, <3>1, SMTT(30) DEF Ids
    <3>3. \/ host'.lastRequest = 0
          \/ host'.lastRequest = host.lastRequest
          \/ Expected /\ host'.lastRequest = Head(toHost).id
      BY <1>2, Zenon DEF HostStep, TakeCloses, TakeHello, TakeRefused, TakeStarted,
         EndCloses, EndReplies, EndQuiet, WriteCloses, ReconnectCloses, Closes
    <3> QED
      BY <1>1, <3>2, <3>3, SMTT(30) DEF Budget
  <2>2. CASE SameWork
    BY <2>1, <2>2, Zenon DEF SameWork, Budget, Working
  <2>3. CASE TakeStarted
    <3> DEFINE c == Head(toHost).payload
               x == [generation |-> host.generation, id |-> Head(toHost).id, call |-> c]
    <3>1. /\ workers' = workers \cup {x} /\ served' = [served EXCEPT ![c] = "running"]
          /\ host'.outstanding = host.outstanding + 1 /\ host.outstanding < MaxWorkers
          /\ c \in Client
      BY <2>3, Zenon DEF TakeStarted, Expected, RequestFrame
    <3>2. Asked(c)
      BY <2>3, ElemsTail DEF TakeStarted, Expected, Takes, RequestFrame, Asked, Typed
    <3>3. served[c] = "no"
      BY <3>1, <3>2, Zenon DEF Clients
    <3>4. x.call = c
      OBVIOUS
    <3> HIDE DEF c, x
    <3>5. \A w \in workers : w.call # c
      BY <3>3, Zenon DEF Working
    <3>6. x \notin workers
      BY <3>4, <3>5, Zenon
    <3>7. IsFiniteSet(workers') /\ Cardinality(workers') = Cardinality(workers) + 1
      BY <3>1, <3>6, FS_AddElement, Zenon DEF Budget
    <3>8. Budget'
      BY <1>1, <2>1, <3>1, <3>7, ControlAssumption, SMTT(30) DEF Budget
    <3>9. Working'
      BY <1>1, <3>1, <3>4, <3>5, Zenon DEF Working
    <3> QED
      BY <3>8, <3>9, Zenon
  <2>4. ASSUME NEW w \in workers, Ends(w)
        PROVE  Budget' /\ Working'
    <3>1. IsFiniteSet(workers') /\ Cardinality(workers') = Cardinality(workers) - 1
      BY <2>4, FS_RemoveElement, Zenon DEF Ends, Budget
    <3>2. Budget'
      BY <1>1, <2>1, <2>4, <3>1, ControlAssumption, SMTT(30) DEF Budget, Ends
    <3>3. \A v \in workers' : v \in workers /\ v.call # w.call
      BY <2>4, Zenon DEF Ends, Working
    <3>4. Working'
      BY <1>1, <2>4, <3>3, Zenon DEF Ends, Working
    <3> QED
      BY <3>2, <3>4, Zenon
  <2> QED
    BY <1>2, <2>2, <2>3, <2>4, HostWork, Zenon
<1>3. CASE GuestStep \/ Sends \/ CompletesOld \/ CompletesNext
  BY <1>3, Zenon DEF GuestStep, Sends, CompletesOld, CompletesNext, hostVars, Budget, Working
<1> QED
  BY <1>2, <1>3, Zenon

-----------------------------------------------------------------------------
(* The invariant and what follows from it *)

\* The invariant holds at first.
LEMMA InitInv == Init => Inv
<1>1. SUFFICES ASSUME Init PROVE Inv
  OBVIOUS
<1>2. /\ broker.running = FALSE /\ broker.session = None /\ broker.counter = 0
      /\ broker.outgoing = <<>>
      /\ host.session = None /\ host.generation = 1 /\ host.queue = <<>>
      /\ host.writing = FALSE /\ host.active = {} /\ host.outstanding = 0
      /\ host.lastRequest = 0
      /\ toHost = <<>> /\ toGuest = <<>> /\ wire = {} /\ completions = {}
      /\ workers = {} /\ \A i \in Ids : pending[i] = Nobody
      /\ \A c \in Client :
           /\ client[c].stage = "idle" /\ client[c].id = 0 /\ client[c].answer = Nobody
           /\ served[c] = "no"
  BY <1>1, Zenon DEF Init, None
<1>3. /\ Elems(<<>>) = {} /\ Len(<<>>) = 0
      /\ Cardinality({}) = 0 /\ IsFiniteSet({}) /\ Cardinality(Client) \in Nat
      /\ MaxQueue \in Nat /\ MaxWorkers \in Nat /\ MaxFaults \in Nat
  BY ElemsSmall, FS_EmptySet, FS_CardinalityType, ControlAssumption, Zenon
<1>4. Typed
  <2>1. broker \in BrokerState
    <3>1. <<>> \in Seq(GuestFrame)
      OBVIOUS
    <3> QED
      BY <1>1, <3>1, Zenon DEF Init, BrokerState, None
  <2>2. host \in HostState
    <3>1. <<>> \in Seq(HostFrame)
      OBVIOUS
    <3> QED
      BY <1>1, <3>1 DEF Init, HostState, None
  <2>3. client \in [Client -> ClientState]
    BY <1>1, Zenon DEF Init, ClientState
  <2>4. toHost \in Seq(PortInput) /\ toGuest \in Seq(PortOutput)
    BY <1>2
  <2> QED
    BY <1>1, <1>3, <2>1, <2>2, <2>3, <2>4, SMTT(30) DEF Init, Typed
<1>5. Writes /\ Queued /\ Ages
  BY <1>2, <1>3 DEF Writes, Mine, Queued, Ages, None
<1>6. Offers /\ Events
  <2>1. Unused(host.generation) /\ NotWelcomed(host.generation)
    BY <1>2, <1>3 DEF Unused, NotWelcomed, None
  <2> QED
    BY <1>2, <1>3, <2>1 DEF Offers, Events
<1>7. Broker /\ Budget
  <2>1. Spent = {}
    BY <1>2, Zenon DEF Spent
  <2> QED
    BY <1>2, <1>3, <2>1 DEF Broker, Budget
<1>8. AskedOnce /\ Clients /\ Matched /\ Working /\ Remembered
  <2>1. \A c : ~Asked(c)
    BY <1>2, <1>3, Zenon DEF Asked
  <2> QED
    BY <1>2, <1>3, <2>1, SMTT(30) DEF AskedOnce, Once, Clients, Matched, Working, Remembered
<1> QED
  BY <1>4, <1>5, <1>6, <1>7, <1>8, Zenon DEF Inv

\* Every step of the channel keeps the invariant.
LEMMA NextInv == Inv /\ [Next]_vars => Inv'
<1>1. SUFFICES ASSUME Inv, [Next]_vars PROVE Inv'
  OBVIOUS
<1> USE DEF Inv
<1>2. CASE Next
  <2>1. HostStep \/ GuestStep \/ Sends \/ CompletesOld \/ CompletesNext
    BY <1>1, <1>2, Room, StepKinds, Zenon
  <2>2. Typed' /\ Writes'
    BY <1>1, <2>1, TypedHost, TypedGuest, TypedPort, WritesHost, WritesOther, Zenon
  <2>3. Queued' /\ Ages' /\ Offers' /\ Events'
    BY <1>1, <2>1, QueuedNext, AgesNext, OffersNext, EventsNext, Zenon
  <2>4. Broker' /\ Budget' /\ Working' /\ AskedOnce'
    BY <1>1, <2>1, BrokerNext, WorkersNext, AskedOnceNext, Zenon
  <2>5. Clients'
    <3>1. ASSUME Sends \/ CompletesOld \/ CompletesNext PROVE Clients'
      <4>1. UNCHANGED <<broker, client, pending, toHost, workers, served>>
        BY <1>1, <3>1, PortElems, Zenon
      <4>2. \A c : Asked(c)' => Asked(c)
        BY <4>1, Zenon DEF Asked
      <4> QED
        BY <1>1, <4>1, <4>2, Zenon DEF Clients
    <3> QED
      BY <1>1, <2>1, <3>1, Room, ClientsHost, ClientsGuest, Zenon
  <2>6. Matched'
    BY <1>1, <2>1, MatchedHost, MatchedGuest, MatchedPort, Zenon
  <2>7. Remembered'
    BY <1>1, <2>1, RememberedHost, RememberedGuest, RememberedPort, Zenon
  <2> QED
    BY <2>2, <2>3, <2>4, <2>5, <2>6, <2>7, Zenon
<1>3. CASE UNCHANGED vars
  <2>1. UNCHANGED <<broker, client, pending, toHost, toGuest, host, wire, completions,
                    workers, served, faults>>
    BY <1>3, Zenon DEF vars, guestVars, hostVars
  <2>2. Typed'
    BY <1>1, <2>1, Zenon DEF Typed
  <2>3. Writes' /\ Queued' /\ Ages'
    BY <1>1, <2>1, Zenon DEF Writes, Mine, Queued, Ages
  <2>4. Offers' /\ Events'
    BY <1>1, <2>1, Zenon DEF Offers, Unused, NotWelcomed, Events
  <2>5. Broker' /\ Budget' /\ AskedOnce'
    BY <1>1, <2>1 DEF Broker, Spent, Budget, AskedOnce, Once
  <2>6. Clients' /\ Matched' /\ Working'
    BY <1>1, <2>1 DEF Asked, Clients, Names, Settled, Matched, Working
  <2>7. Remembered'
    BY <1>1, <2>1, Zenon DEF Answering, Remembered
  <2> QED
    BY <2>2, <2>3, <2>4, <2>5, <2>6, <2>7, Zenon
<1> QED
  BY <1>1, <1>2, <1>3, Zenon

\* The invariant holds throughout.
LEMMA AlwaysInv == Spec => []Inv
BY InitInv, NextInv, PTL DEF Spec

\* The invariant implies the limits and the exact counts.
LEMMA InvLimits == Inv => LimitsKept
<1>1. SUFFICES ASSUME Inv PROVE LimitsKept
  OBVIOUS
<1>2. Typed /\ Writes /\ Queued /\ Broker /\ Budget /\ Clients
  BY <1>1, Zenon DEF Inv
<1>3. Cardinality(Client) \in Nat /\ Cardinality(workers) \in Nat
  BY <1>2, FS_CardinalityType, ControlAssumption, Zenon DEF Budget
<1>4. TypeOK
  <2>1. broker.counter \in 0..Cardinality(Client)
    <3>1. Spent \subseteq Client
      BY Zenon DEF Spent
    <3>2. Cardinality(Spent) <= Cardinality(Client) /\ Cardinality(Spent) \in Nat
      BY <3>1, FS_Subset, FS_CardinalityType, ControlAssumption, Zenon
    <3> QED
      BY <1>2, <1>3, <3>2 DEF Broker, Typed, BrokerState
  <2>2. broker \in [running : BOOLEAN, nonce : Nat, session : Nat,
                    counter : 0..Cardinality(Client),
                    outgoing : Seq([type : {"hello"}, nonce : Nat] \cup
                      [type : {"request"}, session : Nat, id : Ids,
                       payload : Client])]
    BY <1>2, <2>1, Zenon DEF Typed, BrokerState, GuestFrame, HelloFrame, RequestFrame
  <2>3. client \in [Client ->
          [stage : {"idle", "open", "waiting", "answering", "answered", "closed"},
           id : 0..Cardinality(Client), answer : Client \cup {Nobody, Refused}]]
    <3>1. ASSUME NEW c \in Client
          PROVE  client[c] \in
            [stage : {"idle", "open", "waiting", "answering", "answered", "closed"},
             id : 0..Cardinality(Client), answer : Client \cup {Nobody, Refused}]
      <4>1. client[c] \in ClientState
        BY <1>2, Zenon DEF Typed
      <4>2. client[c].id \in 0..Cardinality(Client)
        BY <1>2, <1>3, <4>1, SMTT(30) DEF Clients, ClientState
      <4> QED
        BY <4>1, <4>2, Zenon DEF ClientState
    <3> QED
      BY <1>2, <3>1, Zenon DEF Typed
  <2>4. /\ host.outstanding \in 0..MaxWorkers /\ host.active \subseteq Ids
        /\ host.lastRequest \in 0..Cardinality(Client)
    BY <1>2, <1>3, ControlAssumption, SMTT(30) DEF Budget, Typed, HostState
  <2>5. /\ host.session \in {None, host.generation}
        /\ host.open \in BOOLEAN /\ host.writing \in BOOLEAN
    BY <1>2, Zenon DEF Queued, Typed, HostState
  <2> QED
    BY <1>2, <2>2, <2>3, <2>4, <2>5, Zenon DEF TypeOK, Typed, Writes, Broker
<1>5. WorkersCounted
  BY <1>2, Zenon DEF WorkersCounted, Budget
<1>6. WritesMatchQueue
  <2>1. /\ Cardinality({}) = 0
        /\ \A x : Cardinality({x}) = 1
    BY FS_EmptySet, FS_Singleton, Zenon
  <2>2. host.writing \in BOOLEAN
    BY <1>2, Zenon DEF Typed, HostState
  <2>3. CASE host.writing
    <3>1. \A w \in wire : w.frame = Head(host.queue)
      BY <1>2, <2>3 DEF Writes
    <3>2. Cardinality(wire) + Cardinality(Mine) = 1
      <4>1. \/ (\E x : wire = {x}) /\ Mine = {}
            \/ wire = {} /\ \E x : Mine = {x}
        BY <1>2, <2>3, Zenon DEF Writes
      <4>2. \/ Cardinality(wire) = 1 /\ Cardinality(Mine) = 0
            \/ Cardinality(wire) = 0 /\ Cardinality(Mine) = 1
        BY <2>1, <4>1, Zenon
      <4> QED
        BY <4>2
    <3> QED
      BY <1>2, <2>3, <3>1, <3>2, Zenon DEF Writes, WritesMatchQueue, Mine
  <2>4. CASE ~host.writing
    <3>1. Cardinality(wire) + Cardinality(Mine) = 0
      <4>1. wire = {} /\ Mine = {}
        BY <1>2, <2>4, Zenon DEF Writes
      <4>2. Cardinality(wire) = 0 /\ Cardinality(Mine) = 0
        BY <2>1, <4>1, Zenon
      <4> QED
        BY <4>2
    <3> QED
      BY <1>2, <2>4, <3>1, Zenon DEF Writes, WritesMatchQueue, Mine
  <2> QED
    BY <2>2, <2>3, <2>4, Zenon
<1> QED
  BY <1>4, <1>5, <1>6, Zenon DEF LimitsKept

\* At every moment of every run, whatever the number of clients, of workers, of
\* queued frames and of faults, the channel keeps its limits, `outstanding`
\* counts every running worker, and the write in progress is that of the first
\* queued frame.
THEOREM Limits == Spec => []LimitsKept
BY AlwaysInv, InvLimits, PTL

\* A call that a client waits for, while both ends are in the same session, is
\* always somewhere: its request is on the way, a worker has it, or its response
\* is on the way.
THEOREM CallsRemembered == Spec => []NoCallForgotten
<1>1. Inv => NoCallForgotten
  BY DEF Inv, Remembered, NoCallForgotten, Answering, Elems
<1> QED
  BY <1>1, AlwaysInv, PTL

-----------------------------------------------------------------------------
(* The channel implements RemoteCalls *)

\* The channel implements RemoteCalls: a call is executed at most once, an answer
\* is the outcome of the caller's own execution although identifiers repeat from
\* session to session and workers outlive them, and a refused call is never
\* executed.
THEOREM Implements == Spec => ImplementsCalls
<1>1. Init => Calls!Init
  <2>1. Init => \A c \in Client : CallOf(c) = "idle"
    BY CallCases DEF Init
  <2> QED
    BY <2>1, Zenon DEF Init, Calls!Init
<1>2. Inv /\ [Next]_vars => [Calls!Next]_(Calls!vars)
  <2>1. SUFFICES ASSUME Inv, [Next]_vars PROVE [Calls!Next]_(Calls!vars)
    OBVIOUS
  <2>2. CASE UNCHANGED <<client, served>>
    <3>1. UNCHANGED [b \in Client |-> CallOf(b)]
      BY <2>2, Zenon DEF CallOf
    <3> QED
      BY <2>2, <3>1, Zenon DEF Calls!vars
  <2>3. CASE Next
    <3>1. HostStep \/ GuestStep \/ Sends \/ CompletesOld \/ CompletesNext
      BY <2>1, <2>3, Room, StepKinds, Zenon DEF Inv
    <3>2. Sends \/ CompletesOld \/ CompletesNext => UNCHANGED <<client, served>>
      BY Zenon DEF Sends, CompletesOld, CompletesNext, guestVars
    <3> QED
      BY <2>1, <2>2, <3>1, <3>2, CallsHost, CallsGuest, Zenon DEF Inv
  <2> QED
    BY <2>1, <2>2, <2>3, Zenon DEF vars, guestVars, hostVars
<1> QED
  BY <1>1, <1>2, AlwaysInv, PTL DEF Spec, ImplementsCalls, Calls!Spec
=============================================================================
