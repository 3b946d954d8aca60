------------------------ MODULE ChannelCalls_proofs -------------------------
(***************************************************************************)
(* Sessions, identifiers and calls of the control channel: what every kind of *)
(* step keeps, and that it is a step of RemoteCalls.                       *)
(***************************************************************************)
EXTENDS ChannelSteps_proofs

-----------------------------------------------------------------------------
(* Sessions *)

\* An empty sequence, and one with a single element.
LEMMA ElemsSmall == Elems(<<>>) = {} /\ \A x : Elems(<<x>>) = {x}
<1>1. Elems(<<>>) = {}
  BY DEF Elems
<1>2. ASSUME NEW x PROVE Elems(<<x>>) = {x}
  <2>1. DOMAIN <<x>> = {1} /\ <<x>>[1] = x
    OBVIOUS
  <2> QED
    BY DEF Elems
<1> QED
  BY <1>1, <1>2, Zenon

\* The engine adds no request, and to the guest's frames only resets.
LEMMA HostElems ==
  ASSUME Typed, HostStep
  PROVE  /\ \A f \in Elems(toHost') : f.type = "request" => f \in Elems(toHost)
         /\ \A f \in Elems(toGuest') : f \in Elems(toGuest) \/ f.type = "reset"
         /\ UNCHANGED <<broker, client, pending>>
<1>1. Takes => Elems(toHost') \subseteq Elems(toHost)
  BY ElemsTail, Zenon DEF Takes, Typed
<1>2. ReconnectCloses =>
        \A f \in Elems(toHost') : f \in Elems(toHost) \/ f = Opened
  <2>1. Elems(<<Opened>> \o <<>>) = {Opened} \cup Elems(<<>>)
    <3>1. <<>> \in Seq(PortInput)
      OBVIOUS
    <3> QED
      BY <3>1, ElemsCons, FrameTypes, Zenon
  <2>2. Elems(<<Opened>> \o toHost) = {Opened} \cup Elems(toHost)
    BY ElemsCons, FrameTypes, Zenon DEF Typed
  <2> QED
    BY <2>1, <2>2, ElemsSmall, Zenon DEF ReconnectCloses
<1>3. Opened.type = "opened" /\ Reset.type = "reset"
  BY Zenon DEF Opened, Reset
<1>4. Closes => \A f \in Elems(toGuest') : f \in Elems(toGuest) \/ f.type = "reset"
  <2>1. Elems(Append(toGuest, Reset)) = Elems(toGuest) \cup {Reset}
    BY ElemsAppend, Zenon DEF Typed
  <2> QED
    BY <1>3, <2>1, Zenon DEF Closes
<1>5. \A f \in Elems(toHost') : f.type = "request" => f \in Elems(toHost)
  BY <1>1, <1>2, <1>3, Zenon
  DEF HostStep, TakeCloses, TakeHello, TakeRefused, TakeStarted, Expected, EndCloses,
     EndReplies, EndQuiet, WriteCloses
<1>6. \A f \in Elems(toGuest') : f \in Elems(toGuest) \/ f.type = "reset"
  BY <1>4, Zenon
  DEF HostStep, TakeCloses, TakeHello, TakeRefused, TakeStarted, Queues, Expected,
     EndCloses, EndReplies, EndQuiet, WriteCloses, ReconnectCloses
<1> QED
  BY <1>5, <1>6, Zenon DEF HostStep, guestVars

\* The broker adds nothing to what the guest receives, and to the requests
\* only the one of a client that asks.
LEMMA GuestElems ==
  ASSUME Typed, GuestStep
  PROVE  /\ Elems(toGuest') \subseteq Elems(toGuest)
         /\ \A f \in Elems(broker'.outgoing) \cup Elems(toHost') :
              f.type = "request" =>
                \/ f \in Elems(broker.outgoing) \cup Elems(toHost)
                \/ \E c \in Client :
                     /\ GuestAsks(c) /\ f \in Elems(broker'.outgoing)
                     /\ f = Request(broker.session, broker.counter + 1, c)
         /\ UNCHANGED <<host, wire, completions, workers, served>>
<1>1. /\ toGuest \in Seq(PortOutput) /\ toHost \in Seq(PortInput)
      /\ broker.outgoing \in Seq(GuestFrame)
  BY Zenon DEF Typed, BrokerState
<1>2. toGuest # <<>> => Elems(Tail(toGuest)) \subseteq Elems(toGuest)
  BY <1>1, ElemsTail, Zenon
<1>3. Elems(toGuest') \subseteq Elems(toGuest)
  BY <1>2, SuffixElems, Zenon DEF GuestStep, GuestStarts, GuestDies, GuestWelcomed,
       GuestIgnores, GuestAnswers, GuestTakes, GuestWrites, GuestMoves, GuestAsks
<1>4. Opened.type = "opened" /\ Closing.type = "closed"
  BY Zenon DEF Opened, Closing
<1>5. \A e : Elems(Append(toHost, e)) = Elems(toHost) \cup {e}
  BY <1>1, ElemsAppend, Zenon
<1>6. broker.outgoing # <<>> =>
        Elems(broker.outgoing) = {Head(broker.outgoing)} \cup Elems(Tail(broker.outgoing))
  BY <1>1, ElemsTail, Zenon
<1> DEFINE Old(f) == f \in Elems(broker.outgoing) \cup Elems(toHost)
<1>7. ASSUME NEW f \in Elems(broker'.outgoing) \cup Elems(toHost'),
             f.type = "request", ~Old(f)
      PROVE  \E c \in Client :
               /\ GuestAsks(c) /\ f \in Elems(broker'.outgoing)
               /\ f = Request(broker.session, broker.counter + 1, c)
  <2>1. CASE GuestStarts
    <3>1. PICK g \in HelloFrame : broker'.outgoing = <<g>>
      BY <2>1, Zenon DEF GuestStarts
    <3>2. g.type = "hello"
      BY Zenon DEF HelloFrame
    <3> QED
      BY <1>4, <1>5, <1>7, <2>1, <3>1, <3>2, ElemsSmall DEF GuestStarts
  <2>2. CASE GuestDies
    BY <1>4, <1>5, <1>7, <2>2, ElemsSmall DEF GuestDies
  <2>3. CASE GuestWelcomed \/ GuestIgnores \/ GuestAnswers
    BY <1>7, <2>3, Zenon DEF GuestWelcomed, GuestIgnores, GuestAnswers, GuestTakes
  <2>4. CASE GuestWrites
    BY <1>5, <1>6, <1>7, <2>4, Zenon DEF GuestWrites
  <2>5. ASSUME NEW c \in Client, GuestMoves(c)
        PROVE  FALSE
    BY <1>7, <2>5, Zenon DEF GuestMoves
  <2>6. ASSUME NEW c \in Client, GuestAsks(c)
        PROVE  /\ f \in Elems(broker'.outgoing)
               /\ f = Request(broker.session, broker.counter + 1, c)
    <3>1. Elems(broker'.outgoing) = Elems(broker.outgoing) \cup
            {Request(broker.session, broker.counter + 1, c)}
      BY <1>1, <2>6, ElemsAppend DEF GuestAsks
    <3> QED
      BY <1>7, <2>6, <3>1, Zenon DEF GuestAsks
  <2> QED
    BY <2>1, <2>2, <2>3, <2>4, <2>5, <2>6, Zenon DEF GuestStep
<1> QED
  BY <1>3, <1>7, Zenon DEF GuestStep, hostVars

\* What a typed sequence holds is typed.
LEMMA ElemsTyped ==
  ASSUME NEW S, NEW q \in Seq(S)
  PROVE  Elems(q) \subseteq S
BY DEF Elems

\* The fields of the frames in the system.
LEMMA FrameFields ==
  ASSUME Typed
  PROVE  /\ \A f \in Elems(toGuest) \cup Elems(host.queue) :
              /\ f.type \in {"welcome", "response"} => f.session \in Nat
              /\ f.type = "response" =>
                   f.id \in Ids /\ f.payload \in Client \cup {Refused}
         /\ \A f \in Elems(broker.outgoing) \cup Elems(toHost) :
              f.type = "request" =>
                f.session \in Nat /\ f.id \in Ids /\ f.payload \in Client
         /\ \A w \in workers :
              w.generation \in Nat /\ w.id \in Ids /\ w.call \in Client
         /\ \A d \in completions : d.generation \in Nat
<1>1. Elems(toGuest) \subseteq PortOutput /\ Elems(toHost) \subseteq PortInput
  BY ElemsTyped, Zenon DEF Typed
<1>2. Elems(broker.outgoing) \subseteq PortInput /\ Elems(host.queue) \subseteq PortOutput
  BY ElemsTyped, FrameTypes, Zenon DEF Typed, BrokerState, HostState
<1>3. \A f \in PortInput : f.type = "request" =>
        f.session \in Nat /\ f.id \in Ids /\ f.payload \in Client
  BY Zenon DEF PortInput, GuestFrame, HelloFrame, RequestFrame, EventFrame
<1>4. \A f \in PortOutput :
        /\ f.type \in {"welcome", "response"} => f.session \in Nat
        /\ f.type = "response" => f.id \in Ids /\ f.payload \in Client \cup {Refused}
  BY Zenon DEF PortOutput, HostFrame, WelcomeFrame, ResponseFrame, ResetFrame
<1>5. /\ \A w \in workers : w.generation \in Nat /\ w.id \in Ids /\ w.call \in Client
      /\ \A d \in completions : d.generation \in Nat
  BY Zenon DEF Typed
<1> QED
  BY <1>1, <1>2, <1>3, <1>4, <1>5, Zenon

\* The engine's step leaves the work alone, starts a worker or ends one.
LEMMA HostWork ==
  ASSUME HostStep
  PROVE  SameWork \/ TakeStarted \/ \E w \in workers : Ends(w)
BY Zenon
DEF HostStep, TakeCloses, TakeHello, TakeRefused, EndCloses, EndReplies, EndQuiet,
   WriteCloses, ReconnectCloses

\* It closes the engine, queues a frame, or leaves both queue and generation.
LEMMA HostQueue ==
  ASSUME HostStep
  PROVE  \/ Closes
         \/ \E f : Queues(f)
         \/ /\ host'.generation = host.generation /\ host'.session = host.session
            /\ host'.queue = host.queue /\ host'.writing = host.writing
            /\ UNCHANGED <<wire, completions, toGuest>>
BY Zenon
DEF HostStep, TakeCloses, TakeHello, TakeRefused, TakeStarted, EndCloses, EndReplies,
   EndQuiet, WriteCloses, ReconnectCloses

\* The queue holds frames of the session, a welcome first.
LEMMA QueuedNext ==
  ASSUME Typed, Writes, Queued,
         HostStep \/ GuestStep \/ Sends \/ CompletesOld \/ CompletesNext
  PROVE  Queued'
<1>1. /\ host.generation \in Nat /\ host.queue \in Seq(HostFrame)
      /\ Len(host.queue) \in Nat /\ DOMAIN host.queue = 1..Len(host.queue)
  BY DEF Typed, HostState
<1>2. ASSUME Closes PROVE Queued'
  BY <1>1, <1>2, ElemsSmall DEF Closes, Queued
<1>3. ASSUME NEW f \in HostFrame, Queues(f), f.session = host.generation,
             f.type = "response" \/ host.queue = <<>>
      PROVE  Queued'
  <2>1. /\ Elems(host'.queue) = Elems(host.queue) \cup {f}
        /\ DOMAIN host'.queue = 1..(Len(host.queue) + 1)
        /\ \A k \in DOMAIN host.queue : host'.queue[k] = host.queue[k]
        /\ host'.queue[Len(host.queue) + 1] = f
    BY <1>1, <1>3, ElemsAppend DEF Queues
  <2>2. ASSUME NEW k \in DOMAIN host'.queue, k > 1
        PROVE  host'.queue[k].type = "response"
    <3>1. CASE k \in DOMAIN host.queue
      BY <2>1, <2>2, <3>1, Zenon DEF Queued
    <3>2. CASE k \notin DOMAIN host.queue
      <4>1. k = Len(host.queue) + 1 /\ Len(host.queue) # 0
        BY <1>1, <2>1, <2>2, <3>2
      <4>2. host.queue # <<>>
        BY <4>1
      <4> QED
        BY <1>3, <2>1, <4>1
    <3> QED
      BY <3>1, <3>2, Zenon
  <2>3. host'.generation = host.generation /\ host'.session = host.generation
    BY <1>3, Zenon DEF Queues
  <2> QED
    BY <1>3, <2>1, <2>2, <2>3 DEF Queued, None
<1>4. CASE HostStep
  <2>1. CASE TakeHello
    <3>1. Welcome(Head(toHost).nonce, host.generation) \in HostFrame
      BY <2>1, QueuedFrames, Zenon
    <3>2. Welcome(Head(toHost).nonce, host.generation).session = host.generation
      BY Zenon DEF Welcome
    <3>3. host.queue = <<>>
      BY <2>1, Zenon DEF TakeHello, Queued
    <3> QED
      BY <1>3, <2>1, <3>1, <3>2, <3>3, Zenon DEF TakeHello
  <2>2. CASE TakeRefused
    <3> DEFINE f == Response(host.generation, Head(toHost).id, Refused)
    <3>1. f \in HostFrame /\ f.session = host.generation /\ f.type = "response"
      BY <2>2, QueuedFrames, Zenon DEF Response
    <3> QED
      BY <1>3, <2>2, <3>1, Zenon DEF TakeRefused
  <2>3. ASSUME NEW w \in workers, EndReplies(w)
        PROVE  Queued'
    <3> DEFINE f == Response(host.generation, w.id, w.call)
    <3>1. f \in HostFrame /\ f.session = host.generation /\ f.type = "response"
      BY QueuedFrames, Zenon DEF Response
    <3> QED
      BY <1>3, <2>3, <3>1, Zenon DEF EndReplies
  <2>4. ASSUME TakeStarted \/ \E w \in workers : EndQuiet(w)
        PROVE  Queued'
    BY <2>4, Zenon DEF TakeStarted, EndQuiet, Queued
  <2> QED
    BY <1>2, <1>4, <2>1, <2>2, <2>3, <2>4, Zenon
    DEF HostStep, TakeCloses, EndCloses, WriteCloses, ReconnectCloses
<1>5. CASE GuestStep \/ Sends \/ CompletesOld
  BY <1>5, Zenon DEF GuestStep, hostVars, Sends, CompletesOld, Queued
<1>6. CASE CompletesNext
  <2>1. /\ Elems(Tail(host.queue)) \subseteq Elems(host.queue)
        /\ DOMAIN Tail(host.queue) = 1..(Len(host.queue) - 1)
        /\ \A k \in DOMAIN Tail(host.queue) :
             Tail(host.queue)[k] = host.queue[k + 1] /\ k + 1 \in DOMAIN host.queue
    BY <1>1, <1>6, ElemsTail, SMTT(30) DEF CompletesNext
  <2>2. \A k \in DOMAIN host'.queue : host'.queue[k].type = "response"
    BY <1>6, <2>1 DEF CompletesNext, Queued
  <2> QED
    BY <1>6, <2>1 DEF CompletesNext, Queued
<1> QED
  BY <1>4, <1>5, <1>6, Zenon

\* No number of a generation is used before it is drawn.
LEMMA AgesNext ==
  ASSUME Typed, Writes, Queued, Ages,
         HostStep \/ GuestStep \/ Sends \/ CompletesOld \/ CompletesNext
  PROVE  Ages'
<1>1. /\ host.generation \in Nat /\ broker.session \in Nat
      /\ host.queue \in Seq(HostFrame)
      /\ \A f \in Elems(toGuest) : f.type \in {"welcome", "response"} => f.session \in Nat
      /\ \A f \in Elems(broker.outgoing) \cup Elems(toHost) :
           f.type = "request" => f.session \in Nat
      /\ \A w \in workers : w.generation \in Nat
      /\ \A d \in completions : d.generation \in Nat
  BY FrameFields, Zenon DEF Typed, HostState, BrokerState
<1>2. \A w \in wire : w.generation = host.generation
  BY DEF Writes
<1>3. CASE HostStep
  <2>1. host'.generation \in {host.generation, host.generation + 1}
    BY <1>3, HostQueue, Zenon DEF Queues, Closes
  <2>2. \A w \in workers' : w \in workers \/ w.generation = host.generation
    <3>1. TakeStarted => \A w \in workers' : w \in workers \/ w.generation = host.generation
      BY DEF TakeStarted
    <3> QED
      BY <1>3, <3>1, HostWork, Zenon DEF SameWork, Ends
  <2>3. \A d \in completions' : d \in completions \/ d.generation = host.generation
    <3>1. Closes => \A d \in completions' : d \in completions \/ d.generation = host.generation
      BY <1>2 DEF Closes, Cancelled
    <3> QED
      BY <1>3, <3>1, HostQueue, Zenon DEF Queues
  <2>4. host.generation <= host'.generation /\ host'.generation \in Nat
    BY <1>1, <2>1
  <2>5. /\ \A f \in Elems(toHost') : f.type = "request" => f \in Elems(toHost)
        /\ \A f \in Elems(toGuest') : f \in Elems(toGuest) \/ f.type = "reset"
        /\ UNCHANGED <<broker, client, pending>>
    BY <1>3, HostElems, Zenon
  <2> QED
    BY <1>1, <2>2, <2>3, <2>4, <2>5 DEF Ages
<1>4. CASE GuestStep
  <2>1. /\ Elems(toGuest') \subseteq Elems(toGuest)
        /\ \A f \in Elems(broker'.outgoing) \cup Elems(toHost') :
              f.type = "request" =>
                \/ f \in Elems(broker.outgoing) \cup Elems(toHost)
                \/ f.session = broker.session
        /\ UNCHANGED <<host, wire, completions, workers, served>>
    BY <1>4, GuestElems DEF Request
  <2>2. \/ broker'.session \in {None, broker.session}
        \/ GuestWelcomed
    BY <1>4, Zenon DEF GuestStep, GuestStarts, GuestDies, GuestIgnores, GuestAnswers,
       GuestTakes, GuestWrites, GuestMoves, GuestAsks
  <2>3. GuestWelcomed => broker'.session <= host.generation
    <3>1. toGuest # <<>> => Head(toGuest) \in Elems(toGuest)
      BY ElemsTail, Zenon DEF Typed
    <3> QED
      BY <3>1, Zenon DEF GuestWelcomed, Ages
  <2> QED
    BY <1>1, <2>1, <2>2, <2>3 DEF Ages, None
<1>5. CASE Sends
  <2>1. PICK w \in wire :
          /\ toGuest' = Append(toGuest, w.frame)
          /\ completions' = completions \cup
               {[generation |-> w.generation, success |-> TRUE]}
    BY <1>5, Zenon DEF Sends
  <2>2. w.frame = Head(host.queue) /\ host.queue # <<>>
    BY DEF Writes
  <2>3. w.frame.session = host.generation
    BY <1>1, <2>2, ElemsTail, Zenon DEF Queued
  <2>4. Elems(toGuest') = Elems(toGuest) \cup {w.frame}
    BY <2>1, ElemsAppend DEF Typed
  <2>5. UNCHANGED <<broker, toHost, host, workers>>
    BY <1>5, Zenon DEF Sends, guestVars
  <2> QED
    BY <1>1, <1>2, <2>1, <2>3, <2>4, <2>5 DEF Ages
<1>6. CASE CompletesOld \/ CompletesNext
  BY <1>6, Zenon DEF CompletesOld, CompletesNext, Ages, guestVars
<1> QED
  BY <1>3, <1>4, <1>5, <1>6, Zenon

\* The engine's steps use no session that was only offered.
LEMMA UnusedHost ==
  ASSUME Typed, Queued, HostStep, NEW s, Unused(s)
  PROVE  Unused(s)' /\ (NotWelcomed(s) => NotWelcomed(s)')
<1>1. /\ \A f \in Elems(toHost') : f.type = "request" => f \in Elems(toHost)
      /\ \A f \in Elems(toGuest') : f \in Elems(toGuest) \/ f.type = "reset"
      /\ UNCHANGED <<broker, client, pending>>
  BY HostElems, Zenon
<1>2. ASSUME Expected PROVE s # host.generation
  <2>1. Head(toHost) \in Elems(toHost) /\ Head(toHost).type = "request"
    BY <1>2, ElemsTail DEF Expected, Takes, Typed, RequestFrame
  <2> QED
    BY <1>2, <2>1, Zenon DEF Unused, Expected, Queued
<1>3. \A w \in workers' : w.generation # s
  <2>1. TakeStarted => \A w \in workers' : w \in workers \/ w.generation = host.generation
    BY DEF TakeStarted
  <2>2. TakeStarted => Expected
    BY Zenon DEF TakeStarted
  <2> QED
    BY <1>2, <2>1, <2>2, HostWork, Zenon DEF SameWork, Ends, Unused
<1>4. \A f \in Elems(host'.queue) : f.type = "response" => f.session # s
  <2>1. host.queue \in Seq(HostFrame)
    BY Zenon DEF Typed, HostState
  <2>2. \A f : Queues(f) => Elems(host'.queue) = Elems(host.queue) \cup {f}
    BY <2>1, ElemsAppend DEF Queues
  <2>3. ASSUME NEW f, Queues(f), f.type = "response" => f.session # s
        PROVE  \A g \in Elems(host'.queue) : g.type = "response" => g.session # s
    BY <2>2, <2>3 DEF Unused
  <2>4. CASE Closes
    BY <2>4, ElemsSmall, Zenon DEF Closes
  <2>5. CASE TakeHello
    <3>1. Welcome(Head(toHost).nonce, host.generation).type = "welcome"
      BY Zenon DEF Welcome
    <3> QED
      BY <2>3, <2>5, <3>1, Zenon DEF TakeHello
  <2>6. CASE TakeRefused
    <3>1. Response(host.generation, Head(toHost).id, Refused).session = host.generation
      BY Zenon DEF Response
    <3> QED
      BY <1>2, <2>3, <2>6, <3>1, Zenon DEF TakeRefused
  <2>7. ASSUME NEW w \in workers, EndReplies(w)
        PROVE  \A g \in Elems(host'.queue) : g.type = "response" => g.session # s
    <3>1. Response(host.generation, w.id, w.call).session = host.generation
      BY Zenon DEF Response
    <3>2. host.generation # s
      BY <2>7, Zenon DEF EndReplies, Unused
    <3> QED
      BY <2>3, <2>7, <3>1, <3>2, Zenon DEF EndReplies
  <2>8. ASSUME host'.queue = host.queue
        PROVE  \A g \in Elems(host'.queue) : g.type = "response" => g.session # s
    BY <2>8, Zenon DEF Unused
  <2> QED
    BY <2>4, <2>5, <2>6, <2>7, <2>8, Zenon
    DEF HostStep, TakeCloses, TakeStarted, EndCloses, EndQuiet, WriteCloses,
       ReconnectCloses
<1> QED
  BY <1>1, <1>3, <1>4, Zenon DEF Unused, NotWelcomed

\* The broker's steps use no session but the one it accepts.
LEMMA UnusedGuest ==
  ASSUME Typed, GuestStep, NEW s, Unused(s), broker'.session # s
  PROVE  Unused(s)' /\ (NotWelcomed(s) => NotWelcomed(s)')
<1>1. /\ Elems(toGuest') \subseteq Elems(toGuest)
      /\ \A f \in Elems(broker'.outgoing) \cup Elems(toHost') :
            f.type = "request" =>
              \/ f \in Elems(broker.outgoing) \cup Elems(toHost)
              \/ f.session = broker.session
      /\ UNCHANGED <<host, wire, completions, workers, served>>
  BY GuestElems DEF Request
<1> QED
  BY <1>1, Zenon DEF Unused, NotWelcomed

\* The guest only drops the beginning of what it receives.
LEMMA GuestSuffix ==
  ASSUME Typed, GuestStep
  PROVE  Suffix(toGuest', toGuest)
<1>1. Suffix(toGuest, toGuest) /\ (toGuest # <<>> => Suffix(Tail(toGuest), toGuest))
  BY SuffixTail, Zenon DEF Typed
<1> QED
  BY <1>1, Zenon DEF GuestStep, GuestStarts, GuestDies, GuestWelcomed,
       GuestIgnores, GuestAnswers, GuestTakes, GuestWrites, GuestMoves, GuestAsks

\* A session is offered once, and belongs to nobody before.
LEMMA OffersNext ==
  ASSUME Typed, Writes, Queued, Ages, Offers,
         HostStep \/ GuestStep \/ Sends \/ CompletesOld \/ CompletesNext
  PROVE  Offers'
<1>1. /\ host.generation \in Nat /\ host.generation > 0 /\ broker.session \in Nat
      /\ host.queue \in Seq(HostFrame) /\ toGuest \in Seq(PortOutput)
      /\ DOMAIN toGuest = 1..Len(toGuest) /\ Len(toGuest) \in Nat
      /\ host.writing \in BOOLEAN
  BY DEF Typed, HostState, BrokerState, Queued
<1>0. PICK n \in Nat : n = host.generation
  BY <1>1, Zenon
<1> DEFINE Apart(q) == \A j, k \in DOMAIN q :
       (/\ q[j].type = "welcome" /\ q[k].type = "welcome"
        /\ q[j].session = q[k].session) => j = k
<1>2. Apart(toGuest)
  BY Zenon DEF Offers
<1>3. ASSUME NEW e, Apart(toGuest), e.type = "welcome" => NotWelcomed(e.session)
      PROVE  Apart(Append(toGuest, e))
  <2>1. /\ DOMAIN Append(toGuest, e) = 1..(Len(toGuest) + 1)
        /\ \A k \in DOMAIN toGuest : Append(toGuest, e)[k] = toGuest[k]
        /\ Append(toGuest, e)[Len(toGuest) + 1] = e
    OBVIOUS
  <2>2. \A k \in DOMAIN toGuest : toGuest[k] \in Elems(toGuest)
    BY Zenon DEF Elems
  <2>3. \A k \in DOMAIN Append(toGuest, e) : k \in DOMAIN toGuest \/ k = Len(toGuest) + 1
    OBVIOUS
  <2> QED
    BY <1>3, <2>2 DEF NotWelcomed
<1>4. CASE HostStep
  <2>1. /\ \A f \in Elems(toGuest') : f \in Elems(toGuest) \/ f.type = "reset"
        /\ UNCHANGED <<broker, client, pending>>
    BY <1>4, HostElems, Zenon
  <2>2. ASSUME Closes
        PROVE  Unused(host.generation)' /\ NotWelcomed(host.generation)'
    <3>1. n + 1 = host'.generation
      BY <1>0, <2>2, Zenon DEF Closes
    <3>2. Unused(n + 1) /\ NotWelcomed(n + 1)
      <4>1. \A m \in Nat : m <= host.generation => m # n + 1
        BY <1>0
      <4>2. \A f \in Elems(host.queue) : f.session # n + 1
        BY <1>0 DEF Queued
      <4> QED
        BY <4>1, <4>2 DEF Ages, Unused, NotWelcomed
    <3>3. Unused(n + 1)' /\ NotWelcomed(n + 1)'
      BY <1>4, <3>2, UnusedHost, Zenon
    <3> QED
      BY <3>1, <3>3, Zenon DEF Unused, NotWelcomed
  <2>3. ASSUME host'.session = None
        PROVE  Unused(host.generation)' /\ NotWelcomed(host.generation)'
    <3>1. CASE ~Closes
      <4>1. host'.generation = host.generation /\ host.session = None
        <5>1. ASSUME NEW f, Queues(f) PROVE FALSE
          BY <1>1, <2>3, <5>1 DEF Queues, None
        <5> QED
          BY <1>4, <2>3, <3>1, <5>1, HostQueue, Zenon
      <4>2. Unused(n) /\ NotWelcomed(n)
        BY <1>0, <4>1, Zenon DEF Offers
      <4>3. Unused(n)' /\ NotWelcomed(n)'
        BY <1>4, <4>2, UnusedHost, Zenon
      <4> QED
        BY <1>0, <4>1, <4>3, Zenon DEF Unused, NotWelcomed
    <3> QED
      BY <2>2, <3>1, Zenon
  <2>4. ASSUME wire' # {}, Head(host'.queue).type = "welcome"
        PROVE  Unused(host.generation)' /\ NotWelcomed(host.generation)'
    <3>1. ~Closes
      BY <2>4, Zenon DEF Closes
    <3>2. host'.generation = host.generation
      BY <1>4, <3>1, HostQueue, Zenon DEF Queues
    <3>3. Unused(host.generation) /\ NotWelcomed(host.generation)
      <4>1. CASE TakeHello
        BY <4>1, Zenon DEF TakeHello, Offers
      <4>2. ASSUME NEW f, Queues(f), f.type = "response"
            PROVE  Unused(host.generation) /\ NotWelcomed(host.generation)
        <5>1. host.writing
          <6>1. SUFFICES ASSUME ~host.writing PROVE FALSE
            OBVIOUS
          <6>2. Head(host'.queue) = f
            BY <4>2, <6>1 DEF Queues, Writes
          <6> QED
            BY <2>4, <4>2, <6>2, Zenon
        <5>2. host.queue # <<>> /\ wire # {}
          BY <2>4, <4>2 DEF Queues, Writes
        <5>3. Head(host'.queue) = Head(host.queue)
          BY <4>2, <5>2 DEF Queues
        <5> QED
          BY <2>4, <5>2, <5>3, Zenon DEF Offers
      <4>3. ASSUME TakeRefused \/ \E w \in workers : EndReplies(w)
            PROVE  \E f : Queues(f) /\ f.type = "response"
        <5>1. \A i, c : Response(host.generation, i, c).type = "response"
          BY Zenon DEF Response
        <5> QED
          BY <4>3, <5>1 DEF TakeRefused, EndReplies
      <4>4. ASSUME host'.queue = host.queue, wire' = wire
            PROVE  Unused(host.generation) /\ NotWelcomed(host.generation)
        BY <2>4, <4>4, Zenon DEF Offers
      <4> QED
        BY <1>4, <3>1, <4>1, <4>2, <4>3, <4>4, Zenon
        DEF HostStep, TakeCloses, TakeStarted, EndCloses, EndQuiet, WriteCloses,
           ReconnectCloses
    <3>4. Unused(n) /\ NotWelcomed(n)
      BY <1>0, <3>3, Zenon
    <3>5. Unused(n)' /\ NotWelcomed(n)'
      BY <1>4, <3>4, UnusedHost, Zenon
    <3> QED
      BY <1>0, <3>2, <3>5, Zenon DEF Unused, NotWelcomed
  <2>5. ASSUME NEW f \in Elems(toGuest'), f.type = "welcome"
        PROVE  f.session > 0 /\ Unused(f.session)'
    <3>1. f \in Elems(toGuest)
      BY <2>1, <2>5, Zenon
    <3>2. f.session > 0 /\ Unused(f.session)
      BY <2>5, <3>1, Zenon DEF Offers
    <3> QED
      BY <1>4, <3>2, UnusedHost, Zenon
  <2>6. Apart(toGuest')
    <3>1. Reset.type # "welcome"
      BY Zenon DEF Reset
    <3>2. Apart(Append(toGuest, Reset))
      BY <1>2, <3>1
    <3>3. toGuest' \in {toGuest, Append(toGuest, Reset)}
      BY <1>4, HostQueue, Zenon DEF Closes, Queues
    <3> QED
      BY <1>2, <3>2, <3>3, Zenon
  <2> QED
    BY <2>3, <2>4, <2>5, <2>6, Zenon DEF Offers
<1>5. CASE GuestStep
  <2>1. UNCHANGED <<host, wire>> /\ Elems(toGuest') \subseteq Elems(toGuest)
    BY <1>5, GuestElems, Zenon
  <2>2. broker'.session \in {None, broker.session} \/ GuestWelcomed
    BY <1>5, Zenon DEF GuestStep, GuestStarts, GuestDies, GuestIgnores, GuestAnswers,
       GuestTakes, GuestWrites, GuestMoves, GuestAsks
  <2>3. GuestWelcomed => /\ Head(toGuest) \in Elems(toGuest)
                         /\ broker'.session = Head(toGuest).session
                         /\ Head(toGuest).type = "welcome"
    BY <1>1, ElemsTail, Zenon DEF GuestWelcomed
  <2>4. ASSUME Unused(host.generation), NotWelcomed(host.generation)
        PROVE  Unused(host.generation)' /\ NotWelcomed(host.generation)'
    <3>1. broker'.session # host.generation
      BY <1>1, <2>2, <2>3, <2>4 DEF Unused, NotWelcomed, None
    <3>2. Unused(n) /\ NotWelcomed(n) /\ broker'.session # n
      BY <1>0, <2>4, <3>1, Zenon
    <3>3. Unused(n)' /\ NotWelcomed(n)'
      BY <1>5, <3>2, UnusedGuest, Zenon
    <3> QED
      BY <1>0, <2>1, <3>3, Zenon DEF Unused, NotWelcomed
  <2>5. ASSUME NEW f \in Elems(toGuest'), f.type = "welcome"
        PROVE  f.session > 0 /\ Unused(f.session)'
    <3>1. f \in Elems(toGuest) /\ f.session > 0 /\ Unused(f.session) /\ f.session \in Nat
      BY <2>1, <2>5, FrameFields, Zenon DEF Offers
    <3>2. broker'.session # f.session
      <4>1. CASE GuestWelcomed
        <5>1. PICK k \in DOMAIN Tail(toGuest) : f = Tail(toGuest)[k]
          BY <4>1, Zenon DEF GuestWelcomed, Elems
        <5>2. /\ 1 \in DOMAIN toGuest /\ Head(toGuest) = toGuest[1]
              /\ Tail(toGuest)[k] = toGuest[k + 1] /\ k + 1 \in DOMAIN toGuest
              /\ k \in Nat /\ k >= 1
          <6>1. /\ 1 \in DOMAIN toGuest /\ Head(toGuest) = toGuest[1]
                /\ Tail(toGuest)[k] = toGuest[k + 1] /\ k + 1 \in DOMAIN toGuest
                /\ DOMAIN Tail(toGuest) = 1..(Len(toGuest) - 1)
            BY <4>1 DEF GuestWelcomed
          <6> QED
            OBVIOUS
        <5>3. k + 1 # 1
          OBVIOUS
        <5> QED
          BY <1>2, <2>3, <2>5, <4>1, <5>1, <5>2
      <4>2. CASE broker'.session \in {None, broker.session}
        BY <3>1, <4>2 DEF Unused, None
      <4> QED
        BY <2>2, <4>1, <4>2, Zenon
    <3> QED
      BY <1>5, <3>1, <3>2, UnusedGuest, Zenon
  <2>6. Apart(toGuest')
    <3>1. PICK m \in Nat : \A k \in DOMAIN toGuest' :
            k \in Nat /\ k + m \in DOMAIN toGuest /\ toGuest'[k] = toGuest[k + m]
      BY <1>5, GuestSuffix, Zenon DEF Suffix
    <3>2. ASSUME NEW j \in DOMAIN toGuest', NEW k \in DOMAIN toGuest',
                 toGuest'[j].type = "welcome", toGuest'[k].type = "welcome",
                 toGuest'[j].session = toGuest'[k].session
          PROVE  j = k
      <4>1. j + m = k + m /\ j \in Nat /\ k \in Nat
        BY <1>2, <3>1, <3>2, Zenon
      <4> QED
        BY <4>1
    <3> QED
      BY <3>2, Zenon
  <2> QED
    BY <2>1, <2>4, <2>5, <2>6, Zenon DEF Offers
<1>6. CASE Sends
  <2>1. PICK w \in wire : toGuest' = Append(toGuest, w.frame) /\ wire' = wire \ {w}
    BY <1>6, Zenon DEF Sends
  <2>2. /\ w.frame = Head(host.queue) /\ host.queue # <<>> /\ wire = {w}
    BY DEF Writes
  <2>3. w.frame \in Elems(host.queue) /\ w.frame.session = host.generation
    BY <1>1, <2>2, ElemsTail, Zenon DEF Queued
  <2>4. Elems(toGuest') = Elems(toGuest) \cup {w.frame}
    BY <1>1, <2>1, ElemsAppend
  <2>5. UNCHANGED <<broker, toHost, host, workers>>
    BY <1>6, Zenon DEF Sends, guestVars
  <2>6. \A s : Unused(s) => Unused(s)'
    BY <2>3, <2>4, <2>5, Zenon DEF Unused
  <2>7. host.session # None /\ wire' = {}
    BY <2>1, <2>2, Zenon DEF Queued
  <2>8. w.frame.type = "welcome" =>
          Unused(host.generation) /\ NotWelcomed(host.generation)
    BY <2>2, Zenon DEF Offers
  <2>9. Apart(toGuest')
    BY <1>2, <1>3, <2>1, <2>3, <2>8, Zenon
  <2>10. \A f \in Elems(toGuest') : f.type = "welcome" =>
           f.session > 0 /\ Unused(f.session)'
    BY <1>1, <2>3, <2>4, <2>6, <2>8, Zenon DEF Offers
  <2> QED
    BY <2>5, <2>7, <2>9, <2>10, Zenon DEF Offers
<1>7. CASE CompletesOld
  BY <1>7, Zenon DEF CompletesOld, Offers, Unused, NotWelcomed, guestVars
<1>8. CASE CompletesNext
  <2>1. /\ host'.queue = Tail(host.queue)
        /\ Elems(Tail(host.queue)) \subseteq Elems(host.queue)
    BY <1>1, <1>8, ElemsTail DEF CompletesNext
  <2>2. UNCHANGED <<broker, toHost, toGuest, workers>>
        /\ host'.generation = host.generation /\ host'.session = host.session
    BY <1>8, Zenon DEF CompletesNext, guestVars
  <2>3. \A s : Unused(s) => Unused(s)'
    BY <2>1, <2>2, Zenon DEF Unused
  <2>4. wire' # {} => Head(host'.queue).type = "response"
    <3>1. ASSUME Tail(host.queue) # <<>>
          PROVE  Head(Tail(host.queue)).type = "response"
      <4>1. /\ Tail(host.queue) \in Seq(HostFrame)
            /\ Head(Tail(host.queue)) = Tail(host.queue)[1]
            /\ 1 \in DOMAIN Tail(host.queue)
        BY <1>1, <1>8, <3>1 DEF CompletesNext
      <4>2. Tail(host.queue)[1] = host.queue[1 + 1] /\ 1 + 1 \in DOMAIN host.queue
        BY <4>1 DEF CompletesNext
      <4>3. 1 + 1 > 1
        OBVIOUS
      <4> QED
        BY <4>2 DEF Queued
    <3> QED
      BY <1>8, <3>1, Zenon DEF CompletesNext
  <2> QED
    BY <2>2, <2>3, <2>4, Zenon DEF Offers, NotWelcomed
<1> QED
  BY <1>4, <1>5, <1>6, <1>7, <1>8, Zenon

-----------------------------------------------------------------------------
(* Port events, counts and workers *)

\* The port's open event always finds the engine closed.
LEMMA EventsNext ==
  ASSUME Typed, Queued, Broker, Events,
         HostStep \/ GuestStep \/ Sends \/ CompletesOld \/ CompletesNext
  PROVE  Events'
<1>1. /\ toHost \in Seq(PortInput) /\ Len(toHost) \in Nat
      /\ DOMAIN toHost = 1..Len(toHost) /\ (toHost = <<>> <=> Len(toHost) = 0)
      /\ broker.running \in BOOLEAN
  BY DEF Typed, BrokerState
<1>2. CASE HostStep
  <2>1. UNCHANGED broker
    BY <1>2, HostElems, Zenon
  <2>2. CASE Takes
    <3> DEFINE q == Tail(toHost)
    <3>1. /\ toHost' = q /\ Len(toHost) > 0 /\ Len(q) = Len(toHost) - 1
          /\ Head(toHost) = toHost[1] /\ DOMAIN q = 1..(Len(toHost) - 1)
          /\ q \in Seq(PortInput)
          /\ \A k \in DOMAIN q : q[k] = toHost[k + 1] /\ k + 1 \in DOMAIN toHost
      BY <1>1, <2>2 DEF Takes
    <3> HIDE DEF q
    <3>2. toHost[1].type = "closed" => host'.session = None
      <4>1. CASE TakeHello \/ Expected
        <5>1. Head(toHost).type # "closed"
          BY <4>1, Zenon DEF TakeHello, Expected, RequestFrame
        <5> QED
          BY <5>1
      <4>2. CASE Closes
        BY <4>2, Zenon DEF Closes
      <4>3. ~(toHost' = toHost)
        <5>1. Len(toHost') = Len(toHost) - 1
          BY <3>1, Zenon
        <5>a. \A n \in Nat : n - 1 # n
          OBVIOUS
        <5>b. Len(toHost) \in Nat
          OBVIOUS
        <5>2. Len(toHost) - 1 # Len(toHost)
          OBVIOUS
        <5> QED
          BY <5>1
      <4> QED
        BY <1>2, <4>1, <4>2, <4>3, Zenon
        DEF HostStep, TakeCloses, TakeRefused, TakeStarted, EndCloses, EndReplies,
           EndQuiet, WriteCloses, ReconnectCloses
    <3>3. ASSUME NEW k \in DOMAIN q, q[k].type = "opened"
          PROVE  IF k = 1 THEN host'.session = None ELSE q[k - 1].type = "closed"
      <4>1. /\ k \in Nat /\ k >= 1 /\ k + 1 \in DOMAIN toHost /\ k + 1 # 1
            /\ (k + 1) - 1 = k /\ toHost[k + 1].type = "opened"
        BY <3>1, <3>3
      <4>2. toHost[k].type = "closed"
        BY <4>1, Zenon DEF Events
      <4>3. k # 1 => k - 1 \in DOMAIN q /\ (k - 1) + 1 = k
        BY <3>1
      <4> QED
        BY <3>1, <3>2, <4>2
    <3>4. ASSUME ~broker.running
          PROVE  IF q = <<>> THEN host'.session = None ELSE q[Len(q)].type = "closed"
      <4>1. toHost[Len(toHost)].type = "closed"
        BY <3>1, <3>4 DEF Events
      <4>2. CASE q = <<>>
        <5>0. Len(q) = 0
          BY <4>2, Zenon
        <5>1. Len(toHost) = 1
          BY <3>1, <5>0
        <5> QED
          BY <3>2, <4>1, <4>2, <5>1, Zenon
      <4>3. CASE q # <<>>
        <5>1. Len(q) \in DOMAIN q /\ Len(q) + 1 = Len(toHost)
          BY <3>1, <4>3
        <5>2. q[Len(q)] = toHost[Len(q) + 1]
          BY <3>1, <5>1, Zenon
        <5> QED
          BY <4>1, <5>1, <5>2
      <4> QED
        BY <4>2, <4>3, Zenon
    <3> QED
      BY <2>1, <3>1, <3>3, <3>4, Zenon DEF Events
  <2>3. CASE ~Takes /\ toHost' = toHost
    <3>1. host.session = None => host'.session = None
      BY <1>2, <2>3, Zenon DEF HostStep, TakeCloses, TakeHello, TakeRefused, TakeStarted, Expected,
         EndCloses, EndReplies, EndQuiet, WriteCloses, ReconnectCloses, Closes
    <3> QED
      BY <2>1, <2>3, <3>1, Zenon DEF Events
  <2>4. CASE ReconnectCloses
    <3>1. host'.session = None
      BY <2>4, Zenon DEF ReconnectCloses, Closes
    <3>2. CASE toHost' = <<>>
      <4>1. DOMAIN toHost' = {}
        BY <3>2
      <4> QED
        BY <3>1, <4>1 DEF Events
    <3>3. ASSUME NEW p \in Seq(PortInput), toHost' = <<Opened>> \o p, broker.running,
                 \A k \in DOMAIN p : p[k].type \in {"hello", "request"}
          PROVE  Events'
      <4>1. \A k \in DOMAIN toHost' : k > 1 => toHost'[k] = p[k - 1] /\ k - 1 \in DOMAIN p
        BY <3>3
      <4>2. DOMAIN toHost' = 1..(Len(p) + 1) /\ Len(p) \in Nat
        BY <3>3
      <4>3. \A k \in DOMAIN toHost' : toHost'[k].type = "opened" => k = 1
        <5>1. \A k \in DOMAIN toHost' : k = 1 \/ k > 1
          OBVIOUS
        <5> QED
          BY <3>3, <4>1
      <4> QED
        BY <2>1, <3>1, <3>3 DEF Events
    <3>4. <<>> \in Seq(PortInput) /\ DOMAIN <<>> = {}
      OBVIOUS
    <3> QED
      BY <1>1, <2>4, <3>2, <3>3, <3>4, Zenon DEF ReconnectCloses
  <2> QED
    BY <1>2, <2>2, <2>3, <2>4, Zenon
    DEF HostStep, TakeCloses, TakeHello, TakeRefused, TakeStarted, Expected, EndCloses,
       EndReplies, EndQuiet, WriteCloses
<1>3. CASE GuestStep
  <2>1. UNCHANGED host
    BY <1>3, GuestElems, Zenon
  <2>2. ASSUME NEW e, toHost' = Append(toHost, e),
               e.type = "opened" => ~broker.running,
               ~broker'.running => e.type = "closed"
        PROVE  Events'
    <3>1. /\ Len(toHost') = Len(toHost) + 1 /\ DOMAIN toHost' = 1..(Len(toHost) + 1)
          /\ \A k \in DOMAIN toHost : toHost'[k] = toHost[k]
          /\ toHost'[Len(toHost) + 1] = e /\ toHost' # <<>>
      BY <2>2
    <3>2. ASSUME NEW k \in DOMAIN toHost', toHost'[k].type = "opened"
          PROVE  IF k = 1 THEN host.session = None ELSE toHost'[k - 1].type = "closed"
      <4>1. CASE k \in DOMAIN toHost
        <5>1. k # 1 => k - 1 \in DOMAIN toHost
          BY <1>1, <4>1
        <5> QED
          BY <3>1, <3>2, <4>1, <5>1, Zenon DEF Events
      <4>2. CASE k = Len(toHost) + 1
        <5>1. ~broker.running
          BY <2>2, <3>2, <4>2
        <5>2. IF toHost = <<>> THEN host.session = None ELSE toHost[Len(toHost)].type = "closed"
          BY <5>1, Zenon DEF Events
        <5>3. k = 1 <=> toHost = <<>>
          BY <4>2
        <5>4. k # 1 => k - 1 = Len(toHost) /\ Len(toHost) \in DOMAIN toHost
          BY <4>2
        <5> QED
          BY <3>1, <5>2, <5>3, <5>4, Zenon
      <4> QED
        BY <1>1, <3>1, <4>1, <4>2
    <3> QED
      BY <2>1, <2>2, <3>2 DEF Events
  <2>3. CASE GuestStarts
    BY <2>2, <2>3, Zenon DEF GuestStarts
  <2>4. CASE GuestDies
    BY <2>2, <2>4, Zenon DEF GuestDies, Closing
  <2>5. CASE GuestWrites
    <3>1. broker.running
      BY <2>5, Zenon DEF GuestWrites, Broker
    <3>2. Head(broker.outgoing).type # "opened"
      <4>1. Head(broker.outgoing) \in GuestFrame
        BY <2>5 DEF GuestWrites, Typed, BrokerState
      <4> QED
        BY <4>1, Zenon DEF GuestFrame, HelloFrame, RequestFrame
    <3> QED
      BY <2>2, <2>5, <3>1, <3>2, Zenon DEF GuestWrites
  <2>6. CASE toHost' = toHost /\ broker'.running = broker.running
    BY <2>1, <2>6, Zenon DEF Events
  <2> QED
    BY <1>3, <2>3, <2>4, <2>5, <2>6, Zenon DEF GuestStep, GuestWelcomed, GuestIgnores,
       GuestAnswers, GuestTakes, GuestMoves, GuestAsks
<1>4. CASE Sends \/ CompletesOld \/ CompletesNext
  BY <1>4, Zenon DEF Sends, CompletesOld, CompletesNext, Events, guestVars
<1> QED
  BY <1>2, <1>3, <1>4, Zenon

-----------------------------------------------------------------------------
(* Calls *)

\* Adding a frame to a sequence without twins.
LEMMA OnceAppend ==
  ASSUME NEW S, NEW q \in Seq(S), Once(q), NEW e,
         e.type = "request" =>
           \A f \in Elems(q) : f.type = "request" => f.payload # e.payload
  PROVE  Once(Append(q, e))
<1>1. /\ DOMAIN Append(q, e) = 1..(Len(q) + 1)
      /\ \A k \in DOMAIN q : Append(q, e)[k] = q[k]
      /\ Append(q, e)[Len(q) + 1] = e
  OBVIOUS
<1>2. \A k \in DOMAIN q : q[k] \in Elems(q)
  BY Zenon DEF Elems
<1>3. \A k \in DOMAIN Append(q, e) : k \in DOMAIN q \/ k = Len(q) + 1
  OBVIOUS
<1> QED
  BY <1>2 DEF Once

\* The tail of such a sequence, and what it does not hold.
LEMMA OnceTail ==
  ASSUME NEW S, NEW q \in Seq(S), Once(q), q # <<>>
  PROVE  /\ Once(Tail(q))
         /\ Head(q).type = "request" =>
              \A f \in Elems(Tail(q)) : f.type = "request" => f.payload # Head(q).payload
<1>1. /\ Head(q) = q[1] /\ 1 \in DOMAIN q
      /\ \A k \in DOMAIN Tail(q) : Tail(q)[k] = q[k + 1] /\ k + 1 \in DOMAIN q
      /\ DOMAIN Tail(q) = 1..(Len(q) - 1) /\ Len(q) \in Nat
  OBVIOUS
<1>2. \A k \in DOMAIN Tail(q) : k \in Nat /\ k + 1 # 1
  OBVIOUS
<1>3. \A j, k \in DOMAIN Tail(q) : j + 1 = k + 1 => j = k
  OBVIOUS
<1>4. Once(Tail(q))
  BY <1>3 DEF Once
<1>5. ASSUME NEW f \in Elems(Tail(q)), f.type = "request", Head(q).type = "request",
             f.payload = Head(q).payload
      PROVE  FALSE
  <2>1. PICK k \in DOMAIN Tail(q) : f = Tail(q)[k]
    BY Zenon DEF Elems
  <2> QED
    BY <1>5, <2>1 DEF Once
<1> QED
  BY <1>4, <1>5, Zenon

\* An event before such a sequence.
LEMMA OnceCons ==
  ASSUME NEW S, NEW q \in Seq(S), Once(q), NEW e \in S, e.type # "request"
  PROVE  Once(<<e>> \o q)
<1> DEFINE r == <<e>> \o q
<1>1. /\ DOMAIN r = 1..(Len(q) + 1) /\ Len(q) \in Nat /\ r[1] = e
      /\ \A k \in DOMAIN r : k > 1 => r[k] = q[k - 1] /\ k - 1 \in DOMAIN q
  OBVIOUS
<1> HIDE DEF r
<1>2. \A k \in DOMAIN r : (k = 1 \/ k > 1) /\ k \in Nat
  OBVIOUS
<1>3. \A j, k \in DOMAIN r : j - 1 = k - 1 => j = k
  BY <1>2
<1>4. Once(r)
  BY <1>1, <1>3 DEF Once
<1> QED
  BY <1>4, Zenon DEF r

\* A client's request is in one place.
LEMMA AskedOnceNext ==
  ASSUME Typed, Clients, AskedOnce,
         HostStep \/ GuestStep \/ Sends \/ CompletesOld \/ CompletesNext
  PROVE  AskedOnce'
<1>1. /\ toHost \in Seq(PortInput) /\ broker.outgoing \in Seq(GuestFrame)
      /\ Once(toHost) /\ Once(broker.outgoing)
  BY Zenon DEF Typed, BrokerState, AskedOnce
<1>2. Opened.type # "request" /\ Closing.type # "request"
  BY Zenon DEF Opened, Closing
<1>3. Once(<<>>) /\ \A x : Once(<<x>>)
  <2>1. ASSUME NEW x PROVE Once(<<x>>)
    <3>1. DOMAIN <<x>> = {1}
      OBVIOUS
    <3> QED
      BY DEF Once
  <2> QED
    BY DEF Once
<1>4. CASE HostStep
  <2>1. /\ \A f \in Elems(toHost') : f.type = "request" => f \in Elems(toHost)
        /\ UNCHANGED broker
    BY <1>4, HostElems, Zenon
  <2>2. Once(toHost')
    <3>1. Takes => Once(toHost')
      BY <1>1, OnceTail, Zenon DEF Takes
    <3>2. ReconnectCloses => Once(toHost')
      <4>1. <<>> \in Seq(PortInput)
        OBVIOUS
      <4>2. Once(<<Opened>> \o <<>>) /\ Once(<<Opened>> \o toHost)
        BY <1>1, <1>2, <1>3, OnceCons, FrameTypes
      <4> QED
        BY <1>3, <4>2, Zenon DEF ReconnectCloses
    <3> QED
      BY <1>1, <1>4, <3>1, <3>2, Zenon
      DEF HostStep, TakeCloses, TakeHello, TakeRefused, TakeStarted, Expected, EndCloses,
         EndReplies, EndQuiet, WriteCloses
  <2> QED
    BY <2>1, <2>2, Zenon DEF AskedOnce
<1>5. CASE GuestStep
  <2>1. \A e : Elems(Append(toHost, e)) = Elems(toHost) \cup {e}
    BY <1>1, ElemsAppend, Zenon
  <2>2. Once(Append(toHost, Opened)) /\ Once(Append(toHost, Closing))
    BY <1>1, <1>2, OnceAppend, Zenon
  <2>3. CASE GuestStarts
    <3>1. PICK f \in HelloFrame : broker'.outgoing = <<f>>
      BY <2>3, Zenon DEF GuestStarts
    <3>2. Elems(broker'.outgoing) = {f} /\ f.type = "hello"
      BY <3>1, ElemsSmall, Zenon DEF HelloFrame
    <3> QED
      BY <1>3, <2>2, <2>3, <3>2, Zenon DEF GuestStarts, AskedOnce
  <2>4. CASE GuestDies
    BY <1>3, <2>2, <2>4, ElemsSmall, Zenon DEF GuestDies, AskedOnce
  <2>5. CASE GuestWrites
    <3> DEFINE h == Head(broker.outgoing)
    <3>1. /\ Elems(broker.outgoing) = {h} \cup Elems(Tail(broker.outgoing))
          /\ Once(Tail(broker.outgoing))
          /\ h.type = "request" => \A f \in Elems(Tail(broker.outgoing)) :
                                     f.type = "request" => f.payload # h.payload
      BY <1>1, <2>5, ElemsTail, OnceTail, Zenon DEF GuestWrites
    <3> HIDE DEF h
    <3>2. Once(Append(toHost, h))
      BY <1>1, <3>1, OnceAppend, Zenon DEF AskedOnce
    <3>3. toHost' = Append(toHost, h) /\ broker'.outgoing = Tail(broker.outgoing)
      BY <2>5, Zenon DEF GuestWrites, h
    <3> QED
      BY <2>1, <3>1, <3>2, <3>3 DEF AskedOnce
  <2>6. ASSUME NEW c \in Client, GuestAsks(c)
        PROVE  AskedOnce'
    <3> DEFINE e == Request(broker.session, broker.counter + 1, c)
    <3>1. e.payload = c /\ e.type = "request"
      BY Zenon DEF Request
    <3>2. ~Asked(c)
      BY <2>6, Zenon DEF GuestAsks, Clients
    <3>3. broker'.outgoing = Append(broker.outgoing, e) /\ UNCHANGED toHost
      BY <2>6, Zenon DEF GuestAsks
    <3> HIDE DEF e
    <3>4. Once(broker'.outgoing)
      BY <1>1, <3>1, <3>2, <3>3, OnceAppend, Zenon DEF Asked
    <3>5. Elems(broker'.outgoing) = Elems(broker.outgoing) \cup {e}
      BY <1>1, <3>3, ElemsAppend
    <3> QED
      BY <3>1, <3>2, <3>3, <3>4, <3>5, Zenon DEF AskedOnce, Asked
  <2>7. CASE toHost' = toHost /\ broker'.outgoing = broker.outgoing
    BY <2>7, Zenon DEF AskedOnce
  <2> QED
    BY <1>5, <2>3, <2>4, <2>5, <2>6, <2>7, Zenon DEF GuestStep, GuestWelcomed, GuestIgnores,
       GuestAnswers, GuestTakes, GuestMoves
<1>6. CASE Sends \/ CompletesOld \/ CompletesNext
  BY <1>6, Zenon DEF Sends, CompletesOld, CompletesNext, AskedOnce, guestVars
<1> QED
  BY <1>4, <1>5, <1>6, Zenon

\* A step of the engine asks nothing, and takes the request it handles.
LEMMA AskedHost ==
  ASSUME Typed, AskedOnce, HostStep
  PROVE  /\ \A c : Asked(c)' => Asked(c)
         /\ Expected => \E c \in Client :
              c = Head(toHost).payload /\ Asked(c) /\ ~Asked(c)'
<1>1. /\ \A f \in Elems(toHost') : f.type = "request" => f \in Elems(toHost)
      /\ UNCHANGED broker
  BY HostElems, Zenon
<1>2. ASSUME Expected
      PROVE  \E c \in Client : c = Head(toHost).payload /\ Asked(c) /\ ~Asked(c)'
  <2>1. PICK c \in Client : c = Head(toHost).payload
    BY <1>2, Zenon DEF Expected, RequestFrame
  <2>2. /\ Head(toHost) \in Elems(toHost) /\ Head(toHost).type = "request"
        /\ toHost \in Seq(PortInput) /\ toHost # <<>> /\ toHost' = Tail(toHost)
    BY <1>2, ElemsTail DEF Expected, Takes, Typed, RequestFrame
  <2>3. \A f \in Elems(Tail(toHost)) : f.type = "request" => f.payload # c
    BY <2>1, <2>2, OnceTail, Zenon DEF AskedOnce
  <2>4. \A f \in Elems(broker.outgoing) : f.type = "request" => f.payload # c
    BY <2>1, <2>2, Zenon DEF AskedOnce
  <2> QED
    BY <1>1, <2>1, <2>2, <2>3, <2>4, Zenon DEF Asked
<1> QED
  BY <1>1, <1>2, Zenon DEF Asked

\* Only the client that asks is asked for by a step of the broker.
LEMMA AskedGuest ==
  ASSUME Typed, GuestStep
  PROVE  \A c \in Client : Asked(c)' => Asked(c) \/ GuestAsks(c)
<1>1. SUFFICES ASSUME NEW c \in Client, Asked(c)', ~Asked(c)
               PROVE  GuestAsks(c)
  OBVIOUS
<1>2. PICK f \in Elems(broker'.outgoing) \cup Elems(toHost') :
        f.type = "request" /\ f.payload = c
  BY <1>1, Zenon DEF Asked
<1>3. f \notin Elems(broker.outgoing) \cup Elems(toHost)
  BY <1>1, <1>2, Zenon DEF Asked
<1>4. PICK b \in Client : GuestAsks(b) /\ f = Request(broker.session, broker.counter + 1, b)
  BY <1>2, <1>3, GuestElems, Zenon
<1> QED
  BY <1>2, <1>4, Zenon DEF Request

\* What clients know of their calls stays consistent with the host: it starts a
\* call only from its request, and ends only what it runs.
LEMMA ClientsHost ==
  ASSUME Typed, AskedOnce, Clients, Working, HostStep
  PROVE  Clients'
<1>1. UNCHANGED <<broker, client, pending>> /\ \A c : Asked(c)' => Asked(c)
  BY HostElems, AskedHost, Zenon
<1>2. served \in [Client -> {"no", "running", "done"}]
  BY Zenon DEF Typed
<1>3. \A c \in Client :
        /\ client[c].stage \in {"idle", "open"} => served'[c] = "no"
        /\ Asked(c)' => served'[c] = "no"
  <2>1. CASE SameWork
    BY <1>1, <2>1, Zenon DEF SameWork, Clients
  <2>2. CASE TakeStarted
    <3>1. PICK b \in Client : b = Head(toHost).payload /\ Asked(b) /\ ~Asked(b)'
      BY <2>2, AskedHost, Zenon DEF TakeStarted
    <3>2. \A c \in Client : c # b => served'[c] = served[c]
      BY <2>2, <3>1 DEF TakeStarted
    <3> QED
      BY <1>1, <3>1, <3>2 DEF Clients
  <2>3. ASSUME NEW w \in workers, Ends(w)
        PROVE  \A c \in Client :
                 /\ client[c].stage \in {"idle", "open"} => served'[c] = "no"
                 /\ Asked(c)' => served'[c] = "no"
    <3>1. served[w.call] = "running" /\ w.call \in Client
      BY FrameFields, Zenon DEF Working
    <3>2. \A c \in Client : c # w.call => served'[c] = served[c]
      BY <2>3 DEF Ends
    <3> QED
      BY <1>1, <3>1, <3>2, Zenon DEF Clients
  <2> QED
    BY <2>1, <2>2, <2>3, HostWork, Zenon
<1> QED
  BY <1>1, <1>3, Zenon DEF Clients

\* It stays so when the broker takes answers, gives identifiers or dies.
LEMMA ClientsGuest ==
  ASSUME Typed, Broker, HasRoom, AskedOnce, Clients, Matched, GuestStep
  PROVE  Clients'
<1>1. UNCHANGED served
  BY GuestElems, Zenon
<1>2. /\ \A c \in Client : Asked(c)' => Asked(c) \/ GuestAsks(c)
      /\ client \in [Client -> ClientState] /\ broker.counter \in Nat
      /\ pending \in [Ids -> Client \cup {Nobody}] /\ Cardinality(Client) \in Nat
  BY AskedGuest, Zenon DEF Typed, BrokerState, HasRoom
<1>3. CASE GuestStarts \/ GuestWelcomed \/ GuestIgnores \/ GuestWrites
  <2>1. UNCHANGED <<client, pending>> /\ \A c \in Client : ~GuestAsks(c)
    <3>1. CASE GuestStarts
      <4>1. broker.session = None
        BY <3>1, Zenon DEF GuestStarts, Broker
      <4> QED
        BY <3>1, Zenon DEF GuestStarts, GuestAsks
    <3>2. CASE GuestWelcomed
      BY <3>2, Zenon DEF GuestWelcomed, GuestAsks
    <3>3. CASE GuestIgnores
      <4>1. broker'.counter # broker.counter + 1
        BY <1>2, <3>3 DEF GuestIgnores, GuestTakes
      <4> QED
        BY <3>3, Zenon DEF GuestIgnores, GuestAsks
    <3>4. CASE GuestWrites
      <4>1. broker'.counter # broker.counter + 1
        BY <1>2, <3>4 DEF GuestWrites
      <4> QED
        BY <3>4, Zenon DEF GuestWrites, GuestAsks
    <3> QED
      BY <1>3, <3>1, <3>2, <3>3, <3>4, Zenon
  <2>2. \A i \in Ids : pending[i] # Nobody => i <= broker'.counter
    <3>1. CASE GuestStarts
      BY <3>1, Zenon DEF GuestStarts, Broker, Clients
    <3> QED
      BY <1>3, <3>1, Zenon
      DEF GuestWelcomed, GuestIgnores, GuestTakes, GuestWrites, Clients
  <2> QED
    BY <1>1, <1>2, <2>1, <2>2, Zenon DEF Clients
<1>4. CASE GuestDies
  <2>1. \A c \in Client : ~GuestAsks(c)
    BY <1>4, Zenon DEF GuestDies, GuestAsks, Broker
  <2>2. \A c \in Client :
          /\ client'[c].id = client[c].id /\ client'[c].answer = client[c].answer
          /\ client'[c].stage \in {client[c].stage, "closed"}
    BY <1>4, Zenon DEF GuestDies
  <2>3. \A i \in Ids : pending'[i] = Nobody
    BY <1>4, Zenon DEF GuestDies
  <2> QED
    BY <1>1, <1>2, <2>1, <2>2, <2>3 DEF Clients
<1>5. CASE GuestAnswers
  <2> DEFINE v == Head(toGuest)
             c == pending[v.id]
  <2>1. /\ v \in Elems(toGuest) /\ v.type = "response" /\ v.id \in Ids
        /\ v.session = broker.session /\ broker.session # None
    BY <1>5, ElemsTail DEF GuestAnswers, GuestTakes, ResponseFrame, Typed
  <2>2. c \in Client /\ c # Nobody
    BY <1>2, <1>5, <2>1, Zenon DEF GuestAnswers
  <2>3. ~Asked(c) /\ v.payload \in {c, Refused} /\ served[c] # "running"
    BY <2>1, <2>2, Zenon DEF Matched, Settled
  <2>4. /\ client'[c].stage = "answering" /\ client'[c].id = client[c].id
        /\ client'[c].answer = v.payload
        /\ \A b \in Client \ {c} : client'[b] = client[b]
        /\ pending' = [pending EXCEPT ![v.id] = Nobody]
        /\ UNCHANGED broker
    BY <1>5, Zenon DEF GuestAnswers, GuestTakes
  <2>5. \A b \in Client : ~GuestAsks(b)
    <3>1. broker'.counter # broker.counter + 1
      BY <1>2, <2>4
    <3> QED
      BY <3>1, Zenon DEF GuestAsks
  <2>6. v.payload # Nobody
    BY <2>2, <2>3, Zenon DEF Nobody, Refused
  <2>7. client[c].id = v.id
    BY <2>1, <2>2, Zenon DEF Clients
  <2> HIDE DEF c, v
  <2>8. \A b \in Client :
       /\ client'[b].id <= Cardinality(Client)
       /\ client'[b].answer \in {Nobody, Refused, b}
       /\ client'[b].stage \in {"idle", "open", "waiting"} => client'[b].answer = Nobody
       /\ client'[b].stage \in {"answering", "answered"} => client'[b].answer # Nobody
       /\ client'[b].stage \in {"idle", "open"} => served'[b] = "no" /\ ~Asked(b)'
       /\ Asked(b)' => served'[b] = "no" /\ client'[b].answer = Nobody
    <3>1. TAKE b \in Client
    <3>2. CASE b = c
      BY <1>2, <2>3, <2>4, <2>5, <2>6, <3>2, Zenon DEF Clients
    <3>3. CASE b # c
      BY <1>1, <1>2, <2>4, <2>5, <3>3 DEF Clients
    <3> QED
      BY <3>2, <3>3, Zenon
  <2>9. ASSUME NEW i \in Ids, pending'[i] # Nobody
        PROVE  /\ client'[pending'[i]].stage = "waiting"
               /\ client'[pending'[i]].id = i /\ i <= broker'.counter
    <3>1. i # v.id /\ pending'[i] = pending[i]
      BY <1>2, <2>4, <2>9, Zenon
    <3>2. pending[i] # c /\ pending[i] \in Client
      BY <1>2, <2>7, <2>9, <3>1 DEF Clients
    <3> QED
      BY <2>4, <2>9, <3>2 DEF Clients
  <2> QED
    BY <2>8, <2>9, Zenon DEF Clients
<1>6. ASSUME NEW c \in Client, GuestMoves(c)
      PROVE  Clients'
  <2>1. \A b \in Client : Asked(b)' => Asked(b)
    BY <1>6, Zenon DEF GuestMoves, Asked
  <2>2. broker'.counter >= broker.counter /\ broker'.counter \in Nat
    BY <1>2, <1>6 DEF GuestMoves
  <2>3. client'[c].id <= Cardinality(Client)
    <3>1. \/ client'[c].id = client[c].id
          \/ client[c].stage = "open" /\ client'[c].id = broker.counter + 1
      BY <1>6, Zenon DEF GuestMoves
    <3> QED
      BY <3>1, Zenon DEF Clients, HasRoom
  <2>4. \A b \in Client \ {c} : client'[b] = client[b]
    BY <1>6, Zenon DEF GuestMoves
  <2>5. /\ client'[c].answer \in {Nobody, Refused, c}
        /\ client'[c].stage \in {"idle", "open", "waiting"} => client'[c].answer = Nobody
        /\ client'[c].stage \in {"answering", "answered"} => client'[c].answer # Nobody
        /\ client'[c].stage \in {"idle", "open"} => served[c] = "no" /\ ~Asked(c)
        /\ Asked(c) => served[c] = "no" /\ client'[c].answer = Nobody
    <3>1. Refused # Nobody
      BY Zenon DEF Refused, Nobody
    <3> QED
      BY <1>6, <3>1 DEF GuestMoves, Clients, Live
  <2>6. ASSUME NEW i \in Ids, pending'[i] # Nobody
        PROVE  /\ client'[pending'[i]].stage = "waiting"
               /\ client'[pending'[i]].id = i /\ i <= broker'.counter
    <3>1. pending'[i] = pending[i] /\ pending[i] # c /\ pending[i] \in Client
      BY <1>2, <1>6, <2>6, Zenon DEF GuestMoves
    <3>2. i <= broker.counter /\ i \in Nat
      BY <2>6, <3>1 DEF Clients, Ids
    <3> QED
      BY <1>2, <2>2, <2>4, <2>6, <3>1, <3>2 DEF Clients
  <2> QED
    BY <1>1, <2>1, <2>3, <2>4, <2>5, <2>6 DEF Clients
<1>7. ASSUME NEW c \in Client, GuestAsks(c)
      PROVE  Clients'
  <2>1. /\ client[c].stage = "open" /\ client'[c].stage = "waiting"
        /\ client'[c].id = broker.counter + 1 /\ client'[c].answer = client[c].answer
        /\ \A b \in Client \ {c} : client'[b] = client[b]
        /\ pending' = [pending EXCEPT ![broker.counter + 1] = c]
        /\ broker'.counter = broker.counter + 1
    BY <1>7, Zenon DEF GuestAsks
  <2>2. \A b \in Client : Asked(b)' => Asked(b) \/ b = c
    <3>1. ASSUME NEW b \in Client, GuestAsks(b) PROVE b = c
      BY <2>1, <3>1, Zenon DEF GuestAsks
    <3> QED
      BY <1>2, <3>1, Zenon
  <2>3. broker.counter + 1 <= Cardinality(Client)
    BY <2>1, Zenon DEF HasRoom
  <2>4. client[c].answer = Nobody /\ served[c] = "no"
    BY <2>1, Zenon DEF Clients
  <2>5. ASSUME NEW i \in Ids, pending'[i] # Nobody
        PROVE  /\ client'[pending'[i]].stage = "waiting"
               /\ client'[pending'[i]].id = i /\ i <= broker'.counter
    <3>1. CASE i = broker.counter + 1
      BY <1>2, <2>1, <3>1
    <3>2. CASE i # broker.counter + 1
      <4>1. pending'[i] = pending[i]
        BY <1>2, <2>1, <3>2, Zenon
      <4>2. /\ client[pending[i]].stage = "waiting" /\ client[pending[i]].id = i
            /\ i <= broker.counter /\ pending[i] \in Client /\ i \in Nat
        BY <1>2, <2>5, <4>1 DEF Clients, Ids
      <4>3. i <= broker.counter + 1
        BY <1>2, <4>2
      <4> QED
        BY <2>1, <4>1, <4>2, <4>3, Zenon
    <3> QED
      BY <3>1, <3>2, Zenon
  <2> QED
    BY <1>1, <2>1, <2>2, <2>3, <2>5 DEF Clients
<1> QED
  BY <1>3, <1>4, <1>5, <1>6, <1>7, Zenon DEF GuestStep

\* The host answers a request under the identifier it came with, and the call
\* is over when the response is queued.
LEMMA MatchedHost ==
  ASSUME Typed, Queued, AskedOnce, Clients, Working, Matched, HostStep
  PROVE  Matched'
<1>1. /\ \A f \in Elems(toHost') : f.type = "request" => f \in Elems(toHost)
      /\ \A f \in Elems(toGuest') : f \in Elems(toGuest) \/ f.type = "reset"
      /\ UNCHANGED <<broker, client, pending>>
      /\ \A c : Asked(c)' => Asked(c)
  BY HostElems, AskedHost, Zenon
<1>2. /\ served \in [Client -> {"no", "running", "done"}]
      /\ pending \in [Ids -> Client \cup {Nobody}]
      /\ host.queue \in Seq(HostFrame)
  BY Zenon DEF Typed, HostState
<1>3. ASSUME Expected
      PROVE  /\ Head(toHost) \in Elems(toHost) /\ Head(toHost).type = "request"
             /\ Head(toHost).session = host.generation
             /\ Head(toHost).id \in Ids /\ Head(toHost).payload \in Client
             /\ Names(host.generation, Head(toHost).id, Head(toHost).payload)
  <2>1. Head(toHost) \in Elems(toHost) /\ Head(toHost).type = "request"
    BY <1>3, ElemsTail DEF Expected, Takes, Typed, RequestFrame
  <2>2. /\ Head(toHost).session = host.generation
        /\ Head(toHost).id \in Ids /\ Head(toHost).payload \in Client
    BY <1>3, Zenon DEF Expected, Queued, RequestFrame
  <2> QED
    BY <2>1, <2>2, Zenon DEF Matched
<1>4. \A c \in Client : ~Asked(c) /\ served[c] # "running" => served'[c] = served[c]
  <2>1. ASSUME TakeStarted
        PROVE  \A c \in Client : ~Asked(c) => served'[c] = served[c]
    <3>1. PICK b \in Client : b = Head(toHost).payload /\ Asked(b)
      BY <2>1, AskedHost, Zenon DEF TakeStarted
    <3> QED
      BY <1>2, <2>1, <3>1, Zenon DEF TakeStarted
  <2>2. ASSUME NEW w \in workers, Ends(w)
        PROVE  \A c \in Client : served[c] # "running" => served'[c] = served[c]
    BY <2>2 DEF Ends, Working
  <2> QED
    BY <2>1, <2>2, HostWork, Zenon DEF SameWork
<1>5. \A f \in Elems(broker'.outgoing) \cup Elems(toHost') :
        f.type = "request" => Names(f.session, f.id, f.payload)'
  BY <1>1, Zenon DEF Matched, Names
<1>6. \A w \in workers' : Names(w.generation, w.id, w.call)'
  <2>1. CASE TakeStarted
    <3> DEFINE r == Head(toHost)
               v == [generation |-> host.generation, id |-> r.id, call |-> r.payload]
    <3>1. /\ v.generation = host.generation /\ v.id = r.id /\ v.call = r.payload
          /\ workers' = workers \cup {v}
      BY <2>1, Zenon DEF TakeStarted
    <3>2. Names(host.generation, r.id, r.payload)
      BY <1>3, <2>1, Zenon DEF TakeStarted
    <3> HIDE DEF r, v
    <3> QED
      BY <1>1, <3>1, <3>2, Zenon DEF Matched, Names
  <2>2. CASE workers' \subseteq workers
    BY <1>1, <2>2, Zenon DEF Matched, Names
  <2> QED
    BY <2>1, <2>2, HostWork, Zenon DEF SameWork, Ends
<1>7. ASSUME NEW f \in Elems(toGuest) \cup Elems(host.queue)
      PROVE  Settled(f)'
  <2>1. SUFFICES ASSUME broker.session # None, f.type = "response",
                        f.session = broker.session
                 PROVE  /\ f.id <= broker.counter
                        /\ \A c \in Client : c = pending[f.id] =>
                             /\ ~Asked(c)'
                             /\ \/ f.payload = c /\ served'[c] = "done"
                                \/ f.payload = Refused /\ served'[c] = "no"
    <3>1. f.type = "response" => (pending[f.id] # Nobody => pending[f.id] \in Client)
      BY <1>2, FrameFields, Zenon
    <3> QED
      BY <1>1, <3>1, Zenon DEF Settled
  <2>2. f.id <= broker.counter /\ f.id \in Ids
    BY <2>1, FrameFields, Zenon DEF Matched, Settled
  <2>3. ASSUME NEW c \in Client, c = pending[f.id]
        PROVE  /\ ~Asked(c)'
               /\ \/ f.payload = c /\ served'[c] = "done"
                  \/ f.payload = Refused /\ served'[c] = "no"
    <3>1. c # Nobody
      BY ControlAssumption, Zenon
    <3>2. /\ ~Asked(c)
          /\ \/ f.payload = c /\ served[c] = "done"
             \/ f.payload = Refused /\ served[c] = "no"
      BY <2>1, <2>3, <3>1, Zenon DEF Matched, Settled
    <3> QED
      BY <1>1, <1>4, <3>2, Zenon
  <2> QED
    BY <2>2, <2>3, Zenon
<1>8. \A f \in Elems(toGuest') : Settled(f)'
  BY <1>1, <1>7, Zenon DEF Settled
<1>9. \A f \in Elems(host'.queue) : Settled(f)'
  <2>1. CASE Closes
    BY <2>1, ElemsSmall, Zenon DEF Closes
  <2>2. CASE host'.queue = host.queue
    BY <1>7, <2>2, Zenon
  <2>3. ASSUME NEW g, Queues(g), Settled(g)'
        PROVE  \A f \in Elems(host'.queue) : Settled(f)'
    <3>1. Elems(host'.queue) = Elems(host.queue) \cup {g}
      BY <1>2, <2>3, ElemsAppend DEF Queues
    <3> QED
      BY <1>7, <2>3, <3>1, Zenon
  <2>4. CASE TakeHello
    <3>1. PICK g : g = Welcome(Head(toHost).nonce, host.generation)
      OBVIOUS
    <3>2. Settled(g)'
      BY <3>1, Zenon DEF Settled, Welcome
    <3> QED
      BY <2>3, <2>4, <3>1, <3>2, Zenon DEF TakeHello
  <2>5. CASE TakeRefused
    <3> DEFINE r == Head(toHost)
    <3>0. PICK g : g = Response(host.generation, r.id, Refused)
      OBVIOUS
    <3>1. /\ g.session = host.generation /\ g.id = r.id /\ g.payload = Refused
          /\ Queues(g) /\ g.type = "response"
      BY <2>5, <3>0, Zenon DEF TakeRefused, Response
    <3>2. PICK c \in Client : c = r.payload /\ Asked(c) /\ ~Asked(c)'
      BY <2>5, AskedHost, Zenon DEF TakeRefused
    <3>3. served'[c] = "no"
      BY <2>5, <3>2, Zenon DEF Clients, TakeRefused, SameWork
    <3>4. Names(host.generation, r.id, c)
      BY <1>3, <2>5, <3>2, Zenon DEF TakeRefused
    <3> HIDE DEF r
    <3>5. Settled(g)'
      BY <1>1, <3>1, <3>2, <3>3, <3>4, Zenon DEF Settled, Names
    <3> QED
      BY <2>3, <3>1, <3>5, Zenon
  <2>6. ASSUME NEW w \in workers, EndReplies(w)
        PROVE  \A f \in Elems(host'.queue) : Settled(f)'
    <3> DEFINE c == w.call
    <3>0. PICK g : g = Response(host.generation, w.id, w.call)
      OBVIOUS
    <3>1. /\ g.session = host.generation /\ g.id = w.id /\ g.payload = c
          /\ Queues(g) /\ c \in Client
      BY <2>6, <3>0, FrameFields, Zenon DEF EndReplies, Response
    <3>2. ~Asked(c)' /\ served'[c] = "done"
      BY <1>1, <1>2, <2>6, <3>1 DEF Clients, Working, EndReplies, Ends
    <3>3. Names(host.generation, w.id, c)
      BY <2>6, Zenon DEF EndReplies, Matched
    <3> HIDE DEF c
    <3>4. Settled(g)'
      BY <1>1, <3>1, <3>2, <3>3, Zenon DEF Settled, Names
    <3> QED
      BY <2>3, <3>1, <3>4, Zenon
  <2> QED
    BY <2>1, <2>2, <2>4, <2>5, <2>6, Zenon
    DEF HostStep, TakeCloses, TakeStarted, EndCloses, EndQuiet, WriteCloses,
       ReconnectCloses
<1> QED
  BY <1>5, <1>6, <1>8, <1>9, Zenon DEF Matched

\* The broker gives a new identifier to every call, and a new session begins
\* without requests, workers or responses.
LEMMA MatchedGuest ==
  ASSUME Typed, Offers, Broker, Clients, Matched, GuestStep
  PROVE  Matched'
<1>1. /\ Elems(toGuest') \subseteq Elems(toGuest)
      /\ \A f \in Elems(broker'.outgoing) \cup Elems(toHost') :
            f.type = "request" =>
              \/ f \in Elems(broker.outgoing) \cup Elems(toHost)
              \/ \E c \in Client :
                   /\ GuestAsks(c)
                   /\ f = Request(broker.session, broker.counter + 1, c)
      /\ UNCHANGED <<host, wire, completions, workers, served>>
      /\ \A c \in Client : Asked(c)' => Asked(c) \/ GuestAsks(c)
  BY GuestElems, AskedGuest, Zenon
<1>2. /\ broker.counter \in Nat /\ broker.session \in Nat
      /\ pending \in [Ids -> Client \cup {Nobody}]
      /\ pending' \in [Ids -> Client \cup {Nobody}]
  BY Zenon DEF Typed, BrokerState, GuestStep
<1>3. CASE broker'.session = None
  BY <1>3, Zenon DEF Matched, Names, Settled
<1>4. CASE GuestWelcomed
  <2> DEFINE s == Head(toGuest).session
  <2>1. s > 0 /\ Unused(s) /\ broker'.session = s
    BY <1>4, ElemsTail DEF GuestWelcomed, Offers, Typed
  <2>2. \A c : ~GuestAsks(c)
    BY <1>4, Zenon DEF GuestWelcomed, GuestAsks
  <2> HIDE DEF s
  <2> QED
    BY <1>1, <2>1, <2>2, Zenon DEF Unused, Matched, Names, Settled
<1>5. ASSUME broker'.session = broker.session, broker'.counter \in Nat,
             broker'.counter >= broker.counter,
             \A i \in Ids : i <= broker.counter => pending'[i] \in {Nobody, pending[i]},
             \A i \in Ids : pending[i] # Nobody => Asked(pending[i]) \/ ~GuestAsks(pending[i])
      PROVE  Matched'
  <2>1. ASSUME NEW s \in Nat, NEW i \in Ids, NEW c \in Client, Names(s, i, c)
        PROVE  Names(s, i, c)'
    <3>1. i \in Nat
      BY DEF Ids
    <3> QED
      BY <1>2, <1>5, <2>1, <3>1 DEF Names
  <2>2. \A w \in workers' : Names(w.generation, w.id, w.call)'
    BY <1>1, <2>1, FrameFields, Zenon DEF Matched
  <2>3. \A f \in Elems(broker.outgoing) \cup Elems(toHost) :
          f.type = "request" => Names(f.session, f.id, f.payload)'
    BY <2>1, FrameFields, Zenon DEF Matched
  <2>4. ASSUME NEW c \in Client, GuestAsks(c),
               NEW f, f = Request(broker.session, broker.counter + 1, c)
        PROVE  Names(f.session, f.id, f.payload)'
    <3>1. /\ f.id = broker.counter + 1 /\ f.payload = c
          /\ broker'.counter = broker.counter + 1
          /\ pending' = [pending EXCEPT ![broker.counter + 1] = c]
          /\ broker.counter + 1 \in Ids
      BY <2>4, Zenon DEF GuestAsks, Request
    <3>2. pending'[f.id] = c /\ f.id <= broker'.counter
      BY <1>2, <3>1
    <3> QED
      BY <3>1, <3>2, Zenon DEF Names
  <2>5. ASSUME NEW f \in Elems(toGuest) \cup Elems(host.queue)
        PROVE  Settled(f)'
    <3>1. SUFFICES ASSUME broker.session # None, f.type = "response",
                          f.session = broker.session
                   PROVE  /\ f.id <= broker'.counter
                          /\ \A c \in Client : c = pending'[f.id] =>
                               /\ ~Asked(c)'
                               /\ \/ f.payload = c /\ served[c] = "done"
                                  \/ f.payload = Refused /\ served[c] = "no"
      <4>1. f.type = "response" => (pending'[f.id] # Nobody => pending'[f.id] \in Client)
        BY <1>2, FrameFields, Zenon
      <4> QED
        BY <1>1, <1>5, <4>1, Zenon DEF Settled
    <3>2. f.id <= broker.counter /\ f.id \in Ids /\ f.id \in Nat
      BY <3>1, FrameFields DEF Matched, Settled, Ids
    <3>3. ASSUME NEW c \in Client, c = pending'[f.id]
          PROVE  /\ ~Asked(c)'
                 /\ \/ f.payload = c /\ served[c] = "done"
                    \/ f.payload = Refused /\ served[c] = "no"
      <4>1. c # Nobody /\ c = pending[f.id]
        BY <1>5, <3>2, <3>3, ControlAssumption, Zenon
      <4>2. /\ ~Asked(c)
            /\ \/ f.payload = c /\ served[c] = "done"
               \/ f.payload = Refused /\ served[c] = "no"
        BY <3>1, <4>1, Zenon DEF Matched, Settled
      <4> QED
        BY <1>1, <1>5, <3>2, <4>1, <4>2, Zenon
    <3> QED
      BY <1>2, <1>5, <3>2, <3>3
  <2>6. \A f \in Elems(broker'.outgoing) \cup Elems(toHost') :
          f.type = "request" => Names(f.session, f.id, f.payload)'
    BY <1>1, <2>3, <2>4, Zenon
  <2> QED
    BY <1>1, <2>2, <2>5, <2>6, Zenon DEF Matched
<1>6. CASE GuestIgnores \/ GuestAnswers \/ GuestWrites
  <2>1. broker'.session = broker.session /\ broker'.counter = broker.counter
    BY <1>6, Zenon DEF GuestIgnores, GuestAnswers, GuestTakes, GuestWrites
  <2>2. \A c : ~GuestAsks(c)
    <3>1. broker'.counter # broker.counter + 1
      BY <1>2, <2>1
    <3> QED
      BY <3>1, Zenon DEF GuestAsks
  <2>3. \A i \in Ids : pending'[i] \in {Nobody, pending[i]}
    BY <1>2, <1>6, Zenon DEF GuestIgnores, GuestAnswers, GuestWrites
  <2> QED
    BY <1>2, <1>5, <2>1, <2>2, <2>3
<1>7. ASSUME NEW c \in Client, GuestMoves(c)
      PROVE  Matched'
  <2>1. /\ broker'.session = broker.session /\ broker'.counter >= broker.counter
        /\ broker'.counter \in Nat
        /\ \A i \in Ids : pending'[i] \in {Nobody, pending[i]}
    BY <1>2, <1>7 DEF GuestMoves
  <2>2. \A b \in Client : ~GuestAsks(b)
    <3>1. broker'.outgoing = broker.outgoing
      BY <1>7, Zenon DEF GuestMoves
    <3>2. \A x : Append(broker.outgoing, x) # broker.outgoing
      <4>1. TAKE x
      <4>2. Len(Append(broker.outgoing, x)) = Len(broker.outgoing) + 1
        BY DEF Typed, BrokerState
      <4>3. Len(broker.outgoing) \in Nat
        BY DEF Typed, BrokerState
      <4>4. \A n \in Nat : n + 1 # n
        OBVIOUS
      <4> QED
        OBVIOUS
    <3> QED
      BY <3>1, <3>2 DEF GuestAsks
  <2> QED
    BY <1>2, <1>5, <2>1, <2>2, Zenon
<1>8. ASSUME NEW c \in Client, GuestAsks(c)
      PROVE  Matched'
  <2>1. /\ broker'.session = broker.session /\ broker'.counter = broker.counter + 1
        /\ client[c].stage = "open" /\ client'[c].stage = "waiting"
        /\ pending' = [pending EXCEPT ![broker.counter + 1] = c]
    BY <1>8, Zenon DEF GuestAsks
  <2>2. \A i \in Ids : i <= broker.counter => pending'[i] = pending[i]
    <3>1. \A i \in Ids : i <= broker.counter => i # broker.counter + 1
      BY <1>2 DEF Ids
    <3> QED
      BY <2>1, <3>1
  <2>3. \A i \in Ids : pending[i] # Nobody => ~GuestAsks(pending[i])
    BY Zenon DEF Clients, GuestAsks
  <2> QED
    BY <1>2, <1>5, <2>1, <2>3
<1> QED
  BY <1>3, <1>4, <1>6, <1>7, <1>8, Zenon DEF GuestStep, GuestStarts, GuestDies

\* The other steps move responses that are there.
LEMMA PortElems ==
  ASSUME Typed, Writes, Sends \/ CompletesOld \/ CompletesNext
  PROVE  /\ Elems(toGuest') \cup Elems(host'.queue) \subseteq
              Elems(toGuest) \cup Elems(host.queue)
         /\ UNCHANGED <<broker, client, pending, toHost, workers, served>>
<1>1. host.queue \in Seq(HostFrame) /\ toGuest \in Seq(PortOutput)
  BY Zenon DEF Typed, HostState
<1>2. CASE Sends
  <2>1. PICK w \in wire : toGuest' = Append(toGuest, w.frame) /\ UNCHANGED host
    BY <1>2, Zenon DEF Sends
  <2>2. host.queue # <<>> /\ w.frame = Head(host.queue)
    BY DEF Writes
  <2>3. w.frame \in Elems(host.queue)
    BY <1>1, <2>2, ElemsTail, Zenon
  <2>4. Elems(toGuest') = Elems(toGuest) \cup {w.frame}
    BY <1>1, <2>1, ElemsAppend, Zenon
  <2> QED
    BY <1>2, <2>3, <2>4, Zenon DEF Sends, guestVars
<1>3. CASE CompletesOld
  BY <1>3, Zenon DEF CompletesOld, guestVars
<1>4. CASE CompletesNext
  BY <1>1, <1>4, ElemsTail DEF CompletesNext, guestVars
<1> QED
  BY <1>2, <1>3, <1>4, Zenon

\* The port and the completions only move or drop responses.
LEMMA MatchedPort ==
  ASSUME Typed, Writes, Matched, Sends \/ CompletesOld \/ CompletesNext
  PROVE  Matched'
<1>1. /\ Elems(toGuest') \cup Elems(host'.queue) \subseteq
            Elems(toGuest) \cup Elems(host.queue)
      /\ UNCHANGED <<broker, client, pending, toHost, workers, served>>
  BY PortElems, Zenon
<1>2. \A c : Asked(c)' => Asked(c)
  BY <1>1, Zenon DEF Asked
<1> QED
  BY <1>1, <1>2, Zenon DEF Matched, Settled, Names

-----------------------------------------------------------------------------
(* No call is forgotten *)

\* Only a broker with a session waits for calls.
LEMMA PendingSession ==
  ASSUME Typed, Broker, Clients, NEW i \in Ids, pending[i] # Nobody
  PROVE  broker.session # None
<1>1. i <= broker.counter /\ broker.counter \in Nat /\ i \in Nat /\ i >= 1
  BY DEF Clients, Typed, BrokerState, Ids
<1>2. broker.counter # 0
  BY <1>1
<1> QED
  BY <1>2, Zenon DEF Broker

\* The host keeps every call of its session until the response is written.
LEMMA RememberedHost ==
  ASSUME Typed, Writes, Queued, Offers, Broker, Clients, Remembered, HostStep
  PROVE  Remembered'
<1>1. UNCHANGED <<broker, client, pending>>
  BY HostElems, Zenon
<1>2. host.queue \in Seq(HostFrame) /\ toHost \in Seq(PortInput)
  BY Zenon DEF Typed, HostState
<1>3. SUFFICES ASSUME NEW i \in Ids, pending[i] # Nobody, broker.session = host'.session
               PROVE  /\ \/ Request(broker.session, i, pending[i]) \in
                              Elems(broker.outgoing) \cup Elems(toHost')
                         \/ i \in host'.active
                         \/ Answering(i, host'.queue) \/ Answering(i, toGuest')
                      /\ (/\ host'.writing /\ wire' = {}
                          /\ Head(host'.queue).type = "response"
                          /\ Head(host'.queue).id = i) => Answering(i, toGuest')
  BY <1>1, Zenon DEF Remembered, Answering
<1>4. broker.session # None
  BY <1>3, PendingSession, Zenon
<1>5. ~Closes
  BY <1>3, <1>4, Zenon DEF Closes
<1>6. ~TakeHello
  <2>1. host.session = None => broker.session # host.generation
    BY Zenon DEF Offers, Unused
  <2> QED
    BY <1>3, <2>1, Zenon DEF TakeHello, Queues
<1>7. ASSUME host.session = host'.session
      PROVE  /\ \/ Request(broker.session, i, pending[i]) \in
                     Elems(broker.outgoing) \cup Elems(toHost)
                \/ i \in host.active
                \/ Answering(i, host.queue) \/ Answering(i, toGuest)
             /\ (/\ host.writing /\ wire = {}
                 /\ Head(host.queue).type = "response"
                 /\ Head(host.queue).id = i) => Answering(i, toGuest)
  BY <1>3, <1>7, Zenon DEF Remembered
<1>8. ASSUME NEW f \in HostFrame, Queues(f), host.session # None
      PROVE  /\ host.session = host'.session /\ UNCHANGED toGuest
             /\ Answering(i, host.queue) => Answering(i, host'.queue)
             /\ (f.type = "response" /\ f.session = broker.session /\ f.id = i) =>
                  Answering(i, host'.queue)
             /\ (/\ host'.writing /\ wire' = {}
                 /\ Head(host'.queue).type = "response"
                 /\ Head(host'.queue).id = i) => Answering(i, toGuest)
  <2>1. host.session = host'.session
    BY <1>8, Zenon DEF Queues, Queued
  <2>2. Elems(host'.queue) = Elems(host.queue) \cup {f} /\ UNCHANGED toGuest
    BY <1>2, <1>8, ElemsAppend DEF Queues
  <2>3. ASSUME wire' = {}
        PROVE  host.writing /\ wire = {} /\ Head(host'.queue) = Head(host.queue)
    <3>1. host.writing /\ wire = {}
      BY <1>8, <2>3, Zenon DEF Queues
    <3>2. host.queue # <<>>
      BY <3>1, Zenon DEF Writes
    <3>3. Head(host'.queue) = Head(host.queue)
      BY <1>8, <3>2 DEF Queues
    <3> QED
      BY <3>1, <3>3, Zenon
  <2> QED
    BY <1>7, <2>1, <2>2, <2>3, Zenon DEF Answering
<1>9. ASSUME Expected
      PROVE  /\ host.session # None /\ Head(toHost).id \in Ids
             /\ \A f \in Elems(toHost) : f = Head(toHost) \/ f \in Elems(toHost')
             /\ Head(toHost) = Request(broker.session, i, pending[i]) =>
                  Head(toHost).id = i
  <2>1. \A f \in Elems(toHost) : f = Head(toHost) \/ f \in Elems(toHost')
    BY <1>2, <1>9, ElemsTail, Zenon DEF Expected, Takes
  <2> QED
    BY <1>9, <2>1 DEF Expected, RequestFrame, Request
<1>10. CASE TakeRefused
  <2>1. PICK f \in HostFrame : Queues(f) /\ f.type = "response"
                               /\ f.session = host.generation /\ f.id = Head(toHost).id
    <3>1. Response(host.generation, Head(toHost).id, Refused) \in HostFrame
      BY <1>9, <1>10, Zenon
      DEF TakeRefused, Response, ResponseFrame, HostFrame, Typed, HostState
    <3> QED
      BY <1>10, <3>1, Zenon DEF TakeRefused, Response
  <2>2. Expected /\ host'.active = host.active
    BY <1>10, Zenon DEF TakeRefused
  <2>3. host'.session = host.generation
    BY <2>1, Zenon DEF Queues
  <2> QED
    BY <1>3, <1>7, <1>8, <1>9, <2>1, <2>2, <2>3, Zenon
<1>11. CASE TakeStarted
  <2>1. /\ Expected /\ host'.active = host.active \cup {Head(toHost).id}
        /\ host'.session = host.session /\ host'.queue = host.queue
        /\ host'.writing = host.writing /\ UNCHANGED <<wire, toGuest>>
    BY <1>11, Zenon DEF TakeStarted
  <2> QED
    BY <1>7, <1>9, <2>1, Zenon
<1>12. ASSUME NEW w \in workers, EndReplies(w)
       PROVE  /\ \/ Request(broker.session, i, pending[i]) \in
                     Elems(broker.outgoing) \cup Elems(toHost')
                 \/ i \in host'.active
                 \/ Answering(i, host'.queue) \/ Answering(i, toGuest')
              /\ (/\ host'.writing /\ wire' = {}
                  /\ Head(host'.queue).type = "response"
                  /\ Head(host'.queue).id = i) => Answering(i, toGuest')
  <2>1. PICK f \in HostFrame : Queues(f) /\ f.type = "response"
                               /\ f.session = host.generation /\ f.id = w.id
    <3>1. Response(host.generation, w.id, w.call) \in HostFrame
      BY Zenon DEF Response, ResponseFrame, HostFrame, Typed, HostState
    <3> QED
      BY <1>12, <3>1, Zenon DEF EndReplies, Response
  <2>2. host'.active = host.active \ {w.id} /\ UNCHANGED toHost /\ host.session # None
    BY <1>12, Zenon DEF EndReplies
  <2>3. host'.session = host.generation
    BY <2>1, Zenon DEF Queues
  <2> QED
    BY <1>3, <1>7, <1>8, <2>1, <2>2, <2>3, Zenon
<1>13. ASSUME NEW w \in workers, EndQuiet(w)
       PROVE  /\ host'.session = host.session /\ host'.queue = host.queue
              /\ host'.writing = host.writing /\ host'.active = host.active
              /\ UNCHANGED <<toHost, wire, toGuest>>
  BY <1>13, Zenon DEF EndQuiet
<1> QED
  BY <1>5, <1>6, <1>7, <1>10, <1>11, <1>12, <1>13, Zenon
  DEF HostStep, TakeCloses, EndCloses, WriteCloses, ReconnectCloses

\* The broker takes a response only for the call it answers.
LEMMA RememberedGuest ==
  ASSUME Typed, Queued, Broker, Clients, Matched, Writes, Remembered, GuestStep
  PROVE  Remembered'
<1>1. UNCHANGED <<host, wire>>
  BY GuestElems, Zenon
<1>2. /\ toGuest \in Seq(PortOutput) /\ toHost \in Seq(PortInput)
      /\ broker.outgoing \in Seq(GuestFrame)
      /\ pending \in [Ids -> Client \cup {Nobody}]
      /\ host.queue \in Seq(HostFrame) /\ broker.counter \in Nat
  BY Zenon DEF Typed, BrokerState, HostState
<1>3. CASE GuestStarts \/ GuestDies \/ GuestWelcomed
  <2>1. CASE GuestDies
    BY <2>1, Zenon DEF GuestDies, Remembered
  <2>2. ASSUME broker.session = None, UNCHANGED pending PROVE Remembered'
    BY <2>2, PendingSession, Zenon DEF Remembered
  <2> QED
    BY <1>3, <2>1, <2>2, Zenon DEF GuestStarts, GuestWelcomed, Broker
<1>4. SUFFICES ASSUME ~(GuestStarts \/ GuestDies \/ GuestWelcomed),
                      broker'.session = broker.session,
                      NEW i \in Ids, pending'[i] # Nobody, broker.session = host.session
               PROVE  /\ \/ Request(broker.session, i, pending'[i]) \in
                              Elems(broker'.outgoing) \cup Elems(toHost')
                         \/ i \in host.active
                         \/ Answering(i, host.queue) \/ Answering(i, toGuest')
                      /\ (/\ host.writing /\ wire = {}
                          /\ Head(host.queue).type = "response"
                          /\ Head(host.queue).id = i) => Answering(i, toGuest')
  <2>1. ~(GuestStarts \/ GuestDies \/ GuestWelcomed) => broker'.session = broker.session
    BY Zenon DEF GuestStep, GuestIgnores, GuestAnswers, GuestTakes, GuestWrites, GuestMoves, GuestAsks
  <2> QED
    BY <1>1, <1>3, <2>1 DEF Remembered, Answering
<1>5. ASSUME pending[i] # Nobody
      PROVE  /\ \/ Request(broker.session, i, pending[i]) \in
                     Elems(broker.outgoing) \cup Elems(toHost)
                \/ i \in host.active
                \/ Answering(i, host.queue) \/ Answering(i, toGuest)
             /\ (/\ host.writing /\ wire = {}
                 /\ Head(host.queue).type = "response"
                 /\ Head(host.queue).id = i) => Answering(i, toGuest)
  BY <1>4, <1>5, Zenon DEF Remembered
<1>6. CASE GuestIgnores \/ GuestAnswers
  <2>1. GuestTakes
    BY <1>6, Zenon DEF GuestIgnores, GuestAnswers
  <2>2. Head(toGuest).id \in Ids
    BY <2>1, Zenon DEF GuestTakes, ResponseFrame
  <2>3. pending'[i] = pending[i] /\ i # Head(toGuest).id
    BY <1>2, <1>4, <1>6, Zenon DEF GuestIgnores, GuestAnswers
  <2>4. \A f \in Elems(toGuest) : f = Head(toGuest) \/ f \in Elems(toGuest')
    BY <1>2, <2>1, ElemsTail, Zenon DEF GuestTakes
  <2>5. Answering(i, toGuest) => Answering(i, toGuest')
    BY <2>3, <2>4, Zenon DEF Answering
  <2> QED
    BY <1>4, <1>5, <2>1, <2>3, <2>5, Zenon DEF GuestTakes
<1>7. CASE GuestWrites
  <2>1. /\ Elems(broker.outgoing) = {Head(broker.outgoing)} \cup Elems(broker'.outgoing)
        /\ Elems(toHost') = Elems(toHost) \cup {Head(broker.outgoing)}
    BY <1>2, <1>7, ElemsTail, ElemsAppend DEF GuestWrites
  <2> QED
    BY <1>4, <1>5, <1>7, <2>1, Zenon DEF GuestWrites
<1>8. ASSUME NEW c \in Client, GuestMoves(c)
      PROVE  /\ pending'[i] = pending[i] /\ broker'.outgoing = broker.outgoing
             /\ UNCHANGED <<toHost, toGuest>>
  BY <1>4, <1>8, Zenon DEF GuestMoves
<1>9. ASSUME NEW c \in Client, GuestAsks(c)
      PROVE  /\ \/ Request(broker.session, i, pending'[i]) \in
                     Elems(broker'.outgoing) \cup Elems(toHost')
                \/ i \in host.active
                \/ Answering(i, host.queue) \/ Answering(i, toGuest')
             /\ (/\ host.writing /\ wire = {}
                 /\ Head(host.queue).type = "response"
                 /\ Head(host.queue).id = i) => Answering(i, toGuest')
  <2>1. Elems(broker'.outgoing) = Elems(broker.outgoing) \cup
                                    {Request(broker.session, broker.counter + 1, c)}
    BY <1>2, <1>9, ElemsAppend DEF GuestAsks
  <2>2. /\ pending' = [pending EXCEPT ![broker.counter + 1] = c]
        /\ UNCHANGED <<toHost, toGuest>> /\ broker.session # None
    BY <1>9, Zenon DEF GuestAsks
  <2>3. CASE i = broker.counter + 1
    <3>1. pending'[i] = c
      BY <1>2, <2>2, <2>3, Zenon
    <3>2. ASSUME host.writing, Head(host.queue).type = "response"
          PROVE  Head(host.queue).id # i
      <4>1. Head(host.queue) \in Elems(host.queue)
        BY <1>2, <3>2, ElemsTail DEF Writes
      <4>2. Head(host.queue).session = broker.session
        BY <1>4, <2>2, <4>1, Zenon DEF Queued
      <4>3. Head(host.queue).id <= broker.counter
        BY <2>2, <3>2, <4>1, <4>2, Zenon DEF Matched, Settled
      <4>4. Head(host.queue).id \in Nat
        BY <3>2, <4>1, FrameFields DEF Ids
      <4> QED
        BY <1>2, <2>3, <4>3
    <3> QED
      BY <2>1, <2>3, <3>1, <3>2, Zenon
  <2>4. CASE i # broker.counter + 1
    <3>1. pending'[i] = pending[i]
      BY <2>2, <2>4
    <3> QED
      BY <1>4, <1>5, <2>1, <2>2, <3>1, Zenon
  <2> QED
    BY <2>3, <2>4, Zenon
<1> QED
  BY <1>4, <1>5, <1>6, <1>7, <1>8, <1>9, Zenon DEF GuestStep

\* A response that leaves the queue has been transmitted.
LEMMA RememberedPort ==
  ASSUME Typed, Writes, Queued, Remembered, Broker, Clients,
         Sends \/ CompletesOld \/ CompletesNext
  PROVE  Remembered'
<1>1. /\ UNCHANGED <<broker, client, pending, toHost, workers, served>>
      /\ host'.session = host.session /\ host'.active = host.active
  BY PortElems, Zenon DEF Sends, CompletesOld, CompletesNext
<1>2. host.queue \in Seq(HostFrame) /\ toGuest \in Seq(PortOutput)
  BY Zenon DEF Typed, HostState
<1>3. SUFFICES ASSUME NEW i \in Ids, pending[i] # Nobody, broker.session = host.session
               PROVE  /\ \/ Request(broker.session, i, pending[i]) \in
                              Elems(broker.outgoing) \cup Elems(toHost)
                         \/ i \in host.active
                         \/ Answering(i, host'.queue) \/ Answering(i, toGuest')
                      /\ (/\ host'.writing /\ wire' = {}
                          /\ Head(host'.queue).type = "response"
                          /\ Head(host'.queue).id = i) => Answering(i, toGuest')
  BY <1>1, Zenon DEF Remembered, Answering
<1>4. /\ \/ Request(broker.session, i, pending[i]) \in
              Elems(broker.outgoing) \cup Elems(toHost)
         \/ i \in host.active
         \/ Answering(i, host.queue) \/ Answering(i, toGuest)
      /\ (/\ host.writing /\ wire = {}
          /\ Head(host.queue).type = "response"
          /\ Head(host.queue).id = i) => Answering(i, toGuest)
  BY <1>3, Zenon DEF Remembered
<1>5. CASE Sends
  <2>1. PICK w \in wire : toGuest' = Append(toGuest, w.frame) /\ UNCHANGED host
    BY <1>5, Zenon DEF Sends
  <2>2. host.queue # <<>> /\ w.frame = Head(host.queue)
    BY DEF Writes
  <2>3. w.frame \in Elems(host.queue)
    BY <1>2, <2>2, ElemsTail, Zenon
  <2>4. Elems(toGuest') = Elems(toGuest) \cup {w.frame}
    BY <1>2, <2>1, ElemsAppend
  <2>5. w.frame.session = broker.session
    BY <1>3, <2>3, PendingSession, Zenon DEF Queued
  <2> QED
    BY <1>4, <2>1, <2>2, <2>4, <2>5, Zenon DEF Answering
<1>6. CASE CompletesOld
  BY <1>4, <1>6, Zenon DEF CompletesOld
<1>7. CASE CompletesNext
  <2>1. /\ host.writing /\ wire = {} /\ UNCHANGED toGuest
        /\ Elems(host.queue) = {Head(host.queue)} \cup Elems(host'.queue)
    BY <1>2, <1>7, ElemsTail DEF CompletesNext
  <2>2. host'.writing => wire' # {}
    BY <1>7, Zenon DEF CompletesNext
  <2> QED
    BY <1>4, <2>1, <2>2, Zenon DEF Answering
<1> QED
  BY <1>5, <1>6, <1>7, Zenon

-----------------------------------------------------------------------------
(* The channel implements RemoteCalls *)

\* What a client knows, by the answer it has and the stage it is in.
LEMMA CallCases ==
  ASSUME NEW c \in Client
  PROVE  /\ client[c].answer = c => CallOf(c) = "answered"
         /\ client[c].answer = Refused => CallOf(c) = "refused"
         /\ client[c].answer = Nobody =>
              CallOf(c) = IF client[c].stage = "idle" THEN "idle"
                          ELSE IF client[c].stage = "closed" THEN "failed" ELSE "waiting"
         /\ client'[c].answer = c => CallOf(c)' = "answered"
         /\ client'[c].answer = Refused => CallOf(c)' = "refused"
         /\ client'[c].answer = Nobody =>
              CallOf(c)' = IF client'[c].stage = "idle" THEN "idle"
                           ELSE IF client'[c].stage = "closed" THEN "failed"
                           ELSE "waiting"
         /\ client'[c] = client[c] => CallOf(c)' = CallOf(c)
<1>1. c # Refused /\ c # Nobody /\ Refused # Nobody
  BY ControlAssumption, Zenon DEF Refused, Nobody
<1> QED
  BY <1>1, Zenon DEF CallOf

\* The abstract calls, where one call or none changes.
LEMMA OneCall ==
  ASSUME NEW c \in Client, \A b \in Client \ {c} : CallOf(b)' = CallOf(b)
  PROVE  /\ [b \in Client |-> CallOf(b)]' =
              [[b \in Client |-> CallOf(b)] EXCEPT ![c] = CallOf(c)']
         /\ [b \in Client |-> CallOf(b)]' =
              [b \in Client |-> IF b \in {c} THEN CallOf(c)' ELSE
                                  [a \in Client |-> CallOf(a)][b]]
         /\ [b \in Client |-> CallOf(b)][c] = CallOf(c)
         /\ CallOf(c)' = CallOf(c) =>
              UNCHANGED [b \in Client |-> CallOf(b)]
BY Zenon

\* A step of one call of RemoteCalls.
LEMMA OneStep ==
  ASSUME NEW c \in Client, \A b \in Client \ {c} : CallOf(b)' = CallOf(b),
         UNCHANGED served,
         \/ CallOf(c)' = CallOf(c)
         \/ CallOf(c) = "idle" /\ CallOf(c)' = "waiting"
         \/ CallOf(c) = "waiting" /\ served[c] = "done" /\ CallOf(c)' = "answered"
         \/ CallOf(c) = "waiting" /\ served[c] = "no" /\ CallOf(c)' = "refused"
         \/ CallOf(c) \in {"idle", "waiting"} /\ CallOf(c)' = "failed"
  PROVE  [Calls!Next]_(Calls!vars)
<1>1. CASE CallOf(c)' = CallOf(c)
  BY <1>1, Zenon DEF Calls!vars
<1>2. CASE CallOf(c) = "idle" /\ CallOf(c)' = "waiting"
  BY <1>2, OneCall, Zenon DEF Calls!Next, Calls!Ask
<1>3. CASE CallOf(c) = "waiting" /\ served[c] = "done" /\ CallOf(c)' = "answered"
  BY <1>3, OneCall, Zenon DEF Calls!Next, Calls!Answer
<1>4. CASE CallOf(c) = "waiting" /\ served[c] = "no" /\ CallOf(c)' = "refused"
  BY <1>4, OneCall, Zenon DEF Calls!Next, Calls!Refuse
<1>5. CASE CallOf(c) \in {"idle", "waiting"} /\ CallOf(c)' = "failed"
  <2>1. Calls!Fail({c})
    BY <1>5, Zenon DEF Calls!Fail
  <2>2. {c} \in SUBSET Client
    OBVIOUS
  <2> QED
    BY <2>1, Zenon DEF Calls!Next
<1> QED
  BY <1>1, <1>2, <1>3, <1>4, <1>5, Zenon

\* A step of the host starts a call, ends one, or is none of RemoteCalls.
LEMMA CallsHost ==
  ASSUME Typed, AskedOnce, Clients, Working, HostStep
  PROVE  [Calls!Next]_(Calls!vars)
<1>1. UNCHANGED client
  BY HostElems, Zenon
<1>2. UNCHANGED [b \in Client |-> CallOf(b)]
  BY <1>1, Zenon DEF CallOf
<1>3. CASE SameWork
  BY <1>2, <1>3, Zenon DEF SameWork, Calls!vars
<1>4. CASE TakeStarted
  <2>1. PICK c \in Client : c = Head(toHost).payload /\ Asked(c)
    BY <1>4, AskedHost, Zenon DEF TakeStarted
  <2>2. served' = [served EXCEPT ![c] = "running"]
    BY <1>4, <2>1, Zenon DEF TakeStarted
  <2>3. /\ served[c] = "no" /\ client[c].answer = Nobody
        /\ client[c].stage \notin {"idle", "open"}
    BY <2>1, Zenon DEF Clients
  <2>4. CallOf(c) \in {"waiting", "failed"}
    BY <2>3, CallCases, Zenon
  <2>5. [b \in Client |-> CallOf(b)][c] = CallOf(c)
    OBVIOUS
  <2> QED
    BY <1>2, <2>2, <2>3, <2>4, Zenon DEF Calls!Next, Calls!Serve
<1>5. ASSUME NEW w \in workers, Ends(w)
      PROVE  [Calls!Next]_(Calls!vars)
  <2>1. w.call \in Client /\ served[w.call] = "running"
    BY FrameFields, Zenon DEF Working
  <2> QED
    BY <1>2, <1>5, <2>1, Zenon DEF Ends, Calls!Next, Calls!Finish
<1> QED
  BY <1>3, <1>4, <1>5, HostWork, Zenon

\* A step of the broker asks, answers, refuses or fails calls.
LEMMA CallsGuest ==
  ASSUME Typed, Clients, Matched, GuestStep
  PROVE  [Calls!Next]_(Calls!vars)
<1>1. UNCHANGED served
  BY GuestElems, Zenon
<1>2. client \in [Client -> ClientState] /\ pending \in [Ids -> Client \cup {Nobody}]
  BY Zenon DEF Typed
<1>3. CASE UNCHANGED client
  <2>1. UNCHANGED [b \in Client |-> CallOf(b)]
    BY <1>3, Zenon DEF CallOf
  <2> QED
    BY <1>1, <2>1, Zenon DEF Calls!vars
<1>4. CASE GuestDies
  <2> DEFINE S == {c \in Live : client[c].answer = Nobody}
  <2>1. S \in SUBSET Client
    BY Zenon DEF Live
  <2>2. \A c \in S : CallOf(c) = "waiting"
    BY CallCases, Zenon DEF Live
  <2>3. \A c \in Client : CallOf(c)' = IF c \in S THEN "failed" ELSE CallOf(c)
    <3>1. TAKE c \in Client
    <3>2. /\ client'[c].answer = client[c].answer
          /\ client'[c].stage = IF c \in Live THEN "closed" ELSE client[c].stage
      BY <1>4, Zenon DEF GuestDies
    <3>3. CASE c \in S
      BY <3>2, <3>3, CallCases, Zenon
    <3>4. CASE client[c].answer # Nobody
      <4>1. client[c].answer \in {Refused, c}
        BY <3>4, Zenon DEF Clients
      <4> QED
        BY <3>2, <4>1, CallCases, Zenon
    <3>5. CASE c \notin Live
      BY <3>2, <3>5, Zenon DEF CallOf
    <3> QED
      BY <3>3, <3>4, <3>5, Zenon
  <2> HIDE DEF S
  <2>4. CASE S = {}
    <3>1. \A c \in Client : CallOf(c)' = CallOf(c)
      BY <2>3, <2>4, Zenon
    <3> QED
      BY <1>1, <3>1, Zenon DEF Calls!vars
  <2>5. CASE S # {}
    <3>1. Calls!Fail(S)
      BY <1>1, <2>1, <2>2, <2>3, <2>5, Zenon DEF Calls!Fail
    <3> QED
      BY <2>1, <3>1, Zenon DEF Calls!Next
  <2> QED
    BY <2>4, <2>5, Zenon
<1>5. CASE GuestAnswers
  <2> DEFINE v == Head(toGuest)
  <2>1. /\ v \in Elems(toGuest) /\ v.type = "response" /\ v.id \in Ids
        /\ v.session = broker.session /\ broker.session # None
    BY <1>5, ElemsTail DEF GuestAnswers, GuestTakes, ResponseFrame, Typed
  <2>2. PICK c \in Client : c = pending[v.id] /\ c # Nobody
    BY <1>2, <1>5, <2>1, Zenon DEF GuestAnswers
  <2>3. \/ v.payload = c /\ served[c] = "done"
        \/ v.payload = Refused /\ served[c] = "no"
    BY <2>1, <2>2, Zenon DEF Matched, Settled
  <2>4. client[c].stage = "waiting" /\ client[c].answer = Nobody
    BY <2>1, <2>2, Zenon DEF Clients
  <2>5. /\ client'[c].answer = v.payload
        /\ \A b \in Client \ {c} : client'[b] = client[b]
    BY <1>5, <2>2, Zenon DEF GuestAnswers
  <2> HIDE DEF v
  <2>6. \A b \in Client \ {c} : CallOf(b)' = CallOf(b)
    BY <2>5, Zenon DEF CallOf
  <2>7. CallOf(c) = "waiting"
    BY <2>4, CallCases, Zenon
  <2>8. CASE v.payload = c /\ served[c] = "done"
    <3>1. CallOf(c)' = "answered"
      BY <2>5, <2>8, CallCases, Zenon
    <3> QED
      BY <1>1, <2>6, <2>7, <2>8, <3>1, OneStep, Zenon
  <2>9. CASE v.payload = Refused /\ served[c] = "no"
    <3>1. CallOf(c)' = "refused"
      BY <2>5, <2>9, CallCases, Zenon
    <3> QED
      BY <1>1, <2>6, <2>7, <2>9, <3>1, OneStep, Zenon
  <2> QED
    BY <2>3, <2>8, <2>9, Zenon
<1>6. ASSUME NEW c \in Client, GuestMoves(c) \/ GuestAsks(c)
      PROVE  [Calls!Next]_(Calls!vars)
  <2>1. \A b \in Client \ {c} : CallOf(b)' = CallOf(b)
    BY <1>6, Zenon DEF GuestMoves, GuestAsks, CallOf
  <2>2. /\ client[c].answer \in {Nobody, Refused, c}
        /\ client[c].stage \in {"idle", "open", "waiting"} => client[c].answer = Nobody
        /\ client[c].stage \in {"answering", "answered"} => client[c].answer # Nobody
        /\ client[c].stage \in {"idle", "open"} => served[c] = "no"
    BY Zenon DEF Clients
  <2>3. CASE /\ client[c].stage = "idle" /\ client'[c].stage \in {"open", "closed"}
             /\ client'[c].answer = client[c].answer
    <3>1. CallOf(c) = "idle" /\ CallOf(c)' \in {"waiting", "failed"}
      BY <2>2, <2>3, CallCases, Zenon
    <3> QED
      BY <1>1, <2>1, <3>1, OneStep, Zenon
  <2>4. CASE client[c].stage = "open" /\ client'[c].answer = Refused
    <3>1. CallOf(c) = "waiting" /\ CallOf(c)' = "refused" /\ served[c] = "no"
      BY <2>2, <2>4, CallCases, Zenon
    <3> QED
      BY <1>1, <2>1, <3>1, OneStep, Zenon
  <2>5. CASE /\ c \in Live /\ client'[c].stage = "closed"
             /\ client'[c].answer = client[c].answer
    <3>1. \/ CallOf(c) = "waiting" /\ CallOf(c)' = "failed"
          \/ CallOf(c)' = CallOf(c)
      <4>1. CASE client[c].answer = Nobody
        BY <2>5, <4>1, CallCases, Zenon DEF Live
      <4>2. CASE client[c].answer # Nobody
        BY <2>2, <2>5, <4>2, CallCases, Zenon
      <4> QED
        BY <4>1, <4>2, Zenon
    <3> QED
      BY <1>1, <2>1, <3>1, OneStep, Zenon
  <2>6. CASE /\ \/ client[c].stage = "answering" /\ client'[c].stage = "answered"
                \/ client[c].stage = "open" /\ client'[c].stage = "waiting"
             /\ client'[c].answer = client[c].answer
    <3>1. CallOf(c)' = CallOf(c)
      BY <2>2, <2>6, CallCases, Zenon
    <3> QED
      BY <1>1, <2>1, <3>1, OneStep, Zenon
  <2>7. client[c].stage = "open" => c \in Live
    BY Zenon DEF Live
  <2> QED
    BY <1>6, <2>3, <2>4, <2>5, <2>6, <2>7, Zenon DEF GuestMoves, GuestAsks
<1> QED
  BY <1>3, <1>4, <1>5, <1>6, Zenon
  DEF GuestStep, GuestStarts, GuestWelcomed, GuestIgnores, GuestWrites
=============================================================================
