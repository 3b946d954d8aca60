--------------------------- MODULE Camera_proofs ----------------------------
(***************************************************************************)
(* The camera never shows a torn frame.  The invariant follows a frame     *)
(* from the buffer of the host through the lease to the guest's copy: a    *)
(* slot that bears the mark of the guest's stream holds the frame that was *)
(* leased, and a slot that is written again loses the mark first.  And a   *)
(* stop that was queued for one capture ends no other.                     *)
(***************************************************************************)
EXTENDS Camera, TLAPS

BlankPcs == {"top", "clear", "check", "idle", "enter", "wait", "pause", "stuck", "start"}
Streaming == {"loop", "nexting", "copy", "copying", "verify", "write"}
Pcs == BlankPcs \cup Streaming \cup {"starting", "closing", "exit", "black", "end", "done"}

Actions == {"camera-start", "camera-next", "camera-stop"}
Frames == [slot : Nat, sequence : Nat]
Pixels == Nat \X Nat
Request == [action : Actions, stream : Nat, ack : Nat, live : BOOLEAN]
StopJobs == [action : {"stop"}, stream : Nat, live : {FALSE}]
Answers == [action : Actions, ok : BOOLEAN, frame : Frames]
Store ==
  [slot : SlotIds, kind : {"sequence"}, value : Nat]
    \cup [slot : SlotIds, kind : {"generation"}, value : Nat]
    \cup [slot : SlotIds, kind : {"pixels"}, value : Pixels]

DemandState ==
  [pc : Pcs, active : BOOLEAN, changed : BOOLEAN, stopping : BOOLEAN,
   child : {"up", "writer", "monitor", "none"}, watch : {"idle", "notify"},
   stream : Nat, sequence : Nat, frame : Frames, pixels : Pixels, out : Pixels,
   call : Answers \cup {NoCall}]
CameraState ==
  [session : Nat, lease : BOOLEAN, active : BOOLEAN, queue : Seq(Request \cup StopJobs),
   serving : Request \cup {NoCall}, begun : Nat]
BufferState == [sequence : Nat, queued : Frames, leased : Frames]
SlotState == [sequence : Nat, generation : Nat, pixels : Pixels]

CamType ==
  /\ demand \in DemandState /\ net \in SUBSET Request /\ camera \in CameraState
  /\ buffer \in BufferState /\ slots \in [SlotIds -> SlotState]
  /\ stores \in Seq(SUBSET Store)

-----------------------------------------------------------------------------
(* The invariant *)

Elems(q) == {q[i] : i \in DOMAIN q}

\* The requests and stops that the host has yet to finish.
Pending == net \cup Elems(camera.queue) \cup ({camera.serving} \ {NoCall})

\* The stores on their way to the guest.
Flight == UNION Elems(stores)

Match == {<<"starting", "camera-start">>, <<"nexting", "camera-next">>,
          <<"closing", "camera-stop">>}

\* The guest waits for at most one request.
OneLive ==
  /\ \A q, r \in net : q.live /\ r.live => q = r
  /\ \A i, j \in DOMAIN camera.queue : camera.queue[i].live /\ camera.queue[j].live => i = j
  /\ \A r \in net, i \in DOMAIN camera.queue : ~(r.live /\ camera.queue[i].live)
  /\ camera.serving # NoCall /\ camera.serving.live =>
       /\ \A r \in net : ~r.live
       /\ \A i \in DOMAIN camera.queue : ~camera.queue[i].live

\* The request the guest waits for is that of the step it is at; of the stream
\* it shows there is no other; and a stream that is about to begin has none.
Talk ==
  /\ OneLive
  /\ \A r \in Pending : r.live =>
       /\ demand.call = NoCall /\ <<demand.pc, r.action>> \in Match
       /\ r.stream = demand.stream
  /\ demand.call # NoCall => demand.pc \in {"starting", "nexting", "closing"}
  /\ \A r \in Pending : r.stream <= camera.begun
  /\ demand.stream <= camera.begun /\ camera.session <= camera.begun
  /\ camera.serving # NoCall =>
       camera.serving.action = "camera-next" /\ camera.serving.stream = camera.session
  /\ demand.pc \in Streaming =>
       /\ demand.stream >= 1
       /\ \A r \in Pending : r.action # "stop" /\ r.stream = demand.stream => r.live
  /\ demand.pc = "starting" /\ demand.call # NoCall /\ demand.call.ok =>
       /\ demand.call.frame.slot \in 1..camera.begun
       /\ \A r \in Pending : r.action # "stop" => r.stream # demand.call.frame.slot

Wiped(s) == [slot |-> s, kind |-> "generation", value |-> 0]

\* A frame of this capture that is queued is in its slot, or on its way there.
Written(f) ==
  /\ f.slot \in SlotIds /\ f.sequence >= 1
  /\ \A st \in Flight : st.slot = f.slot =>
       /\ st.kind = "generation" => st.value = camera.session
       /\ st.kind = "pixels" => st.value = <<camera.session, f.sequence>>
  /\ \/ slots[f.slot].generation = camera.session
     \/ [slot |-> f.slot, kind |-> "generation", value |-> camera.session] \in Flight
  /\ \/ slots[f.slot].pixels = <<camera.session, f.sequence>>
     \/ [slot |-> f.slot, kind |-> "pixels", value |-> <<camera.session, f.sequence>>]
          \in Flight

\* What is left of a former capture is being wiped.
Memory ==
  /\ \A s \in SlotIds :
       slots[s].generation \in {0, camera.session} \/ Wiped(s) \in Flight
  /\ \A st \in Flight : st.kind = "generation" => st.value \in {0, camera.session}
  /\ buffer.queued # NoFrame => Written(buffer.queued)

\* The frame the guest was given and may copy.
Delivered(f) ==
  \/ /\ demand.pc = "nexting" /\ demand.call # NoCall /\ demand.call.ok
     /\ f = demand.call.frame
  \/ demand.pc \in {"copy", "copying", "verify"} /\ f = demand.frame

\* The pixels that may stand in the slot of f while it bears the stream's mark.
Intact(f, p) == p \in {<<demand.stream, f.sequence>>, Black}

\* As long as the capture lasts its slot is leased, and nothing is written to
\* it; afterwards it loses the mark of the stream and never bears it again.
Safe(f) ==
  /\ f.slot \in SlotIds /\ f.sequence >= 1
  /\ camera.session = demand.stream => buffer.leased = f
  /\ slots[f.slot].generation = demand.stream => Intact(f, slots[f.slot].pixels)
  /\ \A st \in Flight : st.slot = f.slot =>
       /\ st.kind = "generation" => st.value # demand.stream
       /\ st.kind = "pixels" =>
            st.value = Black \/ slots[f.slot].generation # demand.stream

Leased == \A f \in Frames : Delivered(f) => Safe(f)

\* What the guest holds at each step.
Phases ==
  /\ demand.pc = "verify" =>
       (slots[demand.frame.slot].generation = demand.stream
          => Intact(demand.frame, demand.pixels))
  /\ FrameIntact
  /\ demand.pc \in BlankPcs => demand.out = Black
  /\ demand.pc \in BlankPcs \cup {"starting", "black"} =>
       demand.stream = 0 /\ demand.pixels = Black
  /\ demand.pc = "exit" /\ demand.stream = 0 => demand.pixels = Black

CamInv == CamType /\ Talk /\ Memory /\ Leased /\ Phases

-----------------------------------------------------------------------------
(* The steps *)

SameHost ==
  /\ UNCHANGED <<buffer, slots, stores>>
  /\ camera'.session = camera.session /\ camera'.begun = camera.begun

\* The guest moves on: what it holds stays as it is.
Moves ==
  /\ SameHost /\ UNCHANGED <<net, camera>>
  /\ demand'.stream = demand.stream /\ demand'.sequence = demand.sequence
  /\ demand'.frame = demand.frame /\ demand'.pixels = demand.pixels
  /\ demand'.call = demand.call
  /\ \/ demand'.pc = demand.pc /\ demand'.out = demand.out
     \/ demand.pc \in BlankPcs /\ demand'.pc \in BlankPcs /\ demand'.out = demand.out
     \/ demand.pc \in BlankPcs \cup {"black", "end"} /\ demand'.pc \in {"end", "done"}
     \/ demand.pc \in {"loop", "copy", "write"} /\ demand'.pc = "exit"
     \/ demand.pc = "start" /\ demand'.pc = "black"
     \/ demand.pc = "exit" /\ demand.stream = 0 /\ demand'.pc = "black"
     \/ demand.pc = "copy" /\ demand'.pc = "copying"
     \/ demand.pc = "write" /\ demand'.pc = "loop"
     \/ demand.pc = "black" /\ demand'.pc \in {"pause", "top"} /\ demand'.out = Black

Copies ==
  /\ SameHost /\ UNCHANGED <<net, camera>>
  /\ demand'.stream = demand.stream /\ demand'.sequence = demand.sequence
  /\ demand'.frame = demand.frame /\ demand'.call = demand.call
  /\ demand.pc = "copying" /\ demand'.pc = "verify"
  /\ demand'.pixels = slots[demand.frame.slot].pixels

Verifies ==
  /\ SameHost /\ UNCHANGED <<net, camera>>
  /\ demand'.stream = demand.stream /\ demand'.frame = demand.frame
  /\ demand'.call = demand.call /\ demand.pc = "verify"
  /\ \/ /\ Committed /\ demand'.pc = "write" /\ demand'.pixels = demand.pixels
        /\ demand'.sequence = demand.frame.sequence
     \/ demand'.pc = "exit" /\ demand'.pixels = Black

Asks ==
  /\ SameHost /\ UNCHANGED camera
  /\ demand'.stream = demand.stream /\ demand'.pixels = demand.pixels
  /\ demand'.call = demand.call
  /\ \E r \in Request :
       /\ net' = net \cup {r} /\ r.live /\ r.stream = demand.stream
       /\ <<demand'.pc, r.action>> \in Match
       /\ <<demand.pc, demand'.pc>> \in
            {<<"start", "starting">>, <<"loop", "nexting">>, <<"exit", "closing">>}

\* The guest takes the answer, or gives up at the end of a stream.
Takes ==
  /\ SameHost /\ demand'.call = NoCall
  /\ \/ /\ demand.pc = "closing" /\ demand'.pc = "black" /\ demand'.stream = 0
        /\ demand'.pixels = Black
     \/ /\ demand.pc \in {"starting", "nexting"} /\ demand'.pc = "exit"
        /\ demand'.stream = demand.stream /\ demand'.pixels = demand.pixels

Answered ==
  /\ UNCHANGED <<net, camera>> /\ demand.call # NoCall
  /\ \/ Takes
     \/ /\ SameHost /\ demand'.call = NoCall /\ demand.call.ok
        /\ demand.pc = "starting" /\ demand'.pc = "loop"
        /\ demand'.stream = demand.call.frame.slot
     \/ /\ SameHost /\ demand'.call = NoCall /\ demand.call.ok
        /\ demand.pc = "nexting" /\ demand'.stream = demand.stream
        /\ demand'.pixels = demand.pixels
        /\ \/ demand'.pc = "copy" /\ demand'.frame = demand.call.frame
           \/ demand'.pc = "exit"

GivesUp ==
  /\ Takes /\ demand.call = NoCall
  /\ camera'.serving = NoCall <=> camera.serving = NoCall
  /\ camera.serving # NoCall =>
       camera'.serving.action = camera.serving.action
       /\ camera'.serving.stream = camera.serving.stream
  /\ OneLive'
  /\ \A r \in Pending' :
       ~r.live /\ \E q \in Pending : q.stream = r.stream /\ q.action = r.action

\* Nothing but stops is added to what the host has to do.
Shuffled ==
  /\ OneLive'
  /\ \A r \in Pending' : r \in Pending \/ (r \in StopJobs /\ r.stream <= camera.begun)

\* The host is done with r.
Taken(r) ==
  /\ r \in Pending /\ OneLive' /\ Pending' \subseteq Pending
  /\ r.live => \A q \in Pending' : ~q.live

Told(r, ok, f) == r \in Request /\ demand' = Replied(demand, r, ok, f)

Shuffles ==
  /\ Shuffled /\ SameHost /\ UNCHANGED demand /\ camera'.serving = camera.serving

Fails ==
  /\ SameHost /\ camera'.serving = camera.serving
  /\ \E r \in Pending : Taken(r) /\ Told(r, FALSE, NoFrame)

NewSlots ==
  /\ stores = <<>> /\ stores' = camera_clear /\ UNCHANGED slots
  /\ buffer'.queued = NoFrame /\ buffer'.leased = NoFrame
  /\ camera'.serving = NoCall

Stops ==
  /\ NewSlots /\ camera'.session = 0 /\ camera'.begun = camera.begun
  /\ \/ Shuffled /\ UNCHANGED demand
     \/ \E r \in Pending, ok \in BOOLEAN :
          Taken(r) /\ Told(r, ok, NoFrame) /\ (ok => r.action = "camera-stop")

Begins ==
  /\ NewSlots /\ camera'.session = camera.begun + 1 /\ camera'.begun = camera.begun + 1
  /\ \E r \in Pending :
       /\ Taken(r) /\ r.action = "camera-start"
       /\ Told(r, TRUE, [slot |-> camera.begun + 1, sequence |-> 0])

Serves ==
  /\ UNCHANGED <<demand, slots, stores>> /\ camera'.session = camera.session
  /\ camera'.begun = camera.begun
  /\ buffer'.queued = buffer.queued /\ buffer'.leased = NoFrame
  /\ Shuffled
  /\ \E r \in Pending :
       /\ r \in Request /\ r.action = "camera-next" /\ r.stream = camera.session
       /\ camera'.serving = r

Leases ==
  /\ UNCHANGED <<slots, stores>> /\ stores = <<>>
  /\ camera'.session = camera.session /\ camera'.begun = camera.begun
  /\ camera.serving # NoCall /\ camera'.serving = NoCall
  /\ buffer.queued # NoFrame /\ buffer'.leased = buffer.queued /\ buffer'.queued = NoFrame
  /\ Taken(camera.serving) /\ Told(camera.serving, TRUE, buffer.queued)

Publishes ==
  /\ UNCHANGED <<demand, net, camera, slots>> /\ stores = <<>>
  /\ buffer'.leased = buffer.leased
  /\ \E s \in FreeSlots, n \in Nat :
       /\ n >= 1 /\ buffer'.queued = [slot |-> s, sequence |-> n]
       /\ stores' = camera_publish(s, camera.session, n, <<camera.session, n>>)

Visible ==
  /\ UNCHANGED <<demand, net, camera, buffer>>
  /\ \E st \in Flight :
       /\ slots' = [slots EXCEPT ![st.slot][st.kind] = st.value]
       /\ Flight' \subseteq Flight /\ Flight \ {st} \subseteq Flight'

CamStep ==
  \/ Moves \/ Copies \/ Verifies \/ Asks \/ Answered \/ GivesUp
  \/ Shuffles \/ Fails \/ Stops \/ Begins \/ Serves \/ Leases \/ Publishes \/ Visible

\* Names of requests, stops and no call.
LEMMA Kinds ==
  /\ NoCall \notin Request /\ NoCall \notin Answers /\ NoFrame \in Frames
  /\ Black \in Pixels
  /\ \A r \in StopJobs : ~r.live /\ r.action = "stop" /\ r.stream \in Nat /\ r # NoCall
  /\ \A r \in Request : r.action \in Actions /\ r.action # "stop" /\ r.stream \in Nat
                        /\ r.live \in BOOLEAN /\ r # NoCall
<1>1. NoCall.action = "none"
  BY Zenon DEF NoCall
<1>2. \A r \in Request : r.action \in Actions /\ r.stream \in Nat /\ r.live \in BOOLEAN
  BY Zenon DEF Request
<1>3. \A r \in Answers : r.action \in Actions
  BY Zenon DEF Answers
<1>4. \A r \in StopJobs : r.action = "stop" /\ r.stream \in Nat
  BY Zenon DEF StopJobs
<1>5. \A r \in StopJobs : ~r.live
  BY Zenon DEF StopJobs
<1>6. "none" \notin Actions /\ "stop" \notin Actions /\ "none" # "stop"
  BY Zenon DEF Actions
<1>7. NoFrame \in Frames
  BY Zenon DEF NoFrame, Frames
<1>8. Black \in Pixels
  BY Zenon DEF Black, Pixels
<1> QED
  BY <1>1, <1>2, <1>3, <1>4, <1>5, <1>6, <1>7, <1>8, Zenon

\* What the host has yet to finish is a request or a stop; only a request is waited for.
LEMMA Jobs ==
  ASSUME CamType, NEW r \in Pending
  PROVE  /\ r \in Request \cup StopJobs /\ r # NoCall
         /\ r.stream \in Nat /\ (r.live => r \in Request)
<1>1. r \in Request \cup StopJobs
  <2>1. net \subseteq Request /\ camera.queue \in Seq(Request \cup StopJobs)
        /\ camera.serving \in Request \cup {NoCall}
    BY Zenon DEF CamType, CameraState
  <2>2. Elems(camera.queue) \subseteq Request \cup StopJobs
    BY <2>1 DEF Elems
  <2> QED
    BY <2>1, <2>2, Zenon DEF Pending
<1>2. CASE r \in Request
  BY <1>2, Kinds, Zenon
<1>3. CASE r \in StopJobs
  <2>1. ~r.live /\ r.stream \in Nat /\ r # NoCall
    BY <1>3, Kinds, Zenon
  <2> QED
    BY <1>3, <2>1, Zenon
<1> QED
  BY <1>1, <1>2, <1>3, Zenon

\* What an answer to r changes, d being the guest's state after it.
Replies(d, r, ok, f) ==
  /\ d \in DemandState /\ d.pc = demand.pc /\ d.stream = demand.stream
  /\ d.sequence = demand.sequence /\ d.frame = demand.frame
  /\ d.pixels = demand.pixels /\ d.out = demand.out
  /\ ~r.live => d = demand
  /\ r.live => d.call # NoCall /\ d.call.ok = ok /\ d.call.frame = f

\* Replied changes nothing of the guest but the answer it waits for.
LEMMA RepliedFacts ==
  ASSUME demand \in DemandState, NEW r \in Request, NEW ok \in BOOLEAN, NEW f \in Frames,
         NEW d, d = Replied(demand, r, ok, f)
  PROVE  Replies(d, r, ok, f)
<1> DEFINE a == [action |-> r.action, ok |-> ok, frame |-> f]
<1>1. a \in Answers /\ a # NoCall
  <2>1. a \in Answers
    BY Kinds, Zenon DEF Answers
  <2> QED
    BY <2>1, Kinds, Zenon
<1>1a. a.ok = ok /\ a.frame = f
  OBVIOUS
<1> USE DEF Replies
<1>2. CASE r.live
  <2>1. d = [demand EXCEPT !.call = a]
    BY <1>2, Zenon DEF Replied
  <2> HIDE DEF a
  <2>2. /\ d \in DemandState /\ d.pc = demand.pc /\ d.stream = demand.stream
        /\ d.sequence = demand.sequence /\ d.frame = demand.frame
        /\ d.pixels = demand.pixels /\ d.out = demand.out /\ d.call = a
    BY <1>1, <2>1, Zenon DEF DemandState
  <2> QED
    BY <1>1, <1>2, <2>2 DEF a
<1>3. CASE ~r.live
  <2>1. d = demand
    BY <1>3, Zenon DEF Replied
  <2> QED
    BY <1>3, <2>1, Zenon
<1> QED
  BY <1>2, <1>3, Zenon

\* Sequences and their elements.
LEMMA ElemsFacts ==
  ASSUME NEW X, NEW q \in Seq(X)
  PROVE  /\ q # <<>> => /\ Head(q) \in Elems(q) /\ Tail(q) \in Seq(X)
                        /\ Elems(Tail(q)) \subseteq Elems(q)
                        /\ Elems(q) \subseteq Elems(Tail(q)) \cup {Head(q)}
         /\ \A x \in X : Elems(Append(q, x)) = Elems(q) \cup {x} /\ Append(q, x) \in Seq(X)
         /\ \A p \in Seq(X) : Elems(q \o p) = Elems(q) \cup Elems(p) /\ q \o p \in Seq(X)
<1>1. ASSUME q # <<>>
      PROVE  /\ Head(q) \in Elems(q) /\ Tail(q) \in Seq(X)
             /\ Elems(Tail(q)) \subseteq Elems(q)
             /\ Elems(q) \subseteq Elems(Tail(q)) \cup {Head(q)}
  <2>1. /\ Tail(q) \in Seq(X) /\ Len(q) \in Nat /\ Len(q) >= 1 /\ Len(Tail(q)) = Len(q) - 1
        /\ DOMAIN q = 1..Len(q) /\ DOMAIN Tail(q) = 1..(Len(q) - 1)
        /\ Head(q) = q[1]
        /\ \A i \in 1..(Len(q) - 1) : Tail(q)[i] = q[i + 1]
    BY <1>1
  <2>2. \A i \in 1..(Len(q) - 1) : i + 1 \in 1..Len(q)
    OBVIOUS
  <2>3. ASSUME NEW i \in 1..Len(q), i # 1 PROVE q[i] \in Elems(Tail(q))
    <3>1. i - 1 \in 1..(Len(q) - 1) /\ (i - 1) + 1 = i
      BY <2>3
    <3>2. Tail(q)[i - 1] = q[i]
      BY <3>1
    <3> QED
      BY <2>1, <3>1, Zenon DEF Elems
  <2>4. 1 \in 1..Len(q)
    BY <2>1
  <2> QED
    BY <2>1, <2>3 DEF Elems
<1>2. ASSUME NEW x \in X PROVE Elems(Append(q, x)) = Elems(q) \cup {x} /\ Append(q, x) \in Seq(X)
  <2>1. /\ Append(q, x) \in Seq(X) /\ Len(q) \in Nat
        /\ DOMAIN q = 1..Len(q) /\ DOMAIN Append(q, x) = 1..(Len(q) + 1)
        /\ Append(q, x)[Len(q) + 1] = x
        /\ \A i \in 1..Len(q) : Append(q, x)[i] = q[i]
    OBVIOUS
  <2>2. \A i \in 1..(Len(q) + 1) : i \in 1..Len(q) \/ i = Len(q) + 1
    OBVIOUS
  <2>3. \A i \in 1..Len(q) : i \in 1..(Len(q) + 1)
    OBVIOUS
  <2>4. Len(q) + 1 \in 1..(Len(q) + 1)
    OBVIOUS
  <2> QED
    BY <2>4 DEF Elems
<1>3. ASSUME NEW p \in Seq(X)
      PROVE  Elems(q \o p) = Elems(q) \cup Elems(p) /\ q \o p \in Seq(X)
  <2>1. /\ q \o p \in Seq(X) /\ Len(q) \in Nat /\ Len(p) \in Nat
        /\ DOMAIN q = 1..Len(q) /\ DOMAIN p = 1..Len(p)
        /\ DOMAIN (q \o p) = 1..(Len(q) + Len(p))
        /\ \A i \in 1..Len(q) : (q \o p)[i] = q[i]
        /\ \A i \in 1..Len(p) : (q \o p)[Len(q) + i] = p[i]
    OBVIOUS
  <2>2. \A i \in 1..(Len(q) + Len(p)) :
          i \in 1..Len(q) \/ (i - Len(q) \in 1..Len(p) /\ Len(q) + (i - Len(q)) = i)
    OBVIOUS
  <2>3. /\ \A i \in 1..Len(q) : i \in 1..(Len(q) + Len(p))
        /\ \A i \in 1..Len(p) : Len(q) + i \in 1..(Len(q) + Len(p))
    OBVIOUS
  <2>4. Elems(q \o p) \subseteq Elems(q) \cup Elems(p)
    <3>1. SUFFICES ASSUME NEW i \in 1..(Len(q) + Len(p))
                   PROVE  (q \o p)[i] \in Elems(q) \cup Elems(p)
      BY DEF Elems
    <3>2. CASE i \in 1..Len(q)
      BY DEF Elems
    <3>3. CASE i - Len(q) \in 1..Len(p) /\ Len(q) + (i - Len(q)) = i
      <4>1. (q \o p)[i] = p[i - Len(q)]
        BY <3>3
      <4> QED
        BY DEF Elems
    <3> QED
      BY <3>2, <3>3
  <2>5. Elems(q) \subseteq Elems(q \o p)
    BY DEF Elems
  <2>6. Elems(p) \subseteq Elems(q \o p)
    BY <2>1, <2>3, Zenon DEF Elems
  <2> QED
    BY <2>4, <2>5, <2>6
<1> QED
  BY <1>1, <1>2, <1>3, Zenon

\* All that the proofs say of the guest, but its place and what it shows.
SameGuest ==
  /\ demand'.stream = demand.stream /\ demand'.sequence = demand.sequence
  /\ demand'.frame = demand.frame /\ demand'.pixels = demand.pixels
  /\ demand'.call = demand.call

\* Going on to another step of the loop changes the guest's place only.
LEMMA GoFacts ==
  ASSUME demand \in DemandState, NEW pc \in Pcs, Go(pc)
  PROVE  demand' \in DemandState /\ SameGuest /\ demand'.pc = pc /\ demand'.out = demand.out
BY Zenon DEF Go, DemandState, SameGuest

\* A step of the guest alone leaves the host and the slots as they are.
LEMMA GuestOnlyFacts ==
  ASSUME CamType, demand' \in DemandState, UNCHANGED <<net, camera, buffer, slots, stores>>
  PROVE  CamType' /\ SameHost
BY Zenon DEF CamType, SameHost

\* The guest's own moves, up to the place it is at.
LEMMA PlainMoves ==
  ASSUME CamType, GuestOnly,
         \/ LoopHead \/ Check \/ CallWait \/ EnterWait \/ Wake
         \/ EndLoop \/ CopyCheck \/ Pause
         \/ At("start") /\ Go("black")
         \/ At("exit") /\ demand.stream = 0 /\ Go("black")
  PROVE  CamType' /\ Moves
<1>1. demand \in DemandState /\ UNCHANGED <<net, camera, buffer, slots, stores>>
  BY Zenon DEF CamType, GuestOnly
<1>2. ASSUME NEW pc \in Pcs, Go(pc),
             \/ demand.pc \in BlankPcs /\ pc \in BlankPcs
             \/ demand.pc \in BlankPcs \cup {"black", "end"} /\ pc \in {"end", "done"}
             \/ demand.pc \in {"loop", "copy", "write"} /\ pc = "exit"
             \/ demand.pc = "start" /\ pc = "black"
             \/ demand.pc = "exit" /\ demand.stream = 0 /\ pc = "black"
             \/ demand.pc = "copy" /\ pc = "copying"
      PROVE  CamType' /\ Moves
  <2>1. demand' \in DemandState /\ SameGuest /\ demand'.pc = pc /\ demand'.out = demand.out
    BY <1>1, <1>2, GoFacts, Zenon
  <2>2. CamType' /\ SameHost
    BY <1>1, <2>1, GuestOnlyFacts, Zenon
  <2> QED
    BY <1>1, <1>2, <2>1, <2>2, Zenon DEF Moves, SameGuest
<1> USE DEF At, Pcs, BlankPcs, Streaming
<1>3. CASE LoopHead
  <2>1. \E pc \in {"end", "clear"} : Go(pc) /\ demand.pc = "top"
    BY <1>3, Zenon DEF LoopHead
  <2> QED
    BY <1>2, <2>1, Zenon
<1>4. CASE Check
  <2>1. \E pc \in {"end", "start", "idle"} : Go(pc) /\ demand.pc = "check"
    BY <1>4, Zenon DEF Check
  <2> QED
    BY <1>2, <2>1, Zenon
<1>5. CASE CallWait \/ Wake \/ Pause
  <2>1. \E pc \in {"enter", "top"} : Go(pc) /\ demand.pc \in {"idle", "wait", "pause"}
    BY <1>5, Zenon DEF CallWait, Wake, Pause
  <2> QED
    BY <1>2, <2>1, Zenon
<1>6. CASE EnterWait
  <2>1. \E pc \in {"wait", "top"} : Go(pc) /\ demand.pc = "enter"
    BY <1>6, Zenon DEF EnterWait
  <2> QED
    BY <1>2, <2>1, Zenon
<1>7. CASE EndLoop
  BY <1>2, <1>7, Zenon DEF EndLoop
<1>8. CASE CopyCheck
  <2>1. \E pc \in {"copying", "exit"} : Go(pc) /\ demand.pc = "copy"
    BY <1>8, Zenon DEF CopyCheck
  <2> QED
    BY <1>2, <2>1, Zenon
<1>9. CASE At("start") /\ Go("black")
  BY <1>2, <1>9, Zenon
<1>10. CASE At("exit") /\ demand.stream = 0 /\ Go("black")
  BY <1>2, <1>10, Zenon
<1> QED
  BY <1>3, <1>4, <1>5, <1>6, <1>7, <1>8, <1>9, <1>10, Zenon

\* The writes, the clean-up, the reader thread and the signal handler are moves too:
\* they keep the stream, the frame, the pixels and the call.
LEMMA OtherMoves ==
  ASSUME CamType,
         \/ (ClearChanged \/ WriteFrame \/ WriteBlack \/ Cleanup \/ Notify) /\ GuestOnly
         \/ Reader \/ ChildEnds \/ Terminated
  PROVE  CamType' /\ Moves
<1>1. demand \in DemandState /\ UNCHANGED <<net, camera, buffer, slots, stores>>
  BY Zenon DEF CamType, GuestOnly, Reader, ChildEnds, Terminated
<1> SUFFICES /\ demand' \in DemandState /\ SameGuest
             /\ \/ demand'.pc = demand.pc /\ demand'.out = demand.out
                \/ demand.pc \in BlankPcs /\ demand'.pc \in BlankPcs
                   /\ demand'.out = demand.out
                \/ demand.pc \in BlankPcs \cup {"black", "end"}
                   /\ demand'.pc \in {"end", "done"}
                \/ demand.pc \in {"loop", "copy", "write"} /\ demand'.pc = "exit"
                \/ demand.pc = "write" /\ demand'.pc = "loop"
                \/ demand.pc = "black" /\ demand'.pc \in {"pause", "top"}
                   /\ demand'.out = Black
  <2>1. ASSUME demand' \in DemandState PROVE CamType' /\ SameHost
    BY <1>1, GuestOnlyFacts, Zenon
  <2> QED
    BY <1>1, <2>1, Zenon DEF Moves, SameGuest
<1> USE DEF At, Pcs, BlankPcs, Streaming
<1>2. CASE ClearChanged
  <2>1. demand.pc = "clear" /\ demand' = [demand EXCEPT !.changed = FALSE, !.pc = "check"]
    BY <1>2, Zenon DEF ClearChanged
  <2> QED
    BY <1>1, <2>1, Zenon DEF DemandState, SameGuest
<1>3. CASE WriteFrame
  <2>1. demand.pc = "write"
        /\ \/ demand' = [demand EXCEPT !.out = demand.pixels, !.pc = "loop"]
           \/ demand' = [demand EXCEPT !.pc = "exit"]
    BY <1>3, Zenon DEF WriteFrame
  <2> QED
    BY <1>1, <2>1, Zenon DEF DemandState, SameGuest
<1>4. CASE WriteBlack
  <2>1. demand.pc = "black"
        /\ \/ demand' = [demand EXCEPT !.pc = "end"]
           \/ \E pc \in {"pause", "top"} : demand' = [demand EXCEPT !.out = Black, !.pc = pc]
    BY <1>4, Zenon DEF WriteBlack
  <2>2. CASE demand' = [demand EXCEPT !.pc = "end"]
    BY <1>1, <2>1, <2>2, Zenon DEF DemandState, SameGuest
  <2>3. ASSUME NEW pc \in {"pause", "top"}, demand' = [demand EXCEPT !.out = Black, !.pc = pc]
        PROVE  /\ demand' \in DemandState /\ SameGuest
               /\ demand'.pc \in {"pause", "top"} /\ demand'.out = Black
    BY <1>1, <2>3, Kinds, Zenon DEF DemandState, SameGuest
  <2> QED
    BY <2>1, <2>2, <2>3, Zenon
<1>5. CASE Cleanup
  <2>1. demand.pc = "end"
        /\ demand' = [demand EXCEPT !.pc = "done", !.child = "none", !.watch = "idle",
                                    !.active = FALSE, !.stopping = TRUE]
    BY <1>5, Zenon DEF Cleanup
  <2> QED
    BY <1>1, <2>1, Zenon DEF DemandState, SameGuest
<1>6. CASE Notify
  <2>1. demand' = [demand EXCEPT !.changed = TRUE, !.watch = "idle"]
    BY <1>6, Zenon DEF Notify
  <2> QED
    BY <1>1, <2>1, Zenon DEF DemandState, SameGuest
<1>7. CASE Reader
  <2> DEFINE a == ~demand.active
  <2>1. demand' = [demand EXCEPT !.active = a, !.watch = "notify"] /\ a \in BOOLEAN
    BY <1>7, Zenon DEF Reader
  <2> HIDE DEF a
  <2> QED
    BY <1>1, <2>1, Zenon DEF DemandState, SameGuest
<1>8. CASE ChildEnds
  <2>1. PICK c \in {"writer", "monitor"} :
          demand' = [demand EXCEPT !.child = c, !.watch = "notify",
                                   !.active = @ /\ c # "monitor"]
    BY <1>8, Zenon DEF ChildEnds
  <2> DEFINE a == demand.active /\ c # "monitor"
  <2>2. demand' = [demand EXCEPT !.child = c, !.watch = "notify", !.active = a]
        /\ a \in BOOLEAN
    BY <2>1, Zenon
  <2> HIDE DEF a
  <2> QED
    BY <1>1, <2>2, Zenon DEF DemandState, SameGuest
<1>9. CASE Terminated
  <2>1. \/ demand' = [demand EXCEPT !.stopping = TRUE, !.changed = TRUE]
        \/ /\ demand.pc \in {"clear", "enter"}
           /\ demand' = [demand EXCEPT !.stopping = TRUE, !.pc = "stuck"]
    BY <1>9, Zenon DEF Terminated, LockFree
  <2> QED
    BY <1>1, <2>1, Zenon DEF DemandState, SameGuest
<1> QED
  BY <1>2, <1>3, <1>4, <1>5, <1>6, <1>7, <1>8, <1>9, Zenon

\* copyFrame reads the pixels of a slot of the memory, then checks the slot again.
LEMMA CopySteps ==
  ASSUME CamType, Leased, (CopyPixels \/ CopyVerify) /\ GuestOnly
  PROVE  CamType' /\ (Copies \/ Verifies)
<1>1. demand \in DemandState /\ UNCHANGED <<net, camera, buffer, slots, stores>>
      /\ demand.frame \in Frames /\ demand.frame.sequence \in Nat
  BY Zenon DEF CamType, GuestOnly, DemandState, Frames
<1>2. ASSUME demand' \in DemandState PROVE CamType' /\ SameHost
  BY <1>1, <1>2, GuestOnlyFacts, Zenon
<1> USE DEF At, Pcs, BlankPcs, Streaming
<1>3. CASE CopyPixels
  <2> DEFINE p == slots[demand.frame.slot].pixels
  <2>1. demand.pc = "copying" /\ demand' = [demand EXCEPT !.pixels = p, !.pc = "verify"]
    BY <1>3, Zenon DEF CopyPixels
  <2>2. p \in Pixels
    <3>1. demand.frame.slot \in SlotIds
      BY <1>1, <2>1, Zenon DEF Leased, Delivered, Safe
    <3> QED
      BY <3>1, Zenon DEF CamType, SlotState
  <2> HIDE DEF p
  <2>3. /\ demand' \in DemandState /\ demand'.stream = demand.stream
        /\ demand'.sequence = demand.sequence /\ demand'.frame = demand.frame
        /\ demand'.call = demand.call /\ demand'.pc = "verify" /\ demand'.pixels = p
    BY <1>1, <2>1, <2>2, Zenon DEF DemandState
  <2> QED
    BY <1>1, <1>2, <2>1, <2>3, Zenon DEF Copies, p
<1>4. CASE CopyVerify
  <2> DEFINE n == demand.frame.sequence
  <2>1. demand.pc = "verify"
        /\ \/ Committed /\ demand' = [demand EXCEPT !.sequence = n, !.pc = "write"]
           \/ demand' = [demand EXCEPT !.pixels = Black, !.pc = "exit"]
    BY <1>4, Zenon DEF CopyVerify
  <2>2. n \in Nat
    BY <1>1, Zenon
  <2> HIDE DEF n
  <2>3. CASE Committed /\ demand' = [demand EXCEPT !.sequence = n, !.pc = "write"]
    <3>1. /\ demand' \in DemandState /\ demand'.stream = demand.stream
          /\ demand'.sequence = n /\ demand'.frame = demand.frame
          /\ demand'.call = demand.call /\ demand'.pc = "write"
          /\ demand'.pixels = demand.pixels
      BY <1>1, <2>2, <2>3, Zenon DEF DemandState
    <3> QED
      BY <1>1, <1>2, <2>1, <2>3, <3>1, Zenon DEF Verifies, n
  <2>4. CASE demand' = [demand EXCEPT !.pixels = Black, !.pc = "exit"]
    <3>1. /\ demand' \in DemandState /\ demand'.stream = demand.stream
          /\ demand'.frame = demand.frame
          /\ demand'.call = demand.call /\ demand'.pc = "exit"
          /\ demand'.pixels = Black
      BY <1>1, <2>4, Kinds, Zenon DEF DemandState
    <3> QED
      BY <1>1, <1>2, <2>1, <3>1, Zenon DEF Verifies
  <2> QED
    BY <2>1, <2>3, <2>4, Zenon
<1> QED
  BY <1>3, <1>4, Zenon

\* The guest calls the host.
LEMMA AskSteps ==
  ASSUME CamType, NEW action \in Actions, NEW pc \in Pcs, Call(action, pc),
         <<pc, action>> \in Match,
         <<demand.pc, pc>> \in
           {<<"start", "starting">>, <<"loop", "nexting">>, <<"exit", "closing">>}
  PROVE  CamType' /\ Asks
<1> DEFINE r == [action |-> action, stream |-> demand.stream,
                 ack |-> demand.sequence, live |-> TRUE]
<1>1. net' = net \cup {r} /\ Go(pc) /\ UNCHANGED <<camera, buffer, slots, stores>>
  BY Zenon DEF Call
<1>2. demand' \in DemandState /\ SameGuest /\ demand'.pc = pc
  BY <1>1, GoFacts, Zenon DEF CamType
<1>3. r \in Request /\ r.action = action /\ r.stream = demand.stream /\ r.live
  <2>1. demand.stream \in Nat /\ demand.sequence \in Nat
    BY Zenon DEF CamType, DemandState
  <2> QED
    BY <2>1, Zenon DEF Request
<1> HIDE DEF r
<1>4. CamType'
  BY <1>1, <1>2, <1>3, Zenon DEF CamType
<1> QED
  BY <1>1, <1>2, <1>3, <1>4, Zenon DEF Asks, SameHost, SameGuest

\* An answer that arrives begins a stream, hands over a frame, or ends the stream.
LEMMA ReplySteps ==
  ASSUME CamType, Talk, Reply, GuestOnly
  PROVE  CamType' /\ Answered
<1>1. demand \in DemandState /\ UNCHANGED <<net, camera, buffer, slots, stores>>
      /\ demand.call # NoCall /\ demand.call \in Answers
      /\ demand.pc \in {"starting", "nexting", "closing"}
  BY Zenon DEF CamType, GuestOnly, DemandState, Reply, Talk
<1>2. ASSUME demand' \in DemandState PROVE CamType' /\ SameHost
  BY <1>1, <1>2, GuestOnlyFacts, Zenon
<1>3. demand.call.ok \in BOOLEAN /\ demand.call.frame \in Frames
      /\ demand.call.frame.slot \in Nat
  BY <1>1, Zenon DEF Answers, Frames
<1> USE DEF At, Pcs, BlankPcs, Streaming
<1>4. CASE demand.pc = "closing"
  <2>1. demand' = Closed
    BY <1>4, Zenon DEF Reply
  <2>2. /\ demand' \in DemandState /\ demand'.stream = 0 /\ demand'.call = NoCall
        /\ demand'.pixels = Black /\ demand'.pc = "black"
    BY <1>1, <2>1, Kinds, Zenon DEF DemandState, Closed
  <2> QED
    BY <1>1, <1>2, <1>4, <2>2, Zenon DEF Answered, Takes
<1>5. CASE demand.pc # "closing" /\ ~demand.call.ok
  <2>1. demand' = [demand EXCEPT !.call = NoCall, !.pc = "exit"]
    BY <1>5, Zenon DEF Reply
  <2>2. /\ demand' \in DemandState /\ demand'.stream = demand.stream /\ demand'.call = NoCall
        /\ demand'.pixels = demand.pixels /\ demand'.pc = "exit"
    BY <1>1, <2>1, Zenon DEF DemandState
  <2> QED
    BY <1>1, <1>2, <1>5, <2>2, Zenon DEF Answered, Takes
<1>6. CASE demand.pc = "starting" /\ demand.call.ok
  <2> DEFINE n == demand.call.frame.slot
  <2>1. demand' = [demand EXCEPT !.call = NoCall, !.pc = "loop", !.stream = n]
    BY <1>6, Zenon DEF Reply
  <2>2. n \in Nat
    BY <1>3, Zenon
  <2> HIDE DEF n
  <2>3. /\ demand' \in DemandState /\ demand'.stream = n /\ demand'.call = NoCall
        /\ demand'.pc = "loop"
    BY <1>1, <2>1, <2>2, Zenon DEF DemandState
  <2> QED
    BY <1>1, <1>2, <1>6, <2>3, Zenon DEF Answered, n
<1>7. CASE demand.pc = "nexting" /\ demand.call.ok
  <2> DEFINE f == demand.call.frame
  <2>1. PICK pc \in {"copy", "exit"} :
          demand' = [demand EXCEPT !.call = NoCall, !.frame = f, !.pc = pc]
    BY <1>7, Zenon DEF Reply
  <2>2. f \in Frames
    BY <1>3, Zenon
  <2> HIDE DEF f
  <2>3. /\ demand' \in DemandState /\ demand'.stream = demand.stream /\ demand'.call = NoCall
        /\ demand'.pc = pc /\ demand'.frame = f /\ demand'.pixels = demand.pixels
    BY <1>1, <2>1, <2>2, Zenon DEF DemandState
  <2> QED
    BY <1>1, <1>2, <1>7, <2>3, Zenon DEF Answered, f
<1> QED
  BY <1>1, <1>4, <1>5, <1>6, <1>7, Zenon

\* A request nobody waits for any more.
Dead(r) == IF r = NoCall THEN r ELSE [r EXCEPT !.live = FALSE]

\* A request the guest gave up on is the same request, without anyone waiting for it.
LEMMA DeadFacts ==
  /\ Dead(NoCall) = NoCall
  /\ \A r \in Request : Dead(r) \in Request /\ Dead(r) # NoCall
  /\ \A r \in StopJobs : Dead(r) \in StopJobs
  /\ \A r \in Request \cup StopJobs :
       ~Dead(r).live /\ Dead(r).stream = r.stream /\ Dead(r).action = r.action
<1>1. Dead(NoCall) = NoCall
  BY Zenon DEF Dead
<1>2. ASSUME NEW r \in Request
      PROVE  Dead(r) \in Request /\ Dead(r) # NoCall /\ ~Dead(r).live
             /\ Dead(r).stream = r.stream /\ Dead(r).action = r.action
  <2>1. Dead(r) = [r EXCEPT !.live = FALSE]
    BY Kinds, Zenon DEF Dead
  <2>2. Dead(r) \in Request /\ Dead(r).live = FALSE
        /\ Dead(r).stream = r.stream /\ Dead(r).action = r.action
    BY <2>1, Zenon DEF Request
  <2> QED
    BY <2>2, Kinds, Zenon
<1>3. ASSUME NEW r \in StopJobs
      PROVE  Dead(r) \in StopJobs /\ ~Dead(r).live
             /\ Dead(r).stream = r.stream /\ Dead(r).action = r.action
  <2>1. Dead(r) = [r EXCEPT !.live = FALSE]
    BY Kinds, Zenon DEF Dead
  <2>2. Dead(r).live = FALSE
        /\ Dead(r).stream = r.stream /\ Dead(r).action = r.action
    BY <2>1, Zenon DEF StopJobs
  <2>3. Dead(r) \in StopJobs
    BY <2>1, Zenon DEF StopJobs
  <2> QED
    BY <2>2, <2>3, Zenon
<1> QED
  BY <1>1, <1>2, <1>3, Zenon

\* A call that times out leaves its request with the host, with nobody waiting.
LEMMA GiveUpSteps ==
  ASSUME CamType, CallTimeout
  PROVE  CamType' /\ GivesUp
<1> DEFINE q == camera.queue
           v == camera.serving
           qq == [i \in DOMAIN q |-> Dead(q[i])]
           vv == Dead(v)
<1>1. /\ demand.pc \in {"starting", "nexting", "closing"} /\ demand.call = NoCall
      /\ demand' = IF At("closing") THEN Closed ELSE [demand EXCEPT !.pc = "exit"]
      /\ net' = {Dead(r) : r \in net}
      /\ camera' = [camera EXCEPT !.serving = vv, !.queue = qq]
      /\ UNCHANGED <<buffer, slots, stores>>
  BY Zenon DEF CallTimeout, Dead
<1>2. /\ demand \in DemandState /\ net \subseteq Request /\ camera \in CameraState
      /\ q \in Seq(Request \cup StopJobs) /\ v \in Request \cup {NoCall}
  BY Zenon DEF CamType, CameraState
<1>3. qq \in Seq(Request \cup StopJobs) /\ DOMAIN qq = DOMAIN q
      /\ \A i \in DOMAIN q : qq[i] = Dead(q[i])
  <2>1. Len(q) \in Nat /\ DOMAIN q = 1..Len(q)
        /\ \A i \in DOMAIN q : q[i] \in Request \cup StopJobs
    BY <1>2
  <2>2. \A i \in DOMAIN q : Dead(q[i]) \in Request \cup StopJobs
    BY <2>1, DeadFacts, Zenon
  <2>3. qq \in [1..Len(q) -> Request \cup StopJobs]
    BY <2>2
  <2> QED
    BY <2>3
<1>4. vv \in Request \cup {NoCall} /\ (vv = NoCall <=> v = NoCall)
  BY <1>2, DeadFacts, Zenon
<1>5. net' \subseteq Request
  BY <1>1, <1>2, DeadFacts, Zenon
<1> HIDE DEF qq, vv
<1>6. /\ camera' \in CameraState /\ camera'.session = camera.session
      /\ camera'.begun = camera.begun /\ camera'.serving = vv /\ camera'.queue = qq
  BY <1>1, <1>2, <1>3, <1>4, Zenon DEF CameraState
<1>7. demand' \in DemandState /\ demand'.call = NoCall
      /\ \/ /\ demand.pc = "closing" /\ demand'.pc = "black" /\ demand'.stream = 0
            /\ demand'.pixels = Black
         \/ /\ demand.pc \in {"starting", "nexting"} /\ demand'.pc = "exit"
            /\ demand'.stream = demand.stream /\ demand'.pixels = demand.pixels
  <2>1. CASE demand.pc = "closing"
    BY <1>1, <1>2, <2>1, Kinds, ZenonT(40) DEF DemandState, Closed, At, Pcs, BlankPcs, Streaming
  <2>2. CASE demand.pc # "closing"
    BY <1>1, <1>2, <2>2 DEF DemandState, At, Pcs, BlankPcs, Streaming
  <2> QED
    BY <2>1, <2>2, Zenon
<1>8. CamType'
  BY <1>1, <1>5, <1>6, <1>7, Zenon DEF CamType
<1>9. SameHost
  BY <1>1 DEF SameHost
<1>10. v # NoCall => vv.action = v.action /\ vv.stream = v.stream /\ ~vv.live
  BY <1>2, DeadFacts, Zenon DEF vv
<1>11. \A i \in DOMAIN qq : ~qq[i].live /\ qq[i].stream = q[i].stream /\ qq[i].action = q[i].action
  BY <1>2, <1>3, DeadFacts
<1>12. \A r \in net' : ~r.live /\ \E p \in net : p.stream = r.stream /\ p.action = r.action
  BY <1>1, <1>2, DeadFacts
<1>13. OneLive'
  BY <1>6, <1>11, <1>12, Zenon DEF OneLive
<1>14. ASSUME NEW r \in Pending'
       PROVE  ~r.live /\ \E p \in Pending : p.stream = r.stream /\ p.action = r.action
  <2>1. CASE r \in net'
    BY <1>12, <2>1, Zenon DEF Pending
  <2>2. CASE r \in Elems(qq)
    <3>1. PICK i \in DOMAIN qq : r = qq[i]
      BY <2>2, Zenon DEF Elems
    <3>2. q[i] \in Pending
      BY <1>3, Zenon DEF Pending, Elems
    <3> QED
      BY <1>11, <3>1, <3>2, Zenon
  <2>3. CASE r = vv /\ vv # NoCall
    BY <1>4, <1>10, <2>3, Zenon DEF Pending
  <2> QED
    BY <1>6, <2>1, <2>2, <2>3, Zenon DEF Pending
<1> QED
  BY <1>1, <1>4, <1>7, <1>8, <1>9, <1>10, <1>13, <1>14 DEF GivesUp, Takes

\* The stores that wipe slot s.
WipeSet(s) == {Mark(s)} \cup Plain(s, 0, Black)

\* A mark, a commit and the plain stores are stores.
LEMMA StoreFacts ==
  ASSUME NEW s \in SlotIds, NEW g \in Nat, NEW n \in Nat, NEW p \in Pixels
  PROVE  /\ Mark(s) \in Store /\ Commit(s, n) \in Store /\ Plain(s, g, p) \subseteq Store
         /\ \A st \in Plain(s, g, p) :
              /\ st.slot = s /\ st.kind \in {"generation", "pixels"}
              /\ st.kind = "generation" => st.value = g
              /\ st.kind = "pixels" => st.value = p
         /\ Mark(s).slot = s /\ Mark(s).kind = "sequence"
         /\ Commit(s, n).slot = s /\ Commit(s, n).kind = "sequence"
<1>1. Mark(s) \in Store /\ Commit(s, n) \in Store
  BY Zenon DEF Mark, Commit, Store
<1>2. [slot |-> s, kind |-> "generation", value |-> g] \in Store
  BY Zenon DEF Store
<1>3. [slot |-> s, kind |-> "pixels", value |-> p] \in Store
  BY Zenon DEF Store
<1>4. Plain(s, g, p) \subseteq Store
  BY <1>2, <1>3, Zenon DEF Plain
<1>5. \A st \in Plain(s, g, p) :
              /\ st.slot = s /\ st.kind \in {"generation", "pixels"}
              /\ st.kind = "generation" => st.value = g
              /\ st.kind = "pixels" => st.value = p
  BY DEF Plain
<1> QED
  BY <1>1, <1>4, <1>5, Zenon DEF Mark, Commit

\* ashacky_camera_clear wipes every slot that holds something.
LEMMA ClearFacts ==
  /\ camera_clear \in Seq(SUBSET Store)
  /\ \A st : st \in UNION Elems(camera_clear) <=>
               \E s \in SlotIds : slots[s] # EmptySlot /\ st \in WipeSet(s)
<1> DEFINE used == {s \in SlotIds : slots[s] # EmptySlot}
           Wipe(s) == IF s \in used THEN <<WipeSet(s)>> ELSE <<>>
<1>1. camera_clear = Wipe(0) \o Wipe(1) \o Wipe(2)
  BY Zenon DEF camera_clear, WipeSet
<1>2. ASSUME NEW s \in SlotIds
      PROVE  Wipe(s) \in Seq(SUBSET Store)
             /\ Elems(Wipe(s)) = IF s \in used THEN {WipeSet(s)} ELSE {}
  <2>1. WipeSet(s) \subseteq Store
    <3>1. 0 \in Nat /\ Black \in Pixels
      BY Kinds, Zenon
    <3> QED
      BY <3>1, StoreFacts DEF WipeSet
  <2>2. CASE s \in used
    <3>1. Wipe(s) = <<WipeSet(s)>>
      BY <2>2, Zenon
    <3>2. <<WipeSet(s)>> \in Seq(SUBSET Store) /\ DOMAIN <<WipeSet(s)>> = {1}
          /\ <<WipeSet(s)>>[1] = WipeSet(s)
      BY <2>1
    <3> QED
      BY <3>2 DEF Elems
  <2>3. CASE s \notin used
    <3>1. Wipe(s) = <<>> /\ <<>> \in Seq(SUBSET Store) /\ DOMAIN <<>> = {}
      BY <2>3
    <3> QED
      BY <3>1, Zenon DEF Elems
  <2> QED
    BY <2>2, <2>3, Zenon
<1>3. 0 \in SlotIds /\ 1 \in SlotIds /\ 2 \in SlotIds
      /\ \A s \in SlotIds : s = 0 \/ s = 1 \/ s = 2
  BY DEF SlotIds
<1>4. ASSUME NEW p \in Seq(SUBSET Store), NEW q \in Seq(SUBSET Store)
      PROVE  Elems(q \o p) = Elems(q) \cup Elems(p) /\ q \o p \in Seq(SUBSET Store)
  BY ElemsFacts, Zenon
<1> HIDE DEF Wipe
<1>5. camera_clear \in Seq(SUBSET Store)
      /\ Elems(camera_clear) = (Elems(Wipe(0)) \cup Elems(Wipe(1))) \cup Elems(Wipe(2))
  <2>1. /\ Wipe(0) \in Seq(SUBSET Store) /\ Wipe(1) \in Seq(SUBSET Store)
        /\ Wipe(2) \in Seq(SUBSET Store)
    BY <1>2, <1>3, Zenon
  <2>2. Wipe(0) \o Wipe(1) \in Seq(SUBSET Store)
        /\ Elems(Wipe(0) \o Wipe(1)) = Elems(Wipe(0)) \cup Elems(Wipe(1))
    BY <1>4, <2>1, Zenon
  <2> DEFINE w == Wipe(0) \o Wipe(1)
  <2> HIDE DEF w
  <2>3. w \o Wipe(2) \in Seq(SUBSET Store)
        /\ Elems(w \o Wipe(2)) = Elems(w) \cup Elems(Wipe(2))
    BY <1>4, <2>1, Zenon DEF w
  <2>4. camera_clear = w \o Wipe(2)
    BY <1>1, Zenon DEF w
  <2> QED
    BY <2>2, <2>3, <2>4, Zenon DEF w
<1>6. \A x : x \in Elems(camera_clear) <=> \E s \in used : x = WipeSet(s)
  BY <1>2, <1>3, <1>5, Zenon
<1> QED
  BY <1>5, <1>6

\* ashacky_camera_publish writes one slot.
LEMMA PublishFacts ==
  ASSUME NEW s \in SlotIds, NEW g \in Nat, NEW n \in Nat, NEW p \in Pixels
  PROVE  /\ camera_publish(s, g, n, p) \in Seq(SUBSET Store)
         /\ UNION Elems(camera_publish(s, g, n, p))
              = {Mark(s), Commit(s, n)} \cup Plain(s, g, p)
<1> DEFINE a == {Mark(s)} \cup Plain(s, g, p)
           b == {Commit(s, n)}
<1>1. camera_publish(s, g, n, p) = <<a, b>>
  BY Zenon DEF camera_publish
<1>2. a \subseteq Store /\ b \subseteq Store
  BY StoreFacts
<1>3. a \cup b = {Mark(s), Commit(s, n)} \cup Plain(s, g, p)
  OBVIOUS
<1> HIDE DEF a, b
<1>4. <<a, b>> \in Seq(SUBSET Store) /\ DOMAIN <<a, b>> = {1, 2}
      /\ <<a, b>>[1] = a /\ <<a, b>>[2] = b
  BY <1>2
<1>5. Elems(<<a, b>>) = {a, b}
  BY DEF Elems
<1> QED
  BY <1>1, <1>3, <1>4, <1>5, Zenon

\* A store becomes visible.
LEMMA VisibleSteps ==
  ASSUME CamType, StoreVisible
  PROVE  CamType' /\ Visible
<1>1. stores # <<>> /\ stores \in Seq(SUBSET Store) /\ slots \in [SlotIds -> SlotState]
      /\ UNCHANGED <<demand, net, camera, buffer>>
  BY Zenon DEF CamType, StoreVisible
<1>2. PICK st \in Head(stores) :
        /\ slots' = [slots EXCEPT ![st.slot][st.kind] = st.value]
        /\ stores' = IF Head(stores) = {st} THEN Tail(stores)
                     ELSE <<Head(stores) \ {st}>> \o Tail(stores)
  BY Zenon DEF StoreVisible
<1>3. /\ Head(stores) \in Elems(stores) /\ Tail(stores) \in Seq(SUBSET Store)
      /\ Elems(Tail(stores)) \subseteq Elems(stores)
      /\ Elems(stores) \subseteq Elems(Tail(stores)) \cup {Head(stores)}
  BY <1>1, ElemsFacts, Zenon
<1>4. Head(stores) \subseteq Store
  BY <1>1
<1>5. st \in Store /\ st \in Flight
  BY <1>3 DEF Flight
<1> DEFINE h == Head(stores) \ {st}
<1>6. stores' \in Seq(SUBSET Store)
      /\ Elems(stores') \subseteq Elems(Tail(stores)) \cup {h}
      /\ Elems(Tail(stores)) \subseteq Elems(stores')
      /\ (Head(stores) # {st} => h \in Elems(stores'))
  <2>1. CASE Head(stores) = {st}
    BY <1>2, <1>3, <2>1, Zenon
  <2>2. CASE Head(stores) # {st}
    <3>1. h \subseteq Store
      BY <1>4, Zenon
    <3> HIDE DEF h
    <3>2. <<h>> \in Seq(SUBSET Store) /\ DOMAIN <<h>> = {1} /\ <<h>>[1] = h
      BY <3>1
    <3>3. Elems(<<h>>) = {h}
      BY DEF Elems
    <3>4. stores' = <<h>> \o Tail(stores)
      BY <1>2, <2>2, Zenon DEF h
    <3>5. Elems(<<h>> \o Tail(stores)) = Elems(<<h>>) \cup Elems(Tail(stores))
          /\ <<h>> \o Tail(stores) \in Seq(SUBSET Store)
      BY <1>3, <3>2, ElemsFacts, Zenon
    <3> QED
      BY <3>3, <3>4, <3>5, Zenon
  <2> QED
    BY <2>1, <2>2, Zenon
<1>7. Flight' \subseteq Flight /\ Flight \ {st} \subseteq Flight'
  <2>1. Flight' = UNION Elems(stores')
    BY Zenon DEF Flight
  <2>2. ASSUME NEW x \in Flight' PROVE x \in Flight
    <3>1. PICK e \in Elems(stores') : x \in e
      BY <2>1, Zenon
    <3>2. e \in Elems(Tail(stores)) \/ e = h
      BY <1>6, Zenon
    <3>3. \E d \in Elems(stores) : x \in d
      BY <1>3, <3>1, <3>2, Zenon
    <3> QED
      BY <3>3, Zenon DEF Flight
  <2>3. ASSUME NEW x \in Flight, x # st PROVE x \in Flight'
    <3>1. PICK e \in Elems(stores) : x \in e
      BY Zenon DEF Flight
    <3>2. CASE e \in Elems(Tail(stores))
      BY <1>6, <2>1, <3>1, <3>2, Zenon
    <3>3. CASE e = Head(stores)
      <4>1. x \in h /\ Head(stores) # {st}
        BY <2>3, <3>1, <3>3, Zenon
      <4> QED
        BY <1>6, <2>1, <4>1, Zenon
    <3> QED
      BY <1>3, <3>2, <3>3, Zenon
  <2> QED
    BY <2>2, <2>3, Zenon
<1>8. slots' \in [SlotIds -> SlotState]
  <2>1. st.slot \in SlotIds
        /\ \/ st.kind = "sequence" /\ st.value \in Nat
           \/ st.kind = "generation" /\ st.value \in Nat
           \/ st.kind = "pixels" /\ st.value \in Pixels
    BY <1>5, Zenon DEF Store
  <2>2. slots[st.slot] \in SlotState
    BY <1>1, <2>1, Zenon
  <2>3. [slots[st.slot] EXCEPT ![st.kind] = st.value] \in SlotState
    BY <2>1, <2>2, Zenon DEF SlotState
  <2>4. slots' = [slots EXCEPT ![st.slot] = [slots[st.slot] EXCEPT ![st.kind] = st.value]]
    BY <1>2, Zenon
  <2> QED
    BY <1>1, <2>3, <2>4, Zenon
<1>9. CamType'
  BY <1>1, <1>6, <1>8, Zenon DEF CamType
<1> QED
  BY <1>1, <1>2, <1>5, <1>7, <1>9, Zenon DEF Visible

\* The queue is a sequence of requests and stops.
LEMMA Queue ==
  ASSUME CamType
  PROVE  /\ camera.queue \in Seq(Request \cup StopJobs) /\ camera.serving \in Request \cup {NoCall}
         /\ net \subseteq Request /\ camera \in CameraState /\ demand \in DemandState
         /\ camera.session \in Nat /\ camera.begun \in Nat
BY Zenon DEF CamType, CameraState

\* The host takes the first job.
LEMMA TakeHead ==
  ASSUME CamType, OneLive, camera.serving = NoCall, camera.queue # <<>>,
         camera'.queue = Tail(camera.queue), net' = net
  PROVE  /\ camera'.serving = NoCall => Taken(Head(camera.queue))
         /\ camera'.serving = Head(camera.queue) =>
              OneLive' /\ Pending' \subseteq Pending
         /\ Head(camera.queue) \in Pending /\ Head(camera.queue) \in Request \cup StopJobs
<1> DEFINE q == camera.queue
           t == Tail(q)
           h == Head(q)
<1>1. q \in Seq(Request \cup StopJobs)
  BY Queue, Zenon
<1>2. /\ h \in Elems(q) /\ t \in Seq(Request \cup StopJobs) /\ Elems(t) \subseteq Elems(q)
  BY <1>1, ElemsFacts, Zenon
<1>3. h \in Pending /\ h \in Request \cup StopJobs /\ h # NoCall
  BY <1>2, Jobs, Zenon DEF Pending
<1>4. /\ Len(q) \in Nat /\ DOMAIN q = 1..Len(q) /\ DOMAIN t = 1..(Len(q) - 1)
      /\ 1 \in DOMAIN q /\ h = q[1]
      /\ \A i \in DOMAIN t : t[i] = q[i + 1] /\ i + 1 \in DOMAIN q /\ i + 1 # 1
  <2>1. /\ Len(q) \in Nat /\ DOMAIN q = 1..Len(q) /\ DOMAIN t = 1..(Len(q) - 1)
        /\ h = q[1] /\ Len(q) >= 1
        /\ \A i \in 1..(Len(q) - 1) : t[i] = q[i + 1]
    OBVIOUS
  <2> QED
    BY <2>1
<1>5. /\ \A i, j \in DOMAIN t : t[i].live /\ t[j].live => i = j
      /\ \A r \in net, i \in DOMAIN t : ~(r.live /\ t[i].live)
      /\ \A i \in DOMAIN t : ~(h.live /\ t[i].live)
      /\ \A r \in net : ~(h.live /\ r.live)
      /\ \A p, r \in net : p.live /\ r.live => p = r
  <2>1. ASSUME NEW i \in DOMAIN t, NEW j \in DOMAIN t, t[i].live, t[j].live PROVE i = j
    <3>1. i + 1 = j + 1
      BY <1>4, <2>1, Zenon DEF OneLive
    <3> QED
      BY <3>1
  <2>2. ASSUME NEW i \in DOMAIN t, h.live, t[i].live PROVE FALSE
    BY <1>4, <2>2, Zenon DEF OneLive
  <2>3. /\ \A r \in net, i \in DOMAIN t : ~(r.live /\ t[i].live)
        /\ \A r \in net : ~(h.live /\ r.live)
        /\ \A p, r \in net : p.live /\ r.live => p = r
    BY <1>4 DEF OneLive
  <2> QED
    BY <2>1, <2>2, <2>3, Zenon
<1>6. Elems(t) = {t[i] : i \in DOMAIN t}
  BY Zenon DEF Elems
<1> HIDE DEF t, h
<1>7. camera'.queue = t
  BY Zenon DEF t
<1>8. ASSUME camera'.serving = NoCall PROVE Taken(h)
  <2>1. OneLive'
    BY <1>5, <1>7, <1>8, Zenon DEF OneLive
  <2>2. Pending' = net \cup Elems(t)
    BY <1>7, <1>8, Zenon DEF Pending
  <2>3. Pending' \subseteq Pending
    BY <1>2, <2>2, Zenon DEF Pending
  <2>4. h.live => \A p \in Pending' : ~p.live
    BY <1>5, <1>6, <2>2, Zenon
  <2> QED
    BY <1>3, <2>1, <2>3, <2>4, Zenon DEF Taken
<1>9. ASSUME camera'.serving = h PROVE OneLive' /\ Pending' \subseteq Pending
  <2>1. OneLive'
    BY <1>5, <1>7, <1>9, Zenon DEF OneLive
  <2>2. Pending' = net \cup Elems(t) \cup {h}
    BY <1>3, <1>7, <1>9, Zenon DEF Pending
  <2> QED
    BY <1>2, <2>1, <2>2, Zenon DEF Pending
<1> QED
  BY <1>3, <1>8, <1>9, Zenon DEF h

\* The host is done with the request it serves, or with one that arrives.
LEMMA TakeOther ==
  ASSUME CamType, OneLive, camera'.queue = camera.queue
  PROVE  /\ camera.serving # NoCall /\ camera'.serving = NoCall /\ net' = net
              => Taken(camera.serving)
         /\ camera'.serving = NoCall /\ net' = net => Shuffled
         /\ \A r \in net : camera'.serving = camera.serving /\ net' = net \ {r} => Taken(r)
<1>1. ASSUME camera'.serving = NoCall, net' = net
      PROVE  OneLive' /\ Pending' = net \cup Elems(camera.queue)
  BY <1>1, Zenon DEF OneLive, Pending
<1>2. ASSUME camera.serving # NoCall, camera'.serving = NoCall, net' = net
      PROVE  Taken(camera.serving)
  <2>1. OneLive' /\ Pending' = net \cup Elems(camera.queue)
    BY <1>1, <1>2, Zenon
  <2>2. camera.serving.live => /\ \A r \in net : ~r.live
                               /\ \A r \in Elems(camera.queue) : ~r.live
    BY <1>2, Zenon DEF OneLive, Elems
  <2> QED
    BY <1>2, <2>1, <2>2, Zenon DEF Taken, Pending
<1>3. ASSUME camera'.serving = NoCall, net' = net PROVE Shuffled
  BY <1>1, <1>3, Zenon DEF Shuffled, Pending
<1>4. ASSUME NEW r \in net, camera'.serving = camera.serving, net' = net \ {r} PROVE Taken(r)
  <2>1. OneLive'
    BY <1>4, Zenon DEF OneLive
  <2>2. Pending' = (net \ {r}) \cup Elems(camera.queue) \cup ({camera.serving} \ {NoCall})
    BY <1>4, Zenon DEF Pending
  <2>3. ASSUME r.live, NEW p \in Pending', p.live PROVE FALSE
    BY <2>2, <2>3, Zenon DEF OneLive, Elems
  <2> QED
    BY <2>1, <2>2, <2>3, Zenon DEF Taken, Pending
<1> QED
  BY <1>2, <1>3, <1>4, Zenon

\* A request that arrives, or a stop, becomes the last job.
LEMMA AddLast ==
  ASSUME CamType, OneLive, NEW r \in Request \cup StopJobs,
         \/ r \in net /\ net' = net \ {r}
         \/ r \in StopJobs /\ r.stream <= camera.begun /\ net' = net,
         camera'.queue = Append(camera.queue, r), camera'.serving = camera.serving
  PROVE  Shuffled
<1> DEFINE q == camera.queue
           t == Append(q, r)
<1>1. q \in Seq(Request \cup StopJobs)
  BY Queue, Zenon
<1>2. Elems(t) = Elems(q) \cup {r}
  BY <1>1, ElemsFacts
<1>3. /\ Len(q) \in Nat /\ DOMAIN q = 1..Len(q) /\ DOMAIN t = 1..(Len(q) + 1)
      /\ t[Len(q) + 1] = r /\ \A i \in 1..Len(q) : t[i] = q[i]
  OBVIOUS
<1>4. \A i \in DOMAIN t : (i \in DOMAIN q /\ t[i] = q[i]) \/ (i = Len(q) + 1 /\ t[i] = r)
  OBVIOUS
<1>5. r \in StopJobs => ~r.live
  BY Kinds, Zenon
<1>6. ASSUME r.live PROVE /\ \A i \in DOMAIN q : ~q[i].live
                          /\ \A p \in net' : ~p.live
                          /\ camera.serving # NoCall => ~camera.serving.live
  BY <1>5, <1>6, Zenon DEF OneLive
<1>7. /\ \A i, j \in DOMAIN q : q[i].live /\ q[j].live => i = j
      /\ \A p \in net', i \in DOMAIN q : ~(p.live /\ q[i].live)
      /\ \A p, u \in net' : p.live /\ u.live => p = u
      /\ camera.serving # NoCall /\ camera.serving.live =>
           /\ \A p \in net' : ~p.live
           /\ \A i \in DOMAIN q : ~q[i].live
  BY Zenon DEF OneLive
<1>8. camera'.queue = t /\ camera'.serving = camera.serving
  OBVIOUS
<1> HIDE DEF t
<1>9. OneLive'
  <2>1. \A i, j \in DOMAIN t : t[i].live /\ t[j].live => i = j
    BY <1>4, <1>6, <1>7, Zenon
  <2>2. \A p \in net', i \in DOMAIN t : ~(p.live /\ t[i].live)
    BY <1>4, <1>6, <1>7, Zenon
  <2>3. camera.serving # NoCall /\ camera.serving.live =>
           /\ \A p \in net' : ~p.live
           /\ \A i \in DOMAIN t : ~t[i].live
    BY <1>4, <1>6, <1>7, Zenon
  <2> QED
    BY <1>8, <2>1, <2>2, <2>3, Zenon DEF OneLive
<1>10. Pending' = net' \cup (Elems(q) \cup {r}) \cup ({camera.serving} \ {NoCall})
  BY <1>2, <1>8, Zenon DEF Pending
<1>11. net' \subseteq net
  OBVIOUS
<1> QED
  BY <1>9, <1>10, Zenon DEF Shuffled, Pending

\* What the end of a capture leaves.
LEMMA StopFacts ==
  ASSUME CamType, NEW c \in CameraState, Stop(c), stores = <<>>, UNCHANGED slots
  PROVE  /\ camera' \in CameraState /\ buffer' \in BufferState
         /\ stores' \in Seq(SUBSET Store) /\ NewSlots
         /\ camera'.queue = c.queue /\ camera'.session = 0 /\ camera'.begun = c.begun
<1>1. /\ camera' = [c EXCEPT !.session = 0, !.lease = FALSE, !.serving = NoCall]
      /\ buffer' = [buffer EXCEPT !.queued = NoFrame, !.leased = NoFrame]
      /\ stores' = camera_clear
  BY Zenon DEF Stop
<1>2. /\ camera' \in CameraState /\ camera'.serving = NoCall
      /\ camera'.queue = c.queue /\ camera'.session = 0 /\ camera'.begun = c.begun
  BY <1>1, Zenon DEF CameraState
<1>3. buffer' \in BufferState /\ buffer'.queued = NoFrame /\ buffer'.leased = NoFrame
  BY <1>1, Kinds, Zenon DEF CamType, BufferState
<1> QED
  BY <1>1, <1>2, <1>3, ClearFacts, Zenon DEF NewSlots

\* What the beginning of a capture leaves.
LEMMA BeginFacts ==
  ASSUME CamType, NEW c \in CameraState, Begin(c), stores = <<>>, UNCHANGED slots,
         c.serving = NoCall
  PROVE  /\ camera' \in CameraState /\ buffer' \in BufferState
         /\ stores' \in Seq(SUBSET Store) /\ NewSlots
         /\ camera'.queue = c.queue /\ camera'.session = c.begun + 1
         /\ camera'.begun = c.begun + 1
<1> DEFINE n == c.begun + 1
<1>1. /\ camera' = [c EXCEPT !.session = n, !.begun = n, !.lease = TRUE]
      /\ buffer' = [sequence |-> 0, queued |-> NoFrame, leased |-> NoFrame]
      /\ stores' = camera_clear
  BY Zenon DEF Begin, CameraState
<1>2. n \in Nat
  BY DEF CameraState
<1> HIDE DEF n
<1>3. /\ camera' \in CameraState /\ camera'.serving = NoCall
      /\ camera'.queue = c.queue /\ camera'.session = n /\ camera'.begun = n
  BY <1>1, <1>2, Zenon DEF CameraState
<1>4. buffer' \in BufferState /\ buffer'.queued = NoFrame /\ buffer'.leased = NoFrame
  BY <1>1, Kinds, Zenon DEF BufferState
<1> QED
  BY <1>1, <1>3, <1>4, ClearFacts, Zenon DEF NewSlots, n

\* The guest's state after an answer.
LEMMA ToldType ==
  ASSUME CamType, NEW r \in Request, NEW ok \in BOOLEAN, NEW f \in Frames,
         demand' = Replied(demand, r, ok, f)
  PROVE  demand' \in DemandState
<1>1. PICK d : d = Replied(demand, r, ok, f)
  OBVIOUS
<1>2. d \in DemandState
  BY <1>1, RepliedFacts DEF CamType, Replies
<1> QED
  BY <1>1, <1>2, Zenon

\* A request that reaches the host is queued behind the others, or refused.
LEMMA ArriveSteps ==
  ASSUME CamType, Talk, Arrive
  PROVE  CamType' /\ (Shuffles \/ Fails)
<1>1. PICK r \in net :
        /\ net' = net \ {r}
        /\ IF camera.active
           THEN /\ camera' = [camera EXCEPT !.queue = Append(@, r)]
                /\ UNCHANGED demand
           ELSE UNCHANGED camera /\ Fail(r)
        /\ UNCHANGED <<buffer, slots, stores>>
  BY Zenon DEF Arrive
<1>2. /\ camera.queue \in Seq(Request \cup StopJobs) /\ net \subseteq Request
      /\ camera \in CameraState /\ OneLive /\ r \in Request /\ r \in Pending
  BY Queue, Zenon DEF Talk, Pending
<1>3. CASE camera.active
  <2> DEFINE t == Append(camera.queue, r)
  <2>1. t \in Seq(Request \cup StopJobs)
    BY <1>2
  <2>2. camera' = [camera EXCEPT !.queue = t] /\ UNCHANGED demand
    BY <1>1, <1>3, Zenon
  <2>3. camera'.queue = Append(camera.queue, r)
    BY <2>2 DEF CameraState
  <2> HIDE DEF t
  <2>4. /\ camera' \in CameraState /\ camera'.session = camera.session
        /\ camera'.begun = camera.begun /\ camera'.serving = camera.serving
    BY <1>2, <2>1, <2>2, Zenon DEF CameraState
  <2>5. CamType'
    BY <1>1, <2>2, <2>4, Zenon DEF CamType
  <2>6. Shuffled
    BY <1>1, <1>2, <2>3, <2>4, AddLast, Zenon
  <2> QED
    BY <1>1, <2>2, <2>5, <2>6 DEF Shuffles, SameHost
<1>4. CASE ~camera.active
  <2>1. UNCHANGED camera /\ demand' = Replied(demand, r, FALSE, NoFrame)
    BY <1>1, <1>4, Zenon DEF Fail
  <2>2. demand' \in DemandState
    BY <1>2, <2>1, Kinds, ToldType, Zenon
  <2>3. CamType'
    BY <1>1, <2>1, <2>2, Zenon DEF CamType
  <2>4. Taken(r)
    BY <1>1, <1>2, <2>1, TakeOther, Zenon
  <2> QED
    BY <1>1, <1>2, <2>1, <2>3, <2>4, Zenon DEF Fails, Told, SameHost
<1> QED
  BY <1>3, <1>4, Zenon

\* The first job of the queue.
LEMMA JobSteps ==
  ASSUME CamType, Talk, Job
  PROVE  CamType' /\ (Shuffles \/ Fails \/ Stops \/ Begins \/ Serves)
<1>1. /\ camera.serving = NoCall /\ stores = <<>> /\ camera.queue # <<>>
      /\ UNCHANGED <<net, slots>> /\ OneLive
  BY Zenon DEF Job, Talk
<1>2. PICK c : c = [camera EXCEPT !.queue = Tail(@)]
  BY Zenon
<1>3. PICK job : job = Head(camera.queue)
  OBVIOUS
<1>4. IF job.action = "stop" THEN StopJob(c, job.stream) ELSE request(c, job)
  BY <1>2, <1>3, Zenon DEF Job
<1>5. /\ camera.queue \in Seq(Request \cup StopJobs) /\ camera \in CameraState
      /\ demand \in DemandState /\ net \subseteq Request
      /\ Tail(camera.queue) \in Seq(Request \cup StopJobs)
  <2>1. /\ camera.queue \in Seq(Request \cup StopJobs) /\ camera \in CameraState
        /\ demand \in DemandState /\ net \subseteq Request
    BY Queue, Zenon
  <2> QED
    BY <1>1, <2>1
<1>6. /\ c \in CameraState /\ c.queue = Tail(camera.queue) /\ c.session = camera.session
      /\ c.begun = camera.begun /\ c.serving = NoCall /\ c.active = camera.active
  <2> DEFINE t == Tail(camera.queue)
  <2>1. c = [camera EXCEPT !.queue = t] /\ t \in Seq(Request \cup StopJobs)
    BY <1>2, <1>5, Zenon
  <2> HIDE DEF t
  <2>2. /\ c \in CameraState /\ c.queue = t /\ c.session = camera.session
        /\ c.begun = camera.begun /\ c.serving = camera.serving /\ c.active = camera.active
    BY <1>5, <2>1, Zenon DEF CameraState
  <2> QED
    BY <1>1, <2>2, Zenon DEF t
<1>7. ASSUME camera'.queue = Tail(camera.queue)
      PROVE  /\ camera'.serving = NoCall => Taken(job) /\ Shuffled
             /\ camera'.serving = job => Shuffled
             /\ job \in Pending /\ job \in Request \cup StopJobs
  <2>1. /\ camera'.serving = NoCall => Taken(job)
        /\ camera'.serving = job => OneLive' /\ Pending' \subseteq Pending
        /\ job \in Pending /\ job \in Request \cup StopJobs
    BY <1>1, <1>3, <1>7, TakeHead, Zenon
  <2> QED
    BY <2>1, Zenon DEF Taken, Shuffled
<1>8. job \in Request \cup StopJobs
  BY <1>3, <1>5
<1>9. buffer \in BufferState /\ slots \in [SlotIds -> SlotState] /\ stores \in Seq(SUBSET Store)
  BY Zenon DEF CamType
<1>10. ASSUME Stop(c)
       PROVE  /\ camera' \in CameraState /\ buffer' \in BufferState
              /\ stores' \in Seq(SUBSET Store) /\ NewSlots
              /\ camera'.session = 0 /\ camera'.begun = camera.begun
              /\ job \in Pending /\ Taken(job) /\ Shuffled
  <2>1. /\ camera' \in CameraState /\ buffer' \in BufferState
        /\ stores' \in Seq(SUBSET Store) /\ NewSlots
        /\ camera'.queue = c.queue /\ camera'.session = 0 /\ camera'.begun = c.begun
    BY <1>1, <1>6, <1>10, StopFacts, Zenon
  <2> QED
    BY <1>6, <1>7, <2>1, Zenon DEF NewSlots
<1>11. ASSUME Keep(c)
       PROVE  /\ camera' \in CameraState /\ UNCHANGED <<buffer, stores>> /\ SameHost
              /\ camera'.serving = camera.serving /\ job \in Pending /\ Taken(job) /\ Shuffled
  <2>1. camera' = c /\ UNCHANGED <<buffer, stores>>
    BY <1>11, Zenon DEF Keep
  <2> QED
    BY <1>1, <1>6, <1>7, <2>1, Zenon DEF SameHost
<1>12. CASE job.action = "stop"
  <2>1. UNCHANGED demand /\ (Stop(c) \/ Keep(c))
    BY <1>4, <1>12, Zenon DEF StopJob
  <2>2. CASE Stop(c)
    <3>1. CamType'
      BY <1>1, <1>10, <2>1, <2>2, Zenon DEF CamType
    <3> QED
      BY <1>10, <2>1, <2>2, <3>1, Zenon DEF Stops
  <2>3. CASE Keep(c)
    <3>1. CamType'
      BY <1>1, <1>11, <2>1, <2>3, Zenon DEF CamType
    <3> QED
      BY <1>11, <2>1, <2>3, <3>1, Zenon DEF Shuffles
  <2> QED
    BY <2>1, <2>2, <2>3, Zenon
<1>13. CASE job.action # "stop"
  <2>1. job \in Request /\ request(c, job)
    BY <1>4, <1>8, <1>13, Kinds, Zenon
  <2>2. \/ Stop(c) /\ Fail(job)
        \/ Keep(c) /\ Fail(job)
        \/ job.action = "camera-start" /\ Begin(c)
           /\ Succeed(job, [slot |-> c.begun + 1, sequence |-> 0])
        \/ job.action = "camera-stop" /\ Stop(c) /\ Succeed(job, NoFrame)
        \/ /\ job.action = "camera-next" /\ job.stream = c.session
           /\ camera' = [c EXCEPT !.serving = job]
           /\ buffer' = [buffer EXCEPT !.leased = NoFrame]
           /\ UNCHANGED <<demand, stores>>
    BY <2>1, Zenon DEF request
  <2>3. CASE Stop(c) /\ Fail(job)
    <3>1. demand' = Replied(demand, job, FALSE, NoFrame)
      BY <2>3, Zenon DEF Fail
    <3>2. demand' \in DemandState
      BY <2>1, <3>1, Kinds, ToldType, Zenon
    <3>3. CamType'
      BY <1>1, <1>10, <2>3, <3>2, Zenon DEF CamType
    <3>4. Told(job, FALSE, NoFrame)
      BY <2>1, <3>1, Zenon DEF Told
    <3> QED
      BY <1>10, <2>3, <3>3, <3>4, Zenon DEF Stops
  <2>4. CASE Keep(c) /\ Fail(job)
    <3>1. demand' = Replied(demand, job, FALSE, NoFrame)
      BY <2>4, Zenon DEF Fail
    <3>2. demand' \in DemandState
      BY <2>1, <3>1, Kinds, ToldType, Zenon
    <3>3. CamType'
      BY <1>1, <1>11, <2>4, <3>2, Zenon DEF CamType
    <3>4. Told(job, FALSE, NoFrame)
      BY <2>1, <3>1, Zenon DEF Told
    <3> QED
      BY <1>11, <2>4, <3>3, <3>4, Zenon DEF Fails
  <2>5. CASE job.action = "camera-start" /\ Begin(c)
             /\ Succeed(job, [slot |-> c.begun + 1, sequence |-> 0])
    <3> DEFINE f == [slot |-> c.begun + 1, sequence |-> 0]
    <3>1. demand' = Replied(demand, job, TRUE, f)
      BY <2>5, Zenon DEF Succeed
    <3>2. c.begun \in Nat
      BY <1>6, Zenon DEF CameraState
    <3>3. f \in Frames
      BY <3>2 DEF Frames
    <3>4. demand' \in DemandState
      BY <2>1, <3>1, <3>3, ToldType, Zenon
    <3>5. /\ camera' \in CameraState /\ buffer' \in BufferState
          /\ stores' \in Seq(SUBSET Store) /\ NewSlots
          /\ camera'.queue = c.queue /\ camera'.session = c.begun + 1
          /\ camera'.begun = c.begun + 1
      BY <1>1, <1>6, <2>5, BeginFacts, Zenon
    <3>6. CamType'
      BY <1>1, <3>4, <3>5, Zenon DEF CamType
    <3>7. Told(job, TRUE, [slot |-> camera.begun + 1, sequence |-> 0])
      BY <1>6, <2>1, <3>1, Zenon DEF Told
    <3>8. Taken(job) /\ job \in Pending
      BY <1>6, <1>7, <3>5, Zenon DEF NewSlots
    <3> QED
      BY <1>6, <2>5, <3>5, <3>6, <3>7, <3>8, Zenon DEF Begins
  <2>6. CASE job.action = "camera-stop" /\ Stop(c) /\ Succeed(job, NoFrame)
    <3>1. demand' = Replied(demand, job, TRUE, NoFrame)
      BY <2>6, Zenon DEF Succeed
    <3>2. demand' \in DemandState
      BY <2>1, <3>1, Kinds, ToldType, Zenon
    <3>3. CamType'
      BY <1>1, <1>10, <2>6, <3>2, Zenon DEF CamType
    <3>4. Told(job, TRUE, NoFrame)
      BY <2>1, <3>1, Zenon DEF Told
    <3> QED
      BY <1>10, <2>6, <3>3, <3>4, Zenon DEF Stops
  <2>7. CASE /\ job.action = "camera-next" /\ job.stream = c.session
             /\ camera' = [c EXCEPT !.serving = job]
             /\ buffer' = [buffer EXCEPT !.leased = NoFrame]
             /\ UNCHANGED <<demand, stores>>
    <3>1. /\ camera' \in CameraState /\ camera'.queue = c.queue /\ camera'.serving = job
          /\ camera'.session = c.session /\ camera'.begun = c.begun
      BY <1>6, <2>1, <2>7, Zenon DEF CameraState
    <3>2. /\ buffer' \in BufferState /\ buffer'.queued = buffer.queued
          /\ buffer'.leased = NoFrame
      BY <1>9, <2>7, Kinds, Zenon DEF BufferState
    <3>3. CamType'
      BY <1>1, <2>7, <3>1, <3>2, Zenon DEF CamType
    <3>4. Shuffled /\ job \in Pending
      BY <1>6, <1>7, <3>1, Zenon
    <3> QED
      BY <1>1, <1>6, <2>1, <2>7, <3>3, <3>4 DEF Serves
  <2> QED
    BY <2>2, <2>3, <2>4, <2>5, <2>6, <2>7, Zenon
<1> QED
  BY <1>12, <1>13, Zenon

\* The camera-next that is served ends with a lease, or with the end of the capture.
LEMMA ServedSteps ==
  ASSUME CamType, Talk, NextFrame \/ NextStalled \/ LeaseExpires
  PROVE  CamType' /\ (Leases \/ Stops)
<1>1. /\ demand \in DemandState /\ net \subseteq Request /\ camera \in CameraState
      /\ camera.queue \in Seq(Request \cup StopJobs) /\ OneLive
      /\ camera.serving \in Request \cup {NoCall}
      /\ buffer \in BufferState /\ slots \in [SlotIds -> SlotState]
  BY Queue, Zenon DEF CamType, Talk
<1>2. CASE NextFrame
  <2> DEFINE f == buffer.queued
             r == camera.serving
  <2>1. /\ r # NoCall /\ stores = <<>> /\ f # NoFrame
        /\ buffer' = [buffer EXCEPT !.leased = f, !.queued = NoFrame]
        /\ camera' = [camera EXCEPT !.lease = TRUE, !.serving = NoCall]
        /\ demand' = Replied(demand, r, TRUE, f)
        /\ UNCHANGED <<net, slots, stores>>
    BY <1>2, Zenon DEF NextFrame, Succeed
  <2>2. f \in Frames /\ r \in Request
    BY <1>1, <2>1, Zenon DEF BufferState
  <2>3. demand' \in DemandState
    BY <2>1, <2>2, ToldType, Zenon
  <2>4. buffer' \in BufferState /\ buffer'.leased = buffer.queued /\ buffer'.queued = NoFrame
    BY <1>1, <2>1, Kinds, Zenon DEF BufferState
  <2>5. /\ camera' \in CameraState /\ camera'.serving = NoCall /\ camera'.queue = camera.queue
        /\ camera'.session = camera.session /\ camera'.begun = camera.begun
    BY <1>1, <2>1, Zenon DEF CameraState
  <2>6. CamType'
    BY <2>1, <2>3, <2>4, <2>5, Zenon DEF CamType
  <2>7. Taken(camera.serving)
    BY <1>1, <2>1, TakeOther
  <2>8. Told(camera.serving, TRUE, buffer.queued)
    BY <2>1, <2>2, Zenon DEF Told
  <2> QED
    BY <2>1, <2>4, <2>5, <2>6, <2>7, <2>8, Zenon DEF Leases
<1>3. CASE NextStalled
  <2>1. /\ camera.serving # NoCall /\ stores = <<>> /\ Stop(camera)
        /\ demand' = Replied(demand, camera.serving, FALSE, NoFrame)
        /\ UNCHANGED <<net, slots>>
    BY <1>3, Zenon DEF NextStalled, Fail
  <2>2. camera.serving \in Request /\ camera.serving \in Pending
    BY <1>1, <2>1, Zenon DEF Pending
  <2>3. demand' \in DemandState
    BY <2>1, <2>2, Kinds, ToldType, Zenon
  <2>4. /\ camera' \in CameraState /\ buffer' \in BufferState
        /\ stores' \in Seq(SUBSET Store) /\ NewSlots
        /\ camera'.queue = camera.queue /\ camera'.session = 0
        /\ camera'.begun = camera.begun
    <3>1. PICK c : c = camera
      OBVIOUS
    <3> QED
      BY <1>1, <2>1, StopFacts, Zenon
  <2>5. CamType'
    BY <2>1, <2>3, <2>4, Zenon DEF CamType
  <2>6. Taken(camera.serving)
    BY <1>1, <2>1, <2>4, TakeOther, Zenon DEF NewSlots
  <2>7. Told(camera.serving, FALSE, NoFrame)
    BY <2>1, <2>2, Zenon DEF Told
  <2> QED
    BY <2>2, <2>4, <2>5, <2>6, <2>7, Zenon DEF Stops
<1>4. CASE LeaseExpires
  <2>1. /\ stores = <<>> /\ Stop(camera) /\ UNCHANGED <<demand, net, slots>>
    BY <1>4, Zenon DEF LeaseExpires
  <2>2. /\ camera' \in CameraState /\ buffer' \in BufferState
        /\ stores' \in Seq(SUBSET Store) /\ NewSlots
        /\ camera'.queue = camera.queue /\ camera'.session = 0
        /\ camera'.begun = camera.begun
    <3>1. PICK c : c = camera
      OBVIOUS
    <3> QED
      BY <1>1, <2>1, StopFacts, Zenon
  <2>3. CamType'
    BY <2>1, <2>2, Zenon DEF CamType
  <2>4. Shuffled
    BY <1>1, <2>1, <2>2, TakeOther, Zenon DEF NewSlots
  <2> QED
    BY <2>1, <2>2, <2>3, <2>4, Zenon DEF Stops
<1> QED
  BY <1>2, <1>3, <1>4, Zenon

\* There is a slot to write, and it is neither the queued nor the leased one.
LEMMA FreeSlot ==
  \E s \in FreeSlots : /\ s = CHOOSE t \in FreeSlots : \A u \in FreeSlots : t <= u
                       /\ s \in SlotIds
<1>1. \E t \in FreeSlots : \A u \in FreeSlots : t <= u
  <2>1. FreeSlots \subseteq 0..2
    BY Zenon DEF FreeSlots, SlotIds
  <2>2. 0 \in FreeSlots \/ 1 \in FreeSlots \/ 2 \in FreeSlots
    BY DEF FreeSlots, SlotIds, Holds
  <2> QED
    BY <2>1, <2>2
<1> QED
  BY <1>1, Zenon DEF FreeSlots

\* A sample of the capture is published into a free slot, or dropped.
LEMMA SampleSteps ==
  ASSUME CamType, Talk, NEW o \in 1..camera.begun, NEW good \in BOOLEAN,
         captureOutput(o, good)
  PROVE  CamType' /\ (Publishes \/ Shuffles)
<1>1. /\ demand \in DemandState /\ net \subseteq Request /\ camera \in CameraState
      /\ camera.queue \in Seq(Request \cup StopJobs) /\ OneLive
      /\ buffer \in BufferState /\ slots \in [SlotIds -> SlotState]
      /\ camera.session \in Nat /\ camera.begun \in Nat
  BY Queue, Zenon DEF CamType, Talk
<1>2. /\ camera.session = o /\ stores = <<>> /\ UNCHANGED <<demand, net, slots>>
      /\ \/ Publish(o)
         \/ /\ camera' = [camera EXCEPT !.queue = Append(@, StopFor(o))]
            /\ UNCHANGED <<buffer, stores>>
  BY Zenon DEF captureOutput
<1>3. CASE Publish(o)
  <2> DEFINE n == buffer.sequence + 1
  <2>1. PICK s \in FreeSlots : /\ s = CHOOSE t \in FreeSlots : \A u \in FreeSlots : t <= u
                               /\ s \in SlotIds
    BY FreeSlot, Zenon
  <2>2. n \in Nat /\ n >= 1
    BY <1>1 DEF BufferState
  <2> DEFINE f == [slot |-> s, sequence |-> n]
  <2>3. /\ buffer' = [buffer EXCEPT !.sequence = n, !.queued = f]
        /\ stores' = camera_publish(s, camera.session, n, <<o, n>>)
        /\ UNCHANGED camera
    BY <1>3, <2>1, Zenon DEF Publish
  <2>4. f \in Frames
    <3>1. s \in SlotIds
      BY <2>1, Zenon
    <3>2. s \in Nat
      BY <3>1 DEF SlotIds
    <3> HIDE DEF n
    <3> QED
      BY <2>2, <3>2, Zenon DEF Frames
  <2>5. <<o, n>> \in Pixels
    BY <2>2 DEF Pixels
  <2> HIDE DEF n, f
  <2>6. buffer' \in BufferState /\ buffer'.queued = f /\ buffer'.leased = buffer.leased
    BY <1>1, <2>2, <2>3, <2>4, Zenon DEF BufferState
  <2>7. stores' \in Seq(SUBSET Store)
    BY <1>1, <2>1, <2>2, <2>3, <2>5, PublishFacts, Zenon
  <2>8. CamType'
    BY <1>2, <2>3, <2>6, <2>7, Zenon DEF CamType
  <2> QED
    BY <1>2, <2>2, <2>3, <2>8 DEF Publishes, f
<1>4. CASE /\ camera' = [camera EXCEPT !.queue = Append(@, StopFor(o))]
           /\ UNCHANGED <<buffer, stores>>
  <2>1. StopFor(o) \in StopJobs /\ StopFor(o).stream <= camera.begun
    BY DEF StopFor, StopJobs
  <2> DEFINE t == Append(camera.queue, StopFor(o))
  <2>2. t \in Seq(Request \cup StopJobs)
    BY <1>1, <2>1
  <2>3. camera' = [camera EXCEPT !.queue = t]
    BY <1>4, Zenon
  <2> HIDE DEF t
  <2>4. /\ camera' \in CameraState /\ camera'.session = camera.session
        /\ camera'.begun = camera.begun /\ camera'.serving = camera.serving
        /\ camera'.queue = t
    BY <1>1, <2>2, <2>3, Zenon DEF CameraState
  <2>5. Shuffled
    BY <1>1, <1>2, <2>1, <2>4, AddLast, Zenon DEF t
  <2>6. CamType'
    BY <1>2, <1>4, <2>4, Zenon DEF CamType
  <2> QED
    BY <1>2, <1>4, <2>5, <2>6 DEF Shuffles, SameHost
<1> QED
  BY <1>2, <1>3, <1>4, Zenon

\* The end of the host's session queues a stop.
LEMMA ResignSteps ==
  ASSUME CamType, Talk, Resign
  PROVE  CamType' /\ Shuffles
<1>1. /\ demand \in DemandState /\ net \subseteq Request /\ camera \in CameraState
      /\ camera.queue \in Seq(Request \cup StopJobs) /\ OneLive
      /\ camera.begun \in Nat /\ UNCHANGED <<demand, net, buffer, slots, stores>>
  BY Queue, Zenon DEF CamType, Talk, Resign
<1>2. StopFor(0) \in StopJobs /\ StopFor(0).stream <= camera.begun
  BY <1>1 DEF StopFor, StopJobs
<1> DEFINE a == ~camera.active
           t == IF camera.active THEN Append(camera.queue, StopFor(0)) ELSE camera.queue
<1>3. camera' = [camera EXCEPT !.active = a, !.queue = t]
  BY Zenon DEF Resign
<1>4. a \in BOOLEAN /\ t \in Seq(Request \cup StopJobs)
      /\ (t = camera.queue \/ t = Append(camera.queue, StopFor(0)))
  BY <1>1, <1>2
<1> HIDE DEF a, t
<1>5. /\ camera' \in CameraState /\ camera'.session = camera.session
      /\ camera'.begun = camera.begun /\ camera'.serving = camera.serving
      /\ camera'.queue = t
  BY <1>1, <1>3, <1>4, Zenon DEF CameraState
<1>6. Shuffled
  <2>1. CASE t = camera.queue
    <3>1. OneLive' /\ Pending' = Pending
      BY <1>1, <1>5, <2>1, Zenon DEF OneLive, Pending
    <3> QED
      BY <3>1, Zenon DEF Shuffled
  <2>2. CASE t = Append(camera.queue, StopFor(0))
    BY <1>1, <1>2, <1>5, <2>2, AddLast, Zenon
  <2> QED
    BY <1>4, <2>1, <2>2, Zenon
<1>7. CamType'
  BY <1>1, <1>5, Zenon DEF CamType
<1> QED
  BY <1>1, <1>5, <1>6, <1>7, Zenon DEF Shuffles, SameHost

\* Every step is of one of the kinds.
LEMMA CamSteps ==
  ASSUME CamInv, CamNext
  PROVE  CamType' /\ CamStep
<1>0. CamType /\ Talk /\ Leased
  BY Zenon DEF CamInv
<1> USE DEF CamStep
<1>1. CASE GuestStep
  <2>1. CASE /\ \/ LoopHead \/ Check \/ CallWait \/ EnterWait \/ Wake
                \/ EndLoop \/ CopyCheck \/ Pause
             /\ GuestOnly
    BY <1>0, <2>1, PlainMoves, Zenon
  <2>2. CASE (ClearChanged \/ WriteFrame \/ WriteBlack \/ Cleanup) /\ GuestOnly
    BY <1>0, <2>2, OtherMoves, Zenon
  <2>3. CASE (CopyPixels \/ CopyVerify) /\ GuestOnly
    BY <1>0, <2>3, CopySteps, Zenon
  <2>4. CASE Reply /\ GuestOnly
    BY <1>0, <2>4, ReplySteps, Zenon
  <2>5. CASE EnterStream
    <3>1. CASE Go("black") /\ GuestOnly
      BY <1>0, <2>5, <3>1, PlainMoves, Zenon DEF EnterStream
    <3>2. CASE Call("camera-start", "starting")
      <4>1. demand.pc = "start"
        BY <2>5, Zenon DEF EnterStream, At
      <4>2. "camera-start" \in Actions /\ "starting" \in Pcs
            /\ <<"starting", "camera-start">> \in Match
        BY Zenon DEF Actions, Pcs, Match
      <4> QED
        BY <1>0, <3>2, <4>1, <4>2, AskSteps, Zenon
    <3> QED
      BY <2>5, <3>1, <3>2, Zenon DEF EnterStream
  <2>6. CASE NextCall
    <3>1. demand.pc = "loop" /\ Call("camera-next", "nexting")
      BY <2>6, Zenon DEF NextCall, At
    <3>2. "camera-next" \in Actions /\ "nexting" \in Pcs
          /\ <<"nexting", "camera-next">> \in Match
      BY Zenon DEF Actions, Pcs, Match, Streaming
    <3> QED
      BY <1>0, <3>1, <3>2, AskSteps, Zenon
  <2>7. CASE ExitStream
    <3>1. CASE demand.stream = 0
      BY <1>0, <2>7, <3>1, PlainMoves, Zenon DEF ExitStream
    <3>2. CASE demand.stream # 0
      <4>1. demand.pc = "exit" /\ Call("camera-stop", "closing")
        BY <2>7, <3>2, Zenon DEF ExitStream, At
      <4>2. "camera-stop" \in Actions /\ "closing" \in Pcs
            /\ <<"closing", "camera-stop">> \in Match
        BY Zenon DEF Actions, Pcs, Match
      <4> QED
        BY <1>0, <4>1, <4>2, AskSteps, Zenon
    <3> QED
      BY <3>1, <3>2, Zenon
  <2> QED
    BY <1>1, <2>1, <2>2, <2>3, <2>4, <2>5, <2>6, <2>7, Zenon DEF GuestStep
<1>2. CASE HostStep
  BY <1>0, <1>2, ArriveSteps, JobSteps, ServedSteps, VisibleSteps, Zenon DEF HostStep
<1>3. CASE NextStalled \/ LeaseExpires
  BY <1>0, <1>3, ServedSteps, Zenon
<1>4. CASE Notify /\ GuestOnly
  BY <1>0, <1>4, OtherMoves, Zenon
<1>5. CASE \E o \in 1..camera.begun, good \in BOOLEAN : captureOutput(o, good)
  BY <1>0, <1>5, SampleSteps, Zenon
<1>6. CASE Resign
  BY <1>0, <1>6, ResignSteps, Zenon
<1>7. CASE CallTimeout
  BY <1>0, <1>7, GiveUpSteps, Zenon
<1>8. CASE Reader \/ ChildEnds \/ Terminated
  BY <1>0, <1>8, OtherMoves, Zenon
<1> QED
  BY <1>1, <1>2, <1>3, <1>4, <1>5, <1>6, <1>7, <1>8, Zenon DEF CamNext

\* The types the following proofs use.
LEMMA Basics ==
  ASSUME CamType
  PROVE  /\ demand.stream \in Nat /\ demand.pc \in Pcs /\ camera.session \in Nat
         /\ camera.begun \in Nat /\ demand.call \in Answers \cup {NoCall}
         /\ demand.frame \in Frames /\ camera.serving \in Request \cup {NoCall}
         /\ buffer.queued \in Frames /\ buffer.leased \in Frames
         /\ demand.call # NoCall => demand.call.frame \in Frames /\ demand.call.ok \in BOOLEAN
         /\ demand.frame.slot \in Nat /\ demand.frame.sequence \in Nat
         /\ \A s \in SlotIds : slots[s] \in SlotState
         /\ Flight \subseteq Store
<1>1. /\ demand.stream \in Nat /\ demand.pc \in Pcs /\ demand.call \in Answers \cup {NoCall}
      /\ demand.frame \in Frames
  BY Zenon DEF CamType, DemandState
<1>2. /\ camera.session \in Nat /\ camera.begun \in Nat
      /\ camera.serving \in Request \cup {NoCall}
  BY Zenon DEF CamType, CameraState
<1>3. buffer.queued \in Frames /\ buffer.leased \in Frames
  BY Zenon DEF CamType, BufferState
<1>4. demand.call # NoCall => demand.call.frame \in Frames /\ demand.call.ok \in BOOLEAN
  BY <1>1, Zenon DEF Answers
<1>5. demand.frame.slot \in Nat /\ demand.frame.sequence \in Nat
  BY <1>1, Zenon DEF Frames
<1>6. \A s \in SlotIds : slots[s] \in SlotState
  BY Zenon DEF CamType
<1>7. Flight \subseteq Store
  <2>1. stores \in Seq(SUBSET Store)
    BY Zenon DEF CamType
  <2>2. \A i \in DOMAIN stores : stores[i] \subseteq Store
    BY <2>1
  <2> QED
    BY <2>2, Zenon DEF Flight, Elems
<1> QED
  BY <1>1, <1>2, <1>3, <1>4, <1>5, <1>6, <1>7, Zenon

\* The guest's answer, for a request of the guest that the host took.
LEMMA ToldFacts ==
  ASSUME CamType, Talk, NEW r \in Pending, NEW ok \in BOOLEAN, NEW f \in Frames,
         Told(r, ok, f)
  PROVE  /\ demand'.pc = demand.pc /\ demand'.stream = demand.stream
         /\ demand'.sequence = demand.sequence /\ demand'.frame = demand.frame
         /\ demand'.pixels = demand.pixels /\ demand'.out = demand.out
         /\ \/ ~r.live /\ demand'.call = demand.call
            \/ /\ r.live /\ demand.call = NoCall /\ <<demand.pc, r.action>> \in Match
               /\ r.stream = demand.stream
               /\ demand'.call # NoCall /\ demand'.call.ok = ok /\ demand'.call.frame = f
<1>1. r \in Request /\ demand' = Replied(demand, r, ok, f) /\ demand \in DemandState
  BY Zenon DEF Told, CamType
<1>1a. PICK d : d = Replied(demand, r, ok, f)
  OBVIOUS
<1>2. Replies(d, r, ok, f)
  BY <1>1, <1>1a, RepliedFacts, Zenon
<1>3. CASE r.live
  BY <1>1, <1>1a, <1>2, Zenon DEF Talk, Replies
<1>4. CASE ~r.live
  BY <1>1, <1>1a, <1>2, <1>4, Zenon DEF Replies
<1> QED
  BY <1>3, <1>4, Zenon

\* The steps that leave the calls and the captures alone.
LEMMA TalkGuest ==
  ASSUME CamInv, CamType', Moves \/ Copies \/ Verifies
  PROVE  Talk'
<1>1. /\ Talk /\ CamType /\ UNCHANGED <<net, camera>>
      /\ demand'.stream = demand.stream /\ demand'.call = demand.call
  BY Zenon DEF CamInv, Moves, Copies, Verifies
<1>2. /\ \/ demand'.pc = demand.pc
         \/ /\ demand'.pc \notin {"starting", "nexting", "closing"}
            /\ demand.pc \notin {"starting", "nexting", "closing"}
      /\ demand'.pc \in Streaming => demand.pc \in Streaming
      /\ demand'.pc = "starting" => demand.pc = "starting"
  BY Zenon DEF Moves, Copies, Verifies, BlankPcs, Streaming
<1>3. Pending' = Pending /\ (OneLive' <=> OneLive)
  BY <1>1, Zenon DEF Pending, OneLive
<1>4. \A pc, a : <<pc, a>> \in Match => pc \in {"starting", "nexting", "closing"}
  BY Zenon DEF Match
<1>5. \A r \in Pending' : r.live =>
       /\ demand'.call = NoCall /\ <<demand'.pc, r.action>> \in Match
       /\ r.stream = demand'.stream
  BY <1>1, <1>2, <1>3, <1>4, Zenon DEF Talk
<1>6. demand'.call # NoCall => demand'.pc \in {"starting", "nexting", "closing"}
  BY <1>1, <1>2, Zenon DEF Talk
<1>7. demand'.pc \in Streaming =>
       /\ demand'.stream >= 1
       /\ \A r \in Pending' : r.action # "stop" /\ r.stream = demand'.stream => r.live
  BY <1>1, <1>2, <1>3, Zenon DEF Talk
<1>8. demand'.pc = "starting" /\ demand'.call # NoCall /\ demand'.call.ok =>
       /\ demand'.call.frame.slot \in 1..camera.begun
       /\ \A r \in Pending' : r.action # "stop" => r.stream # demand'.call.frame.slot
  BY <1>1, <1>2, <1>3, Zenon DEF Talk
<1>9. /\ OneLive'
      /\ \A r \in Pending' : r.stream <= camera'.begun
      /\ demand'.stream <= camera'.begun /\ camera'.session <= camera'.begun
      /\ camera'.serving # NoCall =>
           camera'.serving.action = "camera-next" /\ camera'.serving.stream = camera'.session
  BY <1>1, <1>3, Zenon DEF Talk
<1> QED
  BY <1>1, <1>5, <1>6, <1>7, <1>8, <1>9, Zenon DEF Talk

\* Talk is kept when the guest asks: it waited for nothing before.
LEMMA TalkAsks ==
  ASSUME CamInv, CamType', Asks
  PROVE  Talk'
<1>1. /\ Talk /\ CamType /\ UNCHANGED camera
      /\ demand'.stream = demand.stream /\ demand'.call = demand.call
  BY Zenon DEF CamInv, Asks
<1>2. PICK r \in Request :
       /\ net' = net \cup {r} /\ r.live /\ r.stream = demand.stream
       /\ <<demand'.pc, r.action>> \in Match
       /\ <<demand.pc, demand'.pc>> \in
            {<<"start", "starting">>, <<"loop", "nexting">>, <<"exit", "closing">>}
  BY Zenon DEF Asks
<1>3. /\ demand.pc \in {"start", "loop", "exit"}
      /\ demand'.pc \in {"starting", "nexting", "closing"}
      /\ demand'.pc \in Streaming => demand.pc \in Streaming
  BY <1>2, Zenon DEF Streaming
<1>4. \A pc, a : <<pc, a>> \in Match => pc \in {"starting", "nexting", "closing"}
  BY Zenon DEF Match
<1>5. \A q \in Pending : ~q.live
  BY <1>1, <1>3, <1>4, Zenon DEF Talk
<1>6. demand.call = NoCall
  BY <1>1, <1>3, Zenon DEF Talk
<1>7. Pending' = Pending \cup {r}
  BY <1>1, <1>2, Zenon DEF Pending
<1>8. OneLive'
  <2>1. /\ \A q \in net : ~q.live
        /\ \A i \in DOMAIN camera.queue : ~camera.queue[i].live
        /\ camera.serving # NoCall => ~camera.serving.live
    BY <1>5, Zenon DEF Pending, Elems
  <2> QED
    BY <1>1, <1>2, <2>1, Zenon DEF OneLive
<1>9. demand.stream <= camera.begun
  BY <1>1, Zenon DEF Talk
<1>10. demand.pc \in Streaming =>
       /\ demand.stream >= 1
       /\ \A q \in Pending : q.action # "stop" /\ q.stream = demand.stream => q.live
  BY <1>1, Zenon DEF Talk
<1>11. /\ \A q \in Pending' : q.live =>
            /\ demand'.call = NoCall /\ <<demand'.pc, q.action>> \in Match
            /\ q.stream = demand'.stream
       /\ demand'.pc \in Streaming =>
            /\ demand'.stream >= 1
            /\ \A q \in Pending' : q.action # "stop" /\ q.stream = demand'.stream => q.live
       /\ \A q \in Pending' : q.stream <= camera'.begun
  BY <1>1, <1>2, <1>3, <1>5, <1>7, Zenon DEF Talk
<1>12. /\ demand'.stream <= camera'.begun /\ camera'.session <= camera'.begun
       /\ camera'.serving # NoCall =>
            camera'.serving.action = "camera-next" /\ camera'.serving.stream = camera'.session
       /\ demand'.call = NoCall
  BY <1>1, <1>6, Zenon DEF Talk
<1> QED
  BY <1>8, <1>11, <1>12, Zenon DEF Talk

\* Talk is kept when the guest takes an answer.
LEMMA TalkAnswered ==
  ASSUME CamInv, CamType', Answered
  PROVE  Talk'
<1>1. /\ Talk /\ CamType /\ UNCHANGED <<net, camera>> /\ demand.call # NoCall
      /\ demand'.call = NoCall
  BY Zenon DEF CamInv, Answered, Takes
<1>2. Pending' = Pending /\ (OneLive' <=> OneLive)
  BY <1>1, Zenon DEF Pending, OneLive
<1>3. \A r \in Pending : ~r.live
  BY <1>1, Zenon DEF Talk
<1>4. /\ OneLive'
      /\ \A r \in Pending' : ~r.live
      /\ \A r \in Pending' : r.stream <= camera'.begun
      /\ camera'.session <= camera'.begun
      /\ camera'.serving # NoCall =>
           camera'.serving.action = "camera-next" /\ camera'.serving.stream = camera'.session
  BY <1>1, <1>2, Zenon DEF Talk
<1>5. demand'.stream <= camera.begun /\
      (demand'.pc \in Streaming =>
         /\ demand'.stream >= 1
         /\ \A r \in Pending : r.action # "stop" => r.stream # demand'.stream)
  <2>1. CASE Takes
    <3>1. demand'.pc \notin Streaming /\ (demand'.stream = 0 \/ demand'.stream = demand.stream)
      BY <2>1, Zenon DEF Takes, Streaming
    <3> QED
      BY <1>1, <3>1, Basics DEF Talk
  <2>2. CASE /\ demand.call.ok /\ demand.pc = "starting"
             /\ demand'.stream = demand.call.frame.slot
    <3>1. /\ demand.call.frame.slot \in 1..camera.begun
          /\ \A r \in Pending : r.action # "stop" => r.stream # demand.call.frame.slot
      BY <1>1, <2>2, Zenon DEF Talk
    <3> QED
      BY <2>2, <3>1
  <2>3. CASE demand.pc = "nexting" /\ demand'.stream = demand.stream
    BY <1>1, <2>3, Zenon DEF Talk, Streaming
  <2> QED
    BY <2>1, <2>2, <2>3, Zenon DEF Answered
<1> QED
  BY <1>1, <1>2, <1>5, Zenon DEF Talk

\* Talk is kept when the guest gives up: no request is waited for any more.
LEMMA TalkGivesUp ==
  ASSUME CamInv, CamType', GivesUp
  PROVE  Talk'
<1>1. /\ Talk /\ CamType /\ demand'.call = NoCall /\ OneLive'
      /\ camera'.session = camera.session /\ camera'.begun = camera.begun
      /\ demand'.pc \notin Streaming /\ (demand'.stream = 0 \/ demand'.stream = demand.stream)
  BY Zenon DEF CamInv, GivesUp, Takes, SameHost, Streaming
<1>2. \A r \in Pending' : ~r.live /\ r.stream <= camera'.begun
  BY <1>1 DEF GivesUp, Talk
<1>3. /\ demand'.stream <= camera'.begun /\ camera'.session <= camera'.begun
  BY <1>1, Basics DEF Talk
<1>4. camera'.serving # NoCall =>
        camera'.serving.action = "camera-next" /\ camera'.serving.stream = camera'.session
  BY <1>1, Zenon DEF Talk, GivesUp
<1> QED
  BY <1>1, <1>2, <1>3, <1>4, Zenon DEF Talk

\* The guest is left alone, or is given the answer it waits for.
SameCall ==
  /\ demand'.pc = demand.pc /\ demand'.stream = demand.stream
  /\ demand'.sequence = demand.sequence /\ demand'.frame = demand.frame
  /\ demand'.pixels = demand.pixels /\ demand'.out = demand.out
  /\ demand'.call = demand.call

GotAnswer(ok, f) ==
  /\ demand'.pc = demand.pc /\ demand'.stream = demand.stream
  /\ demand'.sequence = demand.sequence /\ demand'.frame = demand.frame
  /\ demand'.pixels = demand.pixels /\ demand'.out = demand.out
  /\ demand.call = NoCall /\ demand'.call # NoCall
  /\ demand'.call.ok = ok /\ demand'.call.frame = f
  /\ \A q \in Pending' : ~q.live

\* When the host is done with r, the guest hears of it only if it waits for r.
LEMMA TakenFacts ==
  ASSUME CamType, Talk, NEW r \in Pending, NEW ok \in BOOLEAN, NEW f \in Frames,
         Taken(r), Told(r, ok, f)
  PROVE  /\ Shuffled /\ r \in Request
         /\ \/ SameCall
            \/ /\ GotAnswer(ok, f) /\ r.live
               /\ <<demand.pc, r.action>> \in Match /\ r.stream = demand.stream
<1>1. /\ demand'.pc = demand.pc /\ demand'.stream = demand.stream
      /\ demand'.sequence = demand.sequence /\ demand'.frame = demand.frame
      /\ demand'.pixels = demand.pixels /\ demand'.out = demand.out
      /\ \/ ~r.live /\ demand'.call = demand.call
         \/ /\ r.live /\ demand.call = NoCall /\ <<demand.pc, r.action>> \in Match
            /\ r.stream = demand.stream
            /\ demand'.call # NoCall /\ demand'.call.ok = ok /\ demand'.call.frame = f
  BY ToldFacts, Zenon
<1>2. Shuffled
  BY Zenon DEF Taken, Shuffled
<1>3. r \in Request
  BY Zenon DEF Told
<1>4. r.live => \A q \in Pending' : ~q.live
  BY Zenon DEF Taken
<1> QED
  BY <1>1, <1>2, <1>3, <1>4, Zenon DEF SameCall, GotAnswer

\* Talk is kept by a host that takes from its queue and adds nothing but stops, when
\* the stream it announces is one no other request names.
LEMMA TalkHost ==
  ASSUME CamType, CamType', Talk, Shuffled,
         camera'.begun = camera.begun \/ camera'.begun = camera.begun + 1,
         camera'.session <= camera'.begun,
         camera'.serving # NoCall =>
           camera'.serving.action = "camera-next" /\ camera'.serving.stream = camera'.session,
         \/ SameCall
         \/ \E ok \in BOOLEAN, f \in Frames :
              /\ GotAnswer(ok, f) /\ demand.pc \in {"starting", "nexting", "closing"}
              /\ ok /\ demand.pc = "starting" =>
                   /\ f.slot \in 1..camera'.begun
                   /\ \A r \in Pending' : r.action # "stop" => r.stream # f.slot
  PROVE  Talk'
<1>1. /\ demand'.pc = demand.pc /\ demand'.stream = demand.stream
  BY Zenon DEF SameCall, GotAnswer
<1>2. OneLive' /\ \A r \in Pending' : r \in Pending
                      \/ (r.action = "stop" /\ ~r.live /\ r.stream <= camera.begun)
  BY Kinds, Zenon DEF Shuffled
<1>3. camera.begun \in Nat /\ camera'.begun \in Nat /\ demand.stream \in Nat
  BY Basics, Zenon DEF CamType, CameraState
<1>4. \A r \in Pending' : r.stream <= camera.begun /\ r.stream \in Nat
  <2>1. \A r \in Pending : r.stream <= camera.begun /\ r.stream \in Nat
    BY Jobs, Zenon DEF Talk
  <2>2. \A r \in StopJobs : r.stream \in Nat
    BY Kinds, Zenon
  <2> QED
    BY <2>1, <2>2, Zenon DEF Shuffled
<1>5. \A r \in Pending' : r.stream <= camera'.begun
  BY <1>3, <1>4
<1>6. demand'.stream <= camera'.begun
  BY <1>1, <1>3 DEF Talk
<1>7. demand'.pc \in Streaming =>
       /\ demand'.stream >= 1
       /\ \A r \in Pending' : r.action # "stop" /\ r.stream = demand'.stream => r.live
  BY <1>1, <1>2, Zenon DEF Talk
<1>8. CASE SameCall
  <2>1. demand'.call = demand.call
    BY <1>8, Zenon DEF SameCall
  <2>2. \A r \in Pending' : r.live =>
       /\ demand'.call = NoCall /\ <<demand'.pc, r.action>> \in Match
       /\ r.stream = demand'.stream
    BY <1>1, <1>2, <2>1, Zenon DEF Talk
  <2>3. demand'.call # NoCall => demand'.pc \in {"starting", "nexting", "closing"}
    BY <1>1, <2>1, Zenon DEF Talk
  <2>4. demand'.pc = "starting" /\ demand'.call # NoCall /\ demand'.call.ok =>
       /\ demand'.call.frame.slot \in 1..camera'.begun
       /\ \A r \in Pending' : r.action # "stop" => r.stream # demand'.call.frame.slot
    <3>1. SUFFICES ASSUME demand.pc = "starting", demand.call # NoCall, demand.call.ok
                   PROVE  /\ demand.call.frame.slot \in 1..camera'.begun
                          /\ \A r \in Pending' : r.action # "stop"
                               => r.stream # demand.call.frame.slot
      BY <1>1, <2>1, Zenon
    <3>2. /\ demand.call.frame.slot \in 1..camera.begun
          /\ \A r \in Pending : r.action # "stop" => r.stream # demand.call.frame.slot
      BY <3>1, Zenon DEF Talk
    <3> QED
      BY <1>2, <1>3, <3>2
  <2> QED
    BY <1>2, <1>5, <1>6, <1>7, <2>2, <2>3, <2>4, Zenon DEF Talk
<1>9. ASSUME NEW ok \in BOOLEAN, NEW f \in Frames,
             GotAnswer(ok, f), demand.pc \in {"starting", "nexting", "closing"},
             ok /\ demand.pc = "starting" =>
                   /\ f.slot \in 1..camera'.begun
                   /\ \A r \in Pending' : r.action # "stop" => r.stream # f.slot
      PROVE  Talk'
  <2>1. /\ demand'.call # NoCall /\ demand'.call.ok = ok /\ demand'.call.frame = f
        /\ \A q \in Pending' : ~q.live
    BY <1>9, Zenon DEF GotAnswer
  <2>2. demand'.pc = "starting" /\ demand'.call # NoCall /\ demand'.call.ok =>
       /\ demand'.call.frame.slot \in 1..camera'.begun
       /\ \A r \in Pending' : r.action # "stop" => r.stream # demand'.call.frame.slot
    BY <1>1, <1>9, <2>1, Zenon
  <2> QED
    BY <1>1, <1>2, <1>5, <1>6, <1>9, <2>1, Zenon DEF Talk
<1> QED
  BY <1>8, <1>9, Zenon

\* Talk is kept by the host's steps that answer nothing.
LEMMA TalkQuiet ==
  ASSUME CamInv, CamType', Shuffles \/ Publishes \/ Visible \/ Serves
  PROVE  Talk'
<1>1. /\ CamType /\ Talk /\ UNCHANGED demand
      /\ camera'.session = camera.session /\ camera'.begun = camera.begun
  BY Zenon DEF CamInv, Shuffles, Publishes, Visible, Serves, SameHost
<1>2. SameCall
  BY <1>1, Zenon DEF SameCall
<1>3. Shuffled
  <2>1. CASE UNCHANGED <<net, camera>>
    <3>1. OneLive' /\ Pending' = Pending
      BY <1>1, <2>1, Zenon DEF Talk, OneLive, Pending
    <3> QED
      BY <3>1, Zenon DEF Shuffled
  <2> QED
    BY <2>1, Zenon DEF Shuffles, Publishes, Visible, Serves
<1>4. camera'.serving # NoCall =>
        camera'.serving.action = "camera-next" /\ camera'.serving.stream = camera'.session
  BY <1>1, Zenon DEF Shuffles, Publishes, Visible, Serves, Talk
<1>5. camera'.session <= camera'.begun
  BY <1>1, Zenon DEF Talk
<1> QED
  BY <1>1, <1>2, <1>3, <1>4, <1>5, TalkHost, Zenon

\* What a step of the host tells the guest.
LEMMA HostTells ==
  ASSUME CamInv, CamType', Fails \/ Stops \/ Begins \/ Leases
  PROVE  /\ Shuffled
         /\ \/ SameCall
            \/ /\ Fails /\ GotAnswer(FALSE, NoFrame)
               /\ demand.pc \in {"starting", "nexting", "closing"}
            \/ /\ Stops /\ demand.pc \in {"starting", "nexting", "closing"}
               /\ \E ok \in BOOLEAN : GotAnswer(ok, NoFrame) /\ (ok => demand.pc = "closing")
            \/ /\ Begins /\ demand.pc = "starting"
               /\ GotAnswer(TRUE, [slot |-> camera.begun + 1, sequence |-> 0])
            \/ /\ Leases /\ GotAnswer(TRUE, buffer.queued) /\ demand.pc = "nexting"
               /\ camera.session = demand.stream
<1>1. CamType /\ Talk
  BY Zenon DEF CamInv
<1>2. \A pc, a : <<pc, a>> \in Match =>
        /\ pc \in {"starting", "nexting", "closing"}
        /\ a = "camera-stop" => pc = "closing"
        /\ a = "camera-start" => pc = "starting"
        /\ a = "camera-next" => pc = "nexting"
  BY Zenon DEF Match
<1>3. NoFrame \in Frames /\ camera.begun \in Nat /\ buffer.queued \in Frames
  BY <1>1, Kinds, Basics, Zenon
<1>4. CASE Fails
  <2>1. PICK r \in Pending : Taken(r) /\ Told(r, FALSE, NoFrame)
    BY <1>4, Zenon DEF Fails
  <2>2. /\ Shuffled
        /\ \/ SameCall
           \/ GotAnswer(FALSE, NoFrame) /\ <<demand.pc, r.action>> \in Match
    BY <1>1, <1>3, <2>1, TakenFacts, Zenon
  <2> QED
    BY <1>2, <1>4, <2>2, Zenon
<1>5. CASE Stops
  <2>1. CASE Shuffled /\ UNCHANGED demand
    BY <2>1, Zenon DEF SameCall
  <2>2. CASE \E r \in Pending, ok \in BOOLEAN :
          Taken(r) /\ Told(r, ok, NoFrame) /\ (ok => r.action = "camera-stop")
    <3>1. PICK r \in Pending, ok \in BOOLEAN :
            Taken(r) /\ Told(r, ok, NoFrame) /\ (ok => r.action = "camera-stop")
      BY <2>2, Zenon
    <3>2. /\ Shuffled
          /\ \/ SameCall
             \/ GotAnswer(ok, NoFrame) /\ <<demand.pc, r.action>> \in Match
      BY <1>1, <1>3, <3>1, TakenFacts, Zenon
    <3> QED
      BY <1>2, <1>5, <3>1, <3>2, Zenon
  <2> QED
    BY <1>5, <2>1, <2>2, Zenon DEF Stops
<1>6. CASE Begins
  <2> DEFINE f == [slot |-> camera.begun + 1, sequence |-> 0]
  <2>1. PICK r \in Pending : Taken(r) /\ r.action = "camera-start" /\ Told(r, TRUE, f)
    BY <1>6, Zenon DEF Begins
  <2>2. f \in Frames
    BY <1>3 DEF Frames
  <2> HIDE DEF f
  <2>3. /\ Shuffled
        /\ \/ SameCall
           \/ GotAnswer(TRUE, f) /\ <<demand.pc, r.action>> \in Match
    BY <1>1, <2>1, <2>2, TakenFacts, Zenon
  <2> QED
    BY <1>2, <1>6, <2>1, <2>3, Zenon DEF f
<1>7. CASE Leases
  <2>1. /\ Taken(camera.serving) /\ Told(camera.serving, TRUE, buffer.queued)
        /\ camera.serving # NoCall
    BY <1>7, Zenon DEF Leases
  <2>2. /\ camera.serving \in Pending /\ camera.serving.action = "camera-next"
        /\ camera.serving.stream = camera.session
    BY <1>1, <2>1, Zenon DEF Pending, Talk
  <2>3. PICK r, f : r = camera.serving /\ f = buffer.queued
    OBVIOUS
  <2>4. /\ Shuffled
        /\ \/ SameCall
           \/ /\ GotAnswer(TRUE, f) /\ <<demand.pc, r.action>> \in Match
              /\ r.stream = demand.stream
    BY <1>1, <1>3, <2>1, <2>2, <2>3, TakenFacts, Zenon
  <2> QED
    BY <1>2, <1>7, <2>2, <2>3, <2>4, Zenon
<1> QED
  BY <1>4, <1>5, <1>6, <1>7, Zenon

\* Talk is kept by the host's steps that answer the guest.
LEMMA TalkTells ==
  ASSUME CamInv, CamType', Fails \/ Stops \/ Begins \/ Leases
  PROVE  Talk'
<1>1. CamType /\ Talk /\ Shuffled
  BY HostTells, Zenon DEF CamInv
<1>2. camera.begun \in Nat /\ camera.session \in Nat /\ buffer.queued \in Frames
      /\ camera'.begun \in Nat /\ camera.session <= camera.begun
  BY <1>1, Basics, Zenon DEF CamType, CameraState, Talk
<1>3. camera'.begun = camera.begun \/ camera'.begun = camera.begun + 1
  BY Zenon DEF Fails, Stops, Begins, Leases, SameHost
<1>4. camera'.session <= camera'.begun
  <2>1. \/ camera'.session = camera.session /\ camera'.begun = camera.begun
        \/ camera'.session = 0
        \/ camera'.session = camera.begun + 1 /\ camera'.begun = camera.begun + 1
    BY Zenon DEF Fails, Stops, Begins, Leases, SameHost
  <2> QED
    BY <1>2, <2>1
<1>5. camera'.serving # NoCall =>
        camera'.serving.action = "camera-next" /\ camera'.serving.stream = camera'.session
  BY <1>1, Zenon DEF Fails, Stops, Begins, Leases, NewSlots, SameHost, Talk
<1>6. \/ SameCall
      \/ \E ok \in BOOLEAN, f \in Frames :
           /\ GotAnswer(ok, f) /\ demand.pc \in {"starting", "nexting", "closing"}
           /\ ok /\ demand.pc = "starting" =>
                /\ f.slot \in 1..camera'.begun
                /\ \A r \in Pending' : r.action # "stop" => r.stream # f.slot
  <2>1. CASE GotAnswer(FALSE, NoFrame) /\ demand.pc \in {"starting", "nexting", "closing"}
    BY <2>1, Kinds, Zenon
  <2>2. CASE /\ demand.pc \in {"starting", "nexting", "closing"}
             /\ \E ok \in BOOLEAN : GotAnswer(ok, NoFrame) /\ (ok => demand.pc = "closing")
    BY <2>2, Kinds, Zenon
  <2>3. CASE /\ Begins /\ demand.pc = "starting"
             /\ GotAnswer(TRUE, [slot |-> camera.begun + 1, sequence |-> 0])
    <3> DEFINE f == [slot |-> camera.begun + 1, sequence |-> 0]
    <3>1. f \in Frames /\ f.slot = camera.begun + 1
      BY <1>2 DEF Frames
    <3>2. camera'.begun = camera.begun + 1
      BY <2>3, Zenon DEF Begins
    <3>3. ASSUME NEW r \in Pending' PROVE r.stream # camera.begun + 1
      <4>1. r.stream \in Nat /\ r.stream <= camera.begun
        <5>1. CASE r \in Pending
          BY <1>1, <5>1, Jobs, Zenon DEF Talk
        <5>2. CASE r \in StopJobs /\ r.stream <= camera.begun
          BY <5>2, Kinds, Zenon
        <5> QED
          BY <1>1, <5>1, <5>2, Zenon DEF Shuffled
      <4> QED
        BY <1>2, <4>1
    <3> HIDE DEF f
    <3>4. f.slot \in 1..camera'.begun
      BY <1>2, <3>1, <3>2
    <3>5. GotAnswer(TRUE, f)
      BY <2>3, Zenon DEF f
    <3> QED
      BY <2>3, <3>1, <3>3, <3>4, <3>5, Zenon
  <2>4. CASE GotAnswer(TRUE, buffer.queued) /\ demand.pc = "nexting"
    BY <1>2, <2>4, Zenon
  <2> QED
    BY <2>2, <2>3, <2>4, HostTells, Zenon
<1> QED
  BY <1>1, <1>3, <1>4, <1>5, <1>6, TalkHost, Zenon

\* Talk is kept by every step.
LEMMA TalkStep ==
  ASSUME CamInv, CamType', CamStep
  PROVE  Talk'
BY TalkGuest, TalkAsks, TalkAnswered, TalkGivesUp, TalkQuiet, TalkTells, Zenon DEF CamStep

\* What a store changes in the slots.
LEMMA StoreChanges ==
  ASSUME CamType, NEW st \in Store, slots' = [slots EXCEPT ![st.slot][st.kind] = st.value]
  PROVE  /\ st.slot \in SlotIds /\ st.kind \in {"sequence", "generation", "pixels"}
         /\ \A s \in SlotIds :
              /\ s # st.slot => slots'[s] = slots[s]
              /\ s = st.slot /\ st.kind = "generation" =>
                   slots'[s].generation = st.value /\ slots'[s].pixels = slots[s].pixels
              /\ s = st.slot /\ st.kind = "pixels" =>
                   slots'[s].generation = slots[s].generation /\ slots'[s].pixels = st.value
              /\ s = st.slot /\ st.kind = "sequence" =>
                   slots'[s].generation = slots[s].generation
                   /\ slots'[s].pixels = slots[s].pixels
<1>1. st.slot \in SlotIds /\ st.kind \in {"sequence", "generation", "pixels"}
  BY Zenon DEF Store
<1>2. slots \in [SlotIds -> SlotState]
  BY Zenon DEF CamType
<1>3. slots' = [slots EXCEPT ![st.slot] = [slots[st.slot] EXCEPT ![st.kind] = st.value]]
  OBVIOUS
<1>4. slots'[st.slot] = [slots[st.slot] EXCEPT ![st.kind] = st.value]
      /\ \A s \in SlotIds : s # st.slot => slots'[s] = slots[s]
  BY <1>1, <1>2, Zenon
<1>5. slots[st.slot] \in SlotState
  BY <1>1, <1>2, Zenon
<1>6. /\ st.kind = "generation" =>
           slots'[st.slot].generation = st.value /\ slots'[st.slot].pixels = slots[st.slot].pixels
      /\ st.kind = "pixels" =>
           slots'[st.slot].generation = slots[st.slot].generation
           /\ slots'[st.slot].pixels = st.value
      /\ st.kind = "sequence" =>
           slots'[st.slot].generation = slots[st.slot].generation
           /\ slots'[st.slot].pixels = slots[st.slot].pixels
  BY <1>4, <1>5 DEF SlotState
<1> QED
  BY <1>1, <1>6

\* The stores of NewSlots and Publishes.
LEMMA NewFlight ==
  ASSUME CamType, NewSlots
  PROVE  /\ \A s \in SlotIds : slots[s].generation = 0 \/ Wiped(s) \in Flight'
         /\ \A st \in Flight' : /\ st.kind = "generation" => st.value = 0
                                /\ st.kind = "pixels" => st.value = Black
<1>1. Flight' = UNION Elems(camera_clear)
  BY Zenon DEF NewSlots, Flight
<1>2. \A st : st \in Flight' <=> \E s \in SlotIds : slots[s] # EmptySlot /\ st \in WipeSet(s)
  BY <1>1, ClearFacts, Zenon
<1>3. \A s : Wiped(s) \in WipeSet(s)
  BY Zenon DEF Wiped, WipeSet, Plain
<1>4. EmptySlot.generation = 0
  BY Zenon DEF EmptySlot
<1>5. \A s \in SlotIds : slots[s].generation = 0 \/ Wiped(s) \in Flight'
  BY <1>2, <1>3, <1>4, Zenon
<1>6. ASSUME NEW s \in SlotIds, NEW st \in WipeSet(s)
      PROVE  /\ st.kind = "generation" => st.value = 0
             /\ st.kind = "pixels" => st.value = Black
  <2>1. 0 \in Nat /\ Black \in Pixels
    BY Kinds, Zenon
  <2>2. Mark(s).kind = "sequence"
        /\ \A t \in Plain(s, 0, Black) : /\ t.kind = "generation" => t.value = 0
                                         /\ t.kind = "pixels" => t.value = Black
    BY <2>1, StoreFacts
  <2> QED
    BY <2>2, Zenon DEF WipeSet
<1> QED
  BY <1>2, <1>5, <1>6, Zenon

\* camera_publish has the mark and the pixels of the new frame on their way, and no
\* others.
LEMMA PublishFlight ==
  ASSUME CamType, NEW s \in SlotIds, NEW n \in Nat,
         stores' = camera_publish(s, camera.session, n, <<camera.session, n>>)
  PROVE  /\ [slot |-> s, kind |-> "generation", value |-> camera.session] \in Flight'
         /\ [slot |-> s, kind |-> "pixels", value |-> <<camera.session, n>>] \in Flight'
         /\ \A st \in Flight' :
              /\ st.slot = s
              /\ st.kind = "generation" => st.value = camera.session
              /\ st.kind = "pixels" => st.value = <<camera.session, n>>
<1>1. camera.session \in Nat
  BY Basics, Zenon
<1>2. PICK g, p : g = camera.session /\ p = <<camera.session, n>>
  OBVIOUS
<1>3. g \in Nat /\ p \in Pixels
  BY <1>1, <1>2, Zenon DEF Pixels
<1>4. Flight' = {Mark(s), Commit(s, n)} \cup Plain(s, g, p)
  <2>1. Flight' = UNION Elems(camera_publish(s, g, n, p))
    BY <1>2, Zenon DEF Flight
  <2> QED
    BY <1>3, <2>1, PublishFacts, Zenon
<1>5. /\ \A st \in Plain(s, g, p) :
              /\ st.slot = s
              /\ st.kind = "generation" => st.value = g
              /\ st.kind = "pixels" => st.value = p
      /\ Mark(s).slot = s /\ Mark(s).kind = "sequence"
      /\ Commit(s, n).slot = s /\ Commit(s, n).kind = "sequence"
  BY <1>3, StoreFacts
<1>6. /\ [slot |-> s, kind |-> "generation", value |-> g] \in Flight'
      /\ [slot |-> s, kind |-> "pixels", value |-> p] \in Flight'
  BY <1>4, Zenon DEF Plain
<1>7. \A st \in Flight' : /\ st.slot = s
                          /\ st.kind = "generation" => st.value = g
                          /\ st.kind = "pixels" => st.value = p
  BY <1>4, <1>5, Zenon
<1> QED
  BY <1>2, <1>6, <1>7, Zenon

\* Nothing is on its way when there are no stores.
LEMMA NoFlight == ASSUME stores = <<>> PROVE Flight = {}
<1>1. DOMAIN stores = {}
  OBVIOUS
<1> QED
  BY DEF Flight, Elems

\* Memory is kept when one store becomes visible to the guest.
LEMMA MemoryVisible ==
  ASSUME CamInv, CamType', Visible
  PROVE  Memory'
<1>1. CamType /\ Memory /\ camera' = camera /\ buffer' = buffer
  BY Zenon DEF CamInv, Visible
<1>2. PICK st \in Flight :
       /\ slots' = [slots EXCEPT ![st.slot][st.kind] = st.value]
       /\ Flight' \subseteq Flight /\ Flight \ {st} \subseteq Flight'
  BY Zenon DEF Visible
<1>3. st \in Store
  BY <1>1, Basics, Zenon
<1>4. /\ st.slot \in SlotIds /\ st.kind \in {"sequence", "generation", "pixels"}
      /\ \A s \in SlotIds :
              /\ s # st.slot => slots'[s] = slots[s]
              /\ s = st.slot /\ st.kind = "generation" =>
                   slots'[s].generation = st.value /\ slots'[s].pixels = slots[s].pixels
              /\ s = st.slot /\ st.kind = "pixels" =>
                   slots'[s].generation = slots[s].generation /\ slots'[s].pixels = st.value
              /\ s = st.slot /\ st.kind = "sequence" =>
                   slots'[s].generation = slots[s].generation
                   /\ slots'[s].pixels = slots[s].pixels
  BY <1>1, <1>2, <1>3, StoreChanges, Zenon
<1>5. ASSUME NEW s \in SlotIds
      PROVE  slots'[s].generation \in {0, camera'.session} \/ Wiped(s) \in Flight'
  <2>1. slots[s].generation \in {0, camera.session} \/ Wiped(s) \in Flight
    BY <1>1, Zenon DEF Memory
  <2>2. CASE s = st.slot /\ st.kind = "generation"
    BY <1>1, <1>4, <2>2, Zenon DEF Memory
  <2>3. CASE s # st.slot \/ st.kind # "generation"
    <3>1. slots'[s].generation = slots[s].generation
      BY <1>4, <2>3, Zenon
    <3>2. Wiped(s).slot = s /\ Wiped(s).kind = "generation"
      BY Zenon DEF Wiped
    <3>3. Wiped(s) # st
      BY <2>3, <3>2, Zenon
    <3> QED
      BY <1>1, <1>2, <2>1, <3>1, <3>3, Zenon
  <2> QED
    BY <2>2, <2>3, Zenon
<1>6. \A t \in Flight' : t.kind = "generation" => t.value \in {0, camera'.session}
  BY <1>1, <1>2, Zenon DEF Memory
<1>7. ASSUME buffer.queued # NoFrame PROVE Written(buffer.queued)'
  <2> DEFINE f == buffer.queued
             gs == [slot |-> f.slot, kind |-> "generation", value |-> camera.session]
             ps == [slot |-> f.slot, kind |-> "pixels", value |-> <<camera.session, f.sequence>>]
  <2>1. /\ f.slot \in SlotIds /\ f.sequence >= 1
        /\ \A t \in Flight : t.slot = f.slot =>
             /\ t.kind = "generation" => t.value = camera.session
             /\ t.kind = "pixels" => t.value = <<camera.session, f.sequence>>
        /\ slots[f.slot].generation = camera.session \/ gs \in Flight
        /\ slots[f.slot].pixels = <<camera.session, f.sequence>> \/ ps \in Flight
    BY <1>1, <1>7, Zenon DEF Memory, Written
  <2>2. gs.slot = f.slot /\ gs.kind = "generation" /\ ps.slot = f.slot /\ ps.kind = "pixels"
    OBVIOUS
  <2> HIDE DEF gs, ps
  <2>3. slots'[f.slot].generation = camera.session \/ gs \in Flight'
    <3>1. CASE st.slot = f.slot /\ st.kind = "generation"
      BY <1>4, <2>1, <3>1, Zenon
    <3>2. CASE ~(st.slot = f.slot /\ st.kind = "generation")
      BY <1>2, <2>1, <2>2, <3>2
    <3> QED
      BY <3>1, <3>2, Zenon
  <2>4. slots'[f.slot].pixels = <<camera.session, f.sequence>> \/ ps \in Flight'
    <3>1. CASE st.slot = f.slot /\ st.kind = "pixels"
      BY <1>4, <2>1, <3>1, Zenon
    <3>2. CASE ~(st.slot = f.slot /\ st.kind = "pixels")
      BY <1>2, <2>1, <2>2, <3>2
    <3> QED
      BY <3>1, <3>2, Zenon
  <2>5. \A t \in Flight' : t.slot = f.slot =>
             /\ t.kind = "generation" => t.value = camera.session
             /\ t.kind = "pixels" => t.value = <<camera.session, f.sequence>>
    BY <1>2, <2>1, Zenon
  <2> QED
    BY <1>1, <2>1, <2>3, <2>4, <2>5, Zenon DEF Written, gs, ps
<1> QED
  BY <1>1, <1>5, <1>6, <1>7, Zenon DEF Memory

\* Memory is kept by every step.
LEMMA MemoryStep ==
  ASSUME CamInv, CamType', CamStep
  PROVE  Memory'
<1>1. CamType /\ Memory
  BY Zenon DEF CamInv
<1>2. CASE /\ UNCHANGED <<slots, stores>> /\ camera'.session = camera.session
           /\ buffer'.queued \in {buffer.queued, NoFrame}
  <2>1. Flight' = Flight
    BY <1>2, Zenon DEF Flight
  <2>2. /\ \A s \in SlotIds :
             slots'[s].generation \in {0, camera'.session} \/ Wiped(s) \in Flight'
        /\ \A st \in Flight' : st.kind = "generation" => st.value \in {0, camera'.session}
    BY <1>1, <1>2, <2>1, Zenon DEF Memory
  <2>3. ASSUME buffer'.queued # NoFrame PROVE Written(buffer.queued)'
    <3>1. buffer'.queued = buffer.queued /\ Written(buffer.queued)
      BY <1>1, <1>2, <2>3, Zenon DEF Memory
    <3> QED
      BY <1>2, <2>1, <3>1, Zenon DEF Written
  <2> QED
    BY <2>2, <2>3, Zenon DEF Memory
<1>3. CASE Stops \/ Begins
  <2>1. NewSlots /\ UNCHANGED slots /\ buffer'.queued = NoFrame
    BY <1>3, Zenon DEF Stops, Begins, NewSlots
  <2>2. /\ \A s \in SlotIds : slots[s].generation = 0 \/ Wiped(s) \in Flight'
        /\ \A st \in Flight' : st.kind = "generation" => st.value = 0
    BY <1>1, <2>1, NewFlight, Zenon
  <2> QED
    BY <2>1, <2>2, Zenon DEF Memory
<1>4. CASE Publishes
  <2>1. PICK s \in FreeSlots, n \in Nat :
       /\ n >= 1 /\ buffer'.queued = [slot |-> s, sequence |-> n]
       /\ stores' = camera_publish(s, camera.session, n, <<camera.session, n>>)
    BY <1>4, Zenon DEF Publishes
  <2>2. s \in SlotIds /\ stores = <<>> /\ UNCHANGED <<camera, slots>>
    BY <1>4, Zenon DEF FreeSlots, Publishes
  <2>3. /\ [slot |-> s, kind |-> "generation", value |-> camera.session] \in Flight'
        /\ [slot |-> s, kind |-> "pixels", value |-> <<camera.session, n>>] \in Flight'
        /\ \A st \in Flight' :
             /\ st.slot = s
             /\ st.kind = "generation" => st.value = camera.session
             /\ st.kind = "pixels" => st.value = <<camera.session, n>>
    BY <1>1, <2>1, <2>2, PublishFlight, Zenon
  <2>4. \A t \in SlotIds : slots[t].generation \in {0, camera.session}
    BY <1>1, <2>2, NoFlight, Zenon DEF Memory
  <2>5. PICK f : f = [slot |-> s, sequence |-> n]
    BY Zenon
  <2>6. f.slot = s /\ f.sequence = n /\ buffer'.queued = f
    BY <2>1, <2>5, Zenon
  <2>7. Written(f)'
    BY <2>1, <2>2, <2>3, <2>6, Zenon DEF Written
  <2> QED
    BY <2>2, <2>3, <2>4, <2>6, <2>7, Zenon DEF Memory
<1>5. CASE Visible
  BY <1>5, MemoryVisible, Zenon
<1> QED
  BY <1>2, <1>3, <1>4, <1>5, Zenon DEF CamStep, Moves, Copies, Verifies, Asks, Answered, GivesUp,
     Takes, Shuffles, Fails, Serves, Leases, SameHost

\* A frame that is delivered is one of a stream that runs, whose request has
\* been answered.
LEMMA DeliveredFacts ==
  ASSUME CamInv, NEW f \in Frames, Delivered(f)
  PROVE  /\ Safe(f) /\ demand.stream >= 1 /\ demand.stream \in Nat
         /\ demand.stream <= camera.begun
         /\ \A r \in Pending : r \in Request => r.stream # demand.stream
<1>1. CamType /\ Talk /\ Leased
  BY Zenon DEF CamInv
<1>2. demand.pc \in Streaming /\ (demand.pc = "nexting" => demand.call # NoCall)
  BY Zenon DEF Delivered, Streaming
<1>3. demand.stream >= 1 /\ demand.stream \in Nat /\ demand.stream <= camera.begun
  BY <1>1, <1>2, Basics, Zenon DEF Talk
<1>4. ASSUME NEW r \in Pending, r \in Request, r.stream = demand.stream PROVE FALSE
  <2>1. r.action # "stop"
    BY <1>4, Kinds, Zenon
  <2>2. r.live
    BY <1>1, <1>2, <1>4, <2>1, Zenon DEF Talk
  <2>3. demand.call = NoCall /\ <<demand.pc, r.action>> \in Match
    BY <1>1, <2>2, Zenon DEF Talk
  <2> QED
    BY <1>2, <2>3, Zenon DEF Match, Streaming
<1> QED
  BY <1>1, <1>3, <1>4, Zenon DEF Leased

\* The guest's steps leave the frame it may copy as it is.
LEMMA LeasedGuest ==
  ASSUME CamInv, CamType', Moves \/ Copies \/ Verifies \/ Asks \/ Answered \/ GivesUp
  PROVE  Leased'
<1>1. CamType /\ Talk /\ SameHost
  BY Zenon DEF CamInv, Moves, Copies, Verifies, Asks, Answered, GivesUp, Takes
<1>2. ASSUME NEW f \in Frames, Delivered(f)'
      PROVE  Delivered(f) /\ demand'.stream = demand.stream
  <2>1. CASE Moves
    BY <1>2, <2>1, Zenon DEF Moves, Delivered, BlankPcs
  <2>2. CASE Copies
    BY <1>2, <2>2, Zenon DEF Copies, Delivered
  <2>3. CASE Verifies
    BY <1>2, <2>3, Zenon DEF Verifies, Delivered
  <2>4. CASE Asks
    <3>1. demand.call = NoCall
      BY <1>1, <2>4, Zenon DEF Asks, Talk
    <3> QED
      BY <1>2, <2>4, <3>1, Zenon DEF Asks, Delivered
  <2>5. CASE Answered
    BY <1>2, <2>5, Zenon DEF Answered, Takes, Delivered
  <2>6. CASE GivesUp
    BY <1>2, <2>6, Zenon DEF GivesUp, Takes, Delivered
  <2> QED
    BY <2>1, <2>2, <2>3, <2>4, <2>5, <2>6, Zenon
<1>3. ASSUME NEW f \in Frames, Delivered(f)' PROVE Safe(f)'
  <2>1. Safe(f) /\ demand'.stream = demand.stream
    BY <1>2, <1>3, DeliveredFacts, Zenon
  <2>2. Flight' = Flight
    BY <1>1, Zenon DEF Flight, SameHost
  <2> QED
    BY <1>1, <2>1, <2>2, Zenon DEF Safe, SameHost, Intact
<1> QED
  BY <1>3, Zenon DEF Leased

\* The host leaves a frame alone that the guest may copy.
LEMMA LeasedKept ==
  ASSUME CamInv, CamType',
         Shuffles \/ Fails \/ Stops \/ Begins \/ Serves \/ Leases \/ Publishes,
         NEW f \in Frames, Delivered(f), demand'.stream = demand.stream
  PROVE  Safe(f)'
<1>1. CamType /\ Talk /\ Memory
  BY Zenon DEF CamInv
<1>2. /\ Safe(f) /\ demand.stream >= 1 /\ demand.stream \in Nat
      /\ demand.stream <= camera.begun
      /\ \A r \in Pending : r \in Request => r.stream # demand.stream
  BY DeliveredFacts, Zenon
<1>3. camera.begun \in Nat /\ camera.session \in Nat
  BY <1>1, Basics, Zenon
<1>4. UNCHANGED slots
  BY Zenon DEF Shuffles, Fails, Stops, Begins, Serves, Leases, Publishes, NewSlots, SameHost
<1>5. /\ f.slot \in SlotIds /\ f.sequence >= 1
      /\ slots'[f.slot].generation = demand'.stream => Intact(f, slots[f.slot].pixels)'
  BY <1>2, <1>4, Zenon DEF Safe, Intact
<1>6. CASE Stops \/ Begins
  <2>1. NewSlots /\ (camera'.session = 0 \/ camera'.session = camera.begun + 1)
    BY <1>6, Zenon DEF Stops, Begins
  <2>2. camera'.session # demand'.stream
    BY <1>2, <1>3, <2>1
  <2>3. \A st \in Flight' : /\ st.kind = "generation" => st.value = 0
                            /\ st.kind = "pixels" => st.value = Black
    BY <1>1, <2>1, NewFlight, Zenon
  <2> QED
    BY <1>2, <1>5, <2>2, <2>3 DEF Safe
<1>7. CASE Shuffles \/ Fails
  <2>1. SameHost
    BY <1>7, Zenon DEF Shuffles, Fails
  <2>2. Flight' = Flight
    BY <2>1, Zenon DEF Flight, SameHost
  <2> QED
    BY <1>2, <1>5, <2>1, <2>2, Zenon DEF Safe, SameHost
<1>8. CASE Serves \/ Leases
  <2>1. camera'.session = camera.session /\ UNCHANGED stores
    BY <1>8, Zenon DEF Serves, Leases
  <2>2. \E r \in Pending : r \in Request /\ r.stream = camera.session
    <3>1. CASE Serves
      BY <3>1, Zenon DEF Serves
    <3>2. CASE Leases
      <4>1. camera.serving # NoCall /\ camera.serving \in Request
        BY <1>1, <3>2, Basics, Zenon DEF Leases
      <4> QED
        BY <1>1, <4>1, Zenon DEF Pending, Talk
    <3> QED
      BY <1>8, <3>1, <3>2, Zenon
  <2>3. camera.session # demand.stream
    BY <1>2, <2>2, Zenon
  <2>4. Flight' = Flight
    BY <2>1, Zenon DEF Flight
  <2> QED
    BY <1>2, <1>4, <1>5, <2>1, <2>3, <2>4, Zenon DEF Safe
<1>9. CASE Publishes
  <2>1. PICK s \in FreeSlots, n \in Nat :
         stores' = camera_publish(s, camera.session, n, <<camera.session, n>>)
    BY <1>9, Zenon DEF Publishes
  <2>2. s \in SlotIds /\ stores = <<>> /\ UNCHANGED camera /\ buffer'.leased = buffer.leased
    BY <1>9, Zenon DEF FreeSlots, Publishes
  <2>3. \A st \in Flight' : /\ st.slot = s
                            /\ st.kind = "generation" => st.value = camera.session
    BY <1>1, <2>1, <2>2, PublishFlight, Zenon
  <2>4. slots[f.slot].generation \in {0, camera.session}
    BY <1>1, <1>5, <2>2, NoFlight, Zenon DEF Memory
  <2>5. CASE camera.session = demand.stream
    <3>1. buffer.leased = f
      BY <1>2, <2>5, Zenon DEF Safe
    <3>2. f # NoFrame
      BY <1>5 DEF NoFrame
    <3>3. s # f.slot
      BY <3>1, <3>2, Zenon DEF FreeSlots, Holds
    <3> QED
      BY <1>5, <2>2, <2>3, <3>1, <3>3, Zenon DEF Safe
  <2>6. CASE camera.session # demand.stream
    <3>1. slots[f.slot].generation # demand.stream
      BY <1>2, <2>4, <2>6
    <3> QED
      BY <1>4, <1>5, <2>2, <2>3, <2>6, <3>1, Zenon DEF Safe
  <2> QED
    BY <2>5, <2>6, Zenon
<1> QED
  BY <1>6, <1>7, <1>8, <1>9, Zenon

\* A store that becomes visible leaves a delivered frame safe, and does not give its
\* slot the mark of the stream.
LEMMA LeasedVisible ==
  ASSUME CamInv, CamType', Visible, NEW f \in Frames, Delivered(f)
  PROVE  /\ Safe(f)'
         /\ slots'[f.slot].generation = demand.stream =>
              slots[f.slot].generation = demand.stream
<1>1. CamType /\ UNCHANGED <<demand, net, camera, buffer>> /\ Safe(f)
  BY DeliveredFacts, Zenon DEF CamInv, Visible
<1>2. PICK st \in Flight :
       /\ slots' = [slots EXCEPT ![st.slot][st.kind] = st.value]
       /\ Flight' \subseteq Flight /\ Flight \ {st} \subseteq Flight'
  BY Zenon DEF Visible
<1>3. st \in Store
  BY <1>1, Basics, Zenon
<1>4. /\ f.slot # st.slot => slots'[f.slot] = slots[f.slot]
      /\ f.slot = st.slot /\ st.kind = "generation" =>
           slots'[f.slot].generation = st.value /\ slots'[f.slot].pixels = slots[f.slot].pixels
      /\ f.slot = st.slot /\ st.kind = "pixels" =>
           slots'[f.slot].generation = slots[f.slot].generation
           /\ slots'[f.slot].pixels = st.value
      /\ f.slot = st.slot /\ st.kind = "sequence" =>
           slots'[f.slot].generation = slots[f.slot].generation
           /\ slots'[f.slot].pixels = slots[f.slot].pixels
      /\ st.kind \in {"sequence", "generation", "pixels"} /\ f.slot \in SlotIds
  <2>1. f.slot \in SlotIds
    BY <1>1, Zenon DEF Safe
  <2> QED
    BY <1>1, <1>2, <1>3, <2>1, StoreChanges, Zenon
<1>5. slots'[f.slot].generation = demand.stream => slots[f.slot].generation = demand.stream
  BY <1>1, <1>4, Zenon DEF Safe
<1>6. slots'[f.slot].generation = demand.stream => Intact(f, slots'[f.slot].pixels)
  <2>1. SUFFICES ASSUME slots'[f.slot].generation = demand.stream
                 PROVE  Intact(f, slots'[f.slot].pixels)
    OBVIOUS
  <2>2. slots[f.slot].generation = demand.stream /\ Intact(f, slots[f.slot].pixels)
    BY <1>1, <1>5, <2>1, Zenon DEF Safe
  <2>3. CASE f.slot = st.slot /\ st.kind = "pixels"
    <3>1. st.value = Black
      BY <1>1, <2>2, <2>3, Zenon DEF Safe
    <3> QED
      BY <1>4, <2>3, <3>1, Zenon DEF Intact
  <2>4. CASE ~(f.slot = st.slot /\ st.kind = "pixels")
    BY <1>4, <2>2, <2>4, Zenon
  <2> QED
    BY <2>3, <2>4, Zenon
<1>7. \A t \in Flight' : t.slot = f.slot =>
       /\ t.kind = "generation" => t.value # demand.stream
       /\ t.kind = "pixels" =>
            t.value = Black \/ slots'[f.slot].generation # demand.stream
  BY <1>1, <1>2 DEF Safe
<1>8. /\ f.slot \in SlotIds /\ f.sequence >= 1
      /\ camera.session = demand.stream => buffer.leased = f
  BY <1>1, Zenon DEF Safe
<1> QED
  BY <1>1, <1>5, <1>6, <1>7, Zenon DEF Safe, Intact

\* The host keeps every frame it delivered safe.
LEMMA LeasedHost ==
  ASSUME CamInv, CamType',
         Shuffles \/ Fails \/ Stops \/ Begins \/ Serves \/ Leases \/ Publishes \/ Visible
  PROVE  Leased'
<1>1. CamType /\ Talk /\ Memory
  BY Zenon DEF CamInv
<1>2. ASSUME NEW f \in Frames, SameCall, Delivered(f)' PROVE Safe(f)'
  <2>1. Delivered(f) /\ demand'.stream = demand.stream
    BY <1>2, Zenon DEF SameCall, Delivered
  <2> QED
    BY <2>1, LeasedKept, LeasedVisible, Zenon
<1>3. CASE Shuffles \/ Serves \/ Publishes \/ Visible
  <2>1. SameCall
    BY <1>3, Zenon DEF Shuffles, Serves, Publishes, Visible, SameCall
  <2> QED
    BY <1>2, <2>1, Zenon DEF Leased
<1>4. CASE Fails \/ Stops \/ Begins \/ Leases
  <2>1. SUFFICES ASSUME NEW f \in Frames, Delivered(f)' PROVE Safe(f)'
    BY Zenon DEF Leased
  <2>2. CASE SameCall
    BY <1>2, <2>1, <2>2, Zenon
  <2>3. CASE GotAnswer(FALSE, NoFrame) /\ demand.pc \in {"starting", "nexting", "closing"}
    BY <2>1, <2>3, Zenon DEF GotAnswer, Delivered
  <2>4. CASE /\ demand.pc \in {"starting", "nexting", "closing"}
             /\ \E ok \in BOOLEAN : GotAnswer(ok, NoFrame) /\ (ok => demand.pc = "closing")
    BY <2>1, <2>4, Zenon DEF GotAnswer, Delivered
  <2>5. CASE demand.pc = "starting" /\ GotAnswer(TRUE, [slot |-> camera.begun + 1, sequence |-> 0])
    BY <2>1, <2>5, Zenon DEF GotAnswer, Delivered
  <2>6. CASE /\ Leases /\ GotAnswer(TRUE, buffer.queued) /\ demand.pc = "nexting"
             /\ camera.session = demand.stream
    <3>1. f = buffer.queued /\ demand'.stream = demand.stream
      BY <2>1, <2>6, Zenon DEF GotAnswer, Delivered
    <3>2. /\ UNCHANGED <<slots, stores>> /\ stores = <<>> /\ camera'.session = camera.session
          /\ buffer.queued # NoFrame /\ buffer'.leased = buffer.queued
      BY <2>6, Zenon DEF Leases
    <3>3. Flight = {} /\ Flight' = {}
      <4>1. Flight = {}
        BY <3>2, NoFlight, Zenon
      <4>2. Flight' = Flight
        BY <3>2, Zenon DEF Flight
      <4> QED
        BY <4>1, <4>2, Zenon
    <3>4. Written(f)
      BY <1>1, <3>1, <3>2, Zenon DEF Memory
    <3>5. /\ f.slot \in SlotIds /\ f.sequence >= 1
          /\ slots[f.slot].pixels = <<camera.session, f.sequence>>
      BY <3>3, <3>4, Zenon DEF Written
    <3> QED
      BY <2>6, <3>1, <3>2, <3>3, <3>5, Zenon DEF Safe, Intact
  <2> QED
    BY <1>4, <2>2, <2>4, <2>5, <2>6, HostTells, Zenon
<1> QED
  BY <1>3, <1>4, Zenon

\* The guest's own steps keep what it holds in line with the step it is at.
LEMMA PhasesGuest ==
  ASSUME CamInv, CamType', Moves \/ Copies \/ Verifies \/ Asks \/ Answered \/ GivesUp
  PROVE  Phases'
<1>1. CamType /\ Talk /\ SameHost /\ Phases
  BY Zenon DEF CamInv, Moves, Copies, Verifies, Asks, Answered, GivesUp, Takes
<1>2. demand.pc \in Streaming => demand.stream >= 1
  BY <1>1, Zenon DEF Talk
<1>3. UNCHANGED slots
  BY <1>1, Zenon DEF SameHost
<1>4. demand.stream \in Nat
  BY <1>1, Basics, Zenon
<1>5. CASE Moves
  <2>1. (demand.pc = demand'.pc /\ demand'.out = demand.out)
        \/ demand'.pc \notin {"verify", "write"}
    BY <1>5, Zenon DEF Moves, BlankPcs
  <2>2. /\ demand'.stream = demand.stream /\ demand'.sequence = demand.sequence
        /\ demand'.frame = demand.frame /\ demand'.pixels = demand.pixels
    BY <1>5, Zenon DEF Moves
  <2>3. /\ demand'.pc = "verify" =>
             (slots'[demand'.frame.slot].generation = demand'.stream
                => Intact(demand.frame, demand.pixels)')
        /\ FrameIntact'
    BY <1>1, <1>3, <2>1, <2>2, Zenon DEF Phases, FrameIntact, At, Intact
  <2>4. demand'.pc \in BlankPcs => demand'.out = Black
    BY <1>1, <1>5, Zenon DEF Moves, Phases, BlankPcs
  <2>5. /\ demand'.pc \in BlankPcs \cup {"starting", "black"} =>
             demand'.stream = 0 /\ demand'.pixels = Black
        /\ demand'.pc = "exit" /\ demand'.stream = 0 => demand'.pixels = Black
    <3>1. \/ demand'.pc = demand.pc
          \/ demand'.pc \in {"end", "done", "loop", "copying"}
          \/ demand.pc \in BlankPcs \cup {"black"} /\ demand'.pc \in BlankPcs \cup {"black"}
          \/ demand.pc = "exit" /\ demand.stream = 0 /\ demand'.pc = "black"
          \/ demand.pc \in Streaming /\ demand'.pc = "exit"
      BY <1>5, Zenon DEF Moves, BlankPcs, Streaming
    <3> QED
      BY <1>1, <1>2, <2>2, <3>1 DEF Phases, BlankPcs
  <2> QED
    BY <2>3, <2>4, <2>5, Zenon DEF Phases
<1>6. CASE Copies
  <2>1. Delivered(demand.frame) /\ demand.frame \in Frames
    BY <1>1, <1>6, Basics, Zenon DEF Copies, Delivered
  <2>2. PICK f \in Frames : f = demand.frame
    BY <2>1, Zenon
  <2>3. Safe(f)
    BY <2>1, <2>2, DeliveredFacts, Zenon
  <2>4. /\ demand'.pc = "verify" /\ demand'.stream = demand.stream
        /\ demand'.frame = f /\ demand'.pixels = slots[f.slot].pixels
    BY <1>6, <2>2, Zenon DEF Copies
  <2>5. slots'[demand'.frame.slot].generation = demand'.stream
                => Intact(demand.frame, demand.pixels)'
    BY <1>3, <2>3, <2>4, Zenon DEF Safe, Intact
  <2> QED
    BY <2>4, <2>5, Zenon DEF Phases, FrameIntact, At, BlankPcs
<1>7. CASE Verifies
  <2>1. CASE /\ Committed /\ demand'.pc = "write" /\ demand'.pixels = demand.pixels
             /\ demand'.sequence = demand.frame.sequence
    <3>1. slots[demand.frame.slot].generation = demand.stream
      BY <2>1, Zenon DEF Committed
    <3>2. Intact(demand.frame, demand.pixels)
      BY <1>1, <1>7, <3>1, Zenon DEF Phases, Verifies
    <3>3. FrameIntact'
      BY <1>7, <3>2, Zenon DEF FrameIntact, Intact, Verifies
    <3> QED
      BY <2>1, <3>3, Zenon DEF Phases, BlankPcs
  <2>2. CASE demand'.pc = "exit" /\ demand'.pixels = Black
    BY <2>2, Zenon DEF Phases, FrameIntact, At, BlankPcs
  <2> QED
    BY <1>7, <2>1, <2>2, Zenon DEF Verifies
<1>8. CASE Asks
  <2>1. /\ demand'.pc \in {"starting", "nexting", "closing"}
        /\ demand'.pc = "starting" => demand.pc = "start"
        /\ demand'.stream = demand.stream /\ demand'.pixels = demand.pixels
    BY <1>8, Zenon DEF Asks
  <2> QED
    BY <1>1, <2>1, Zenon DEF Phases, FrameIntact, At, BlankPcs
<1>9. CASE Answered \/ GivesUp
  <2>1. \/ demand'.pc = "black" /\ demand'.stream = 0 /\ demand'.pixels = Black
        \/ demand'.pc = "exit" /\ demand.pc \in {"starting", "nexting"}
           /\ demand'.stream = demand.stream /\ demand'.pixels = demand.pixels
        \/ demand'.pc \in {"loop", "copy"}
    BY <1>9, Zenon DEF Answered, GivesUp, Takes
  <2>2. demand.pc = "starting" => demand.pixels = Black
    BY <1>1, Zenon DEF Phases
  <2>3. demand.pc = "nexting" => demand.stream >= 1
    BY <1>2, Zenon DEF Streaming
  <2> QED
    BY <2>1, <2>2, <2>3 DEF Phases, FrameIntact, At, BlankPcs
<1> QED
  BY <1>5, <1>6, <1>7, <1>8, <1>9, Zenon

\* The host's steps change nothing the guest has copied.
LEMMA PhasesHost ==
  ASSUME CamInv, CamType',
         Shuffles \/ Fails \/ Stops \/ Begins \/ Serves \/ Leases \/ Publishes \/ Visible
  PROVE  Phases'
<1>1. CamType /\ Talk /\ Phases
  BY Zenon DEF CamInv
<1>2. /\ demand'.pc = demand.pc /\ demand'.stream = demand.stream
      /\ demand'.sequence = demand.sequence /\ demand'.frame = demand.frame
      /\ demand'.pixels = demand.pixels /\ demand'.out = demand.out
  <2>1. CASE Shuffles \/ Serves \/ Publishes \/ Visible
    BY <2>1, Zenon DEF Shuffles, Serves, Publishes, Visible
  <2>2. CASE Fails \/ Stops \/ Begins \/ Leases
    BY <2>2, HostTells, Zenon DEF SameCall, GotAnswer
  <2> QED
    BY <2>1, <2>2, Zenon
<1>3. ASSUME demand.pc = "verify", slots'[demand.frame.slot].generation = demand.stream
      PROVE  Intact(demand.frame, demand.pixels)
  <2>1. CASE UNCHANGED slots
    BY <1>1, <1>3, <2>1, Zenon DEF Phases
  <2>2. CASE Visible
    <3>1. PICK f \in Frames : f = demand.frame
      BY <1>1, Basics, Zenon
    <3>2. Delivered(f)
      BY <1>3, <3>1, Zenon DEF Delivered
    <3>3. slots[f.slot].generation = demand.stream
      BY <1>3, <2>2, <3>1, <3>2, LeasedVisible, Zenon
    <3> QED
      BY <1>1, <1>3, <3>1, <3>3, Zenon DEF Phases
  <2> QED
    BY <2>1, <2>2, Zenon DEF Shuffles, Fails, Stops, Begins, Serves, Leases, Publishes, NewSlots,
       SameHost
<1>4. /\ FrameIntact'
      /\ demand'.pc \in BlankPcs => demand'.out = Black
      /\ demand'.pc \in BlankPcs \cup {"starting", "black"} =>
           demand'.stream = 0 /\ demand'.pixels = Black
      /\ demand'.pc = "exit" /\ demand'.stream = 0 => demand'.pixels = Black
  BY <1>1, <1>2, Zenon DEF Phases, FrameIntact, At
<1>5. demand'.pc = "verify" =>
        (slots'[demand'.frame.slot].generation = demand'.stream
           => Intact(demand.frame, demand.pixels)')
  BY <1>2, <1>3, Zenon DEF Intact
<1> QED
  BY <1>4, <1>5, Zenon DEF Phases

\* The invariant holds when the camera service and the host start.
LEMMA CamInitially == CamInit => CamInv
<1> SUFFICES ASSUME CamInit PROVE CamInv
  OBVIOUS
<1> USE DEF CamInit
<1>1. demand \in DemandState
  BY Kinds, Zenon DEF DemandState, Pcs, BlankPcs
<1>2. camera \in CameraState /\ buffer \in BufferState
  BY Kinds DEF CameraState, BufferState
<1>3. slots \in [SlotIds -> SlotState]
  BY Kinds, Zenon DEF SlotState, EmptySlot
<1>4. stores \in Seq(SUBSET Store) /\ net \in SUBSET Request
  OBVIOUS
<1>5. CamType
  BY <1>1, <1>2, <1>3, <1>4, Zenon DEF CamType
<1>6. camera.queue = <<>> /\ camera.serving = NoCall /\ DOMAIN camera.queue = {} /\ net = {}
  OBVIOUS
<1>7. Pending = {} /\ OneLive
  BY <1>6, Zenon DEF Pending, Elems, OneLive
<1>8. demand.pc = "top" /\ demand.call = NoCall /\ demand.stream = 0 /\ demand.pixels = Black
      /\ demand.out = Black /\ camera.begun = 0 /\ camera.session = 0
  OBVIOUS
<1>9. Talk
  BY <1>7 DEF Talk, Streaming
<1>10. Flight = {}
  BY NoFlight, Zenon
<1>11. Memory
  <2>1. \A s \in SlotIds : slots[s].generation = 0
    BY Zenon DEF EmptySlot
  <2>2. buffer.queued = NoFrame
    OBVIOUS
  <2> QED
    BY <1>10, <2>1, Zenon DEF Memory
<1>12. Leased
  BY Zenon DEF Leased, Delivered
<1>13. Phases
  BY Zenon DEF Phases, FrameIntact, At
<1> QED
  BY <1>5, <1>9, <1>11, <1>12, <1>13, Zenon DEF CamInv

\* The invariant is kept by every step.
LEMMA CamKept == CamInv /\ [CamNext]_camVars => CamInv'
<1> SUFFICES ASSUME CamInv, [CamNext]_camVars PROVE CamInv'
  OBVIOUS
<1>1. CASE CamNext
  <2>1. CamType' /\ CamStep
    BY <1>1, CamSteps, Zenon
  <2>2. Talk' /\ Memory'
    BY <2>1, TalkStep, MemoryStep, Zenon
  <2>3. Leased' /\ Phases'
    BY <2>1, LeasedGuest, LeasedHost, PhasesGuest, PhasesHost, Zenon DEF CamStep
  <2> QED
    BY <2>1, <2>2, <2>3, Zenon DEF CamInv
<1>2. CASE UNCHANGED camVars
  <2>1. UNCHANGED <<demand, net, camera, buffer, slots, stores>>
    BY <1>2, Zenon DEF camVars
  <2>2. CamType' /\ Moves
    BY <2>1, Zenon DEF CamInv, CamType, Moves, SameHost
  <2>3. Talk' /\ Memory'
    BY <2>2, TalkStep, MemoryStep, Zenon DEF CamStep
  <2>4. Leased' /\ Phases'
    BY <2>2, LeasedGuest, PhasesGuest, Zenon
  <2> QED
    BY <2>2, <2>3, <2>4, Zenon DEF CamInv
<1> QED
  BY <1>1, <1>2, Zenon

\* The application is never shown a frame that mixes two captures or two samples: what
\* SharedCamera's copyFrame returned and the writer passed on is one published
\* frame of the stream the guest opened, or black, whatever the host wrote in between.
THEOREM FramesStayWhole == CamSpec => []FrameShown
<1>1. CamInv => FrameShown
  BY Zenon DEF CamInv, Phases, FrameShown, NoImageLeft, BlankPcs
<1> QED
  BY <1>1, CamInitially, CamKept, PTL DEF CamSpec

-----------------------------------------------------------------------------
(* Whose capture ends                                                      *)

\* Only the next job and the two deadlines change the capture.
LEMMA SessionChanges ==
  ASSUME camera \in CameraState, CamNext, camera'.session # camera.session
  PROVE  Job \/ NextStalled \/ LeaseExpires
<1>1. GuestStep => UNCHANGED camera
  BY Zenon DEF GuestStep, GuestOnly, EnterStream, NextCall, ExitStream, Call
<1>2. Arrive => camera'.session = camera.session
  BY Zenon DEF Arrive, CameraState
<1>3. NextFrame => camera'.session = camera.session
  BY Zenon DEF NextFrame, CameraState
<1>4. StoreVisible => UNCHANGED camera
  BY Zenon DEF StoreVisible
<1>5. \A o, good : captureOutput(o, good) => camera'.session = camera.session
  BY Zenon DEF captureOutput, Publish, CameraState
<1>6. Resign => camera'.session = camera.session
  BY Zenon DEF Resign, CameraState
<1>7. CallTimeout => camera'.session = camera.session
  BY Zenon DEF CallTimeout, CameraState
<1>8. (Notify /\ GuestOnly) \/ Reader \/ ChildEnds \/ Terminated => UNCHANGED camera
  BY Zenon DEF GuestOnly, Reader, ChildEnds, Terminated
<1> QED
  BY <1>1, <1>2, <1>3, <1>4, <1>5, <1>6, <1>7, <1>8, Zenon DEF CamNext, HostStep

\* A stop that a sample of one capture has queued ends no other: when it is
\* served after that capture has ended, the one that runs goes on.
THEOREM StopsEndTheirOwn == CamSpec => StopsItsOwn
<1>1. ASSUME CamInv, [CamNext]_camVars, NEW o \in 1..camera.begun,
             camera.queue # <<>>, camera.queue[1] = StopFor(o),
             camera'.queue = Tail(camera.queue), camera.session # o,
             camera'.session # camera.session
      PROVE  FALSE
  <2>1. /\ camera \in CameraState /\ camera.begun \in Nat
        /\ camera.queue \in Seq(Request \cup StopJobs)
    BY <1>1, Zenon DEF CamInv, CamType, CameraState
  <2>2. o # 0 /\ camera'.queue # camera.queue
    <3>1. o # 0
      OBVIOUS
    <3>2. Len(camera.queue) \in Nat /\ Len(Tail(camera.queue)) = Len(camera.queue) - 1
      BY <1>1
    <3>3. Len(camera.queue) - 1 # Len(camera.queue)
      OBVIOUS
    <3> QED
      BY <1>1, <3>1, <3>2, <3>3, Zenon
  <2>3. Job \/ NextStalled \/ LeaseExpires
    BY <1>1, <2>1, SessionChanges, Zenon DEF camVars
  <2>4. CASE Job
    <3>1. PICK c : c = [camera EXCEPT !.queue = Tail(@)]
      BY Zenon
    <3>2. c.session = camera.session
      BY <3>1 DEF CameraState
    <3>3. Head(camera.queue).action = "stop" /\ Head(camera.queue).stream = o
      BY <1>1 DEF StopFor
    <3>4. StopJob(c, o)
      BY <2>4, <3>1, <3>3, Zenon DEF Job
    <3> QED
      BY <1>1, <3>2, <3>4 DEF StopJob, Keep
  <2>5. CASE NextStalled \/ LeaseExpires
    <3>1. camera' = [camera EXCEPT !.session = 0, !.lease = FALSE, !.serving = NoCall]
      BY <2>5, Zenon DEF NextStalled, LeaseExpires, Stop
    <3>2. camera'.queue = camera.queue
      BY <3>1 DEF CameraState
    <3> QED
      BY <2>2, <3>2, Zenon
  <2> QED
    BY <2>3, <2>4, <2>5, Zenon
<1>2. CamInv /\ [CamNext]_camVars =>
        [\A o \in 1..camera.begun :
           /\ camera.queue # <<>> /\ camera.queue[1] = StopFor(o)
           /\ camera'.queue = Tail(camera.queue) /\ camera.session # o
           => camera'.session = camera.session]_camVars
  BY <1>1, Zenon
<1> QED
  BY <1>2, CamInitially, CamKept, PTL DEF CamSpec, StopsItsOwn
====
