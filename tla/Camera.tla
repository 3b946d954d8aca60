------------------------------- MODULE Camera -------------------------------
(***************************************************************************)
(* The camera: the guest's demand service (src/guest/devices/              *)
(* camera_demand.py) and its stream (camera_shared.py), the host's         *)
(* CameraService.swift and CameraBuffer.swift, and the three slots of      *)
(* shared memory of src/host/common/CameraMemory.c between them.  A frame  *)
(* is <<output, sequence>>, the capture that produced it and its number;   *)
(* streams and outputs are numbered in the order they begin.  Stores to    *)
(* the slots become visible to the guest later than they are made, and     *)
(* those no release orders in any order.                                   *)
(***************************************************************************)
EXTENDS Integers, Sequences, FiniteSets

CONSTANT
  CameraBudgets  \* bounds, one record per instance explored: captures begun
                 \* (starts), frames (frames), changes of the readers (turns),
                 \* calls that time out in the guest (late), changes of the
                 \* host's session (resigns), ends of a child or signals (ends)

ASSUME CameraAssumption ==
  CameraBudgets \subseteq [starts : Nat, frames : Nat, turns : Nat,
                           late : Nat, resigns : Nat, ends : Nat]

VARIABLES
  demand,  \* serve(): where it is, its events, its stream and its output
  net,     \* requests on their way to the host
  camera,  \* CameraService: the capture, its lease, the control queue
  buffer,  \* CameraBuffer: sequence, the queued and the leased frame
  slots,   \* the shared memory as the guest sees it
  stores,  \* stores on their way there: groups in order, none within a group
  camLeft  \* what is left of the budget

camVars == <<demand, net, camera, buffer, slots, stores, camLeft>>

CamSpend(kind) ==
  /\ camLeft[kind] > 0
  /\ camLeft' = [camLeft EXCEPT ![kind] = @ - 1]

SlotIds == 0..2
Black == <<0, 0>>
NoFrame == [slot |-> 0, sequence |-> 0]
NoCall == [action |-> "none"]
StopFor(output) == [action |-> "stop", stream |-> output, live |-> FALSE]
EmptySlot == [sequence |-> 0, generation |-> 0, pixels |-> Black]

CamInit ==
  /\ demand = [pc |-> "top", active |-> FALSE, changed |-> FALSE,
               stopping |-> FALSE, child |-> "up", watch |-> "idle",
               stream |-> 0, sequence |-> 0, frame |-> NoFrame,
               pixels |-> Black, out |-> Black, call |-> NoCall]
  /\ net = {}
  /\ camera = [session |-> 0, lease |-> FALSE, active |-> TRUE, queue |-> <<>>,
               serving |-> NoCall, begun |-> 0]
  /\ buffer = [sequence |-> 0, queued |-> NoFrame, leased |-> NoFrame]
  /\ slots = [s \in SlotIds |-> EmptySlot]
  /\ stores = <<>>
  /\ camLeft \in CameraBudgets

-----------------------------------------------------------------------------
(* CameraMemory.c.  A mark is the sequence number 0, stored with           *)
(* sequential consistency: nothing keeps the plain stores after it behind  *)
(* it.  The commit is a release: it comes after all of them.               *)

Mark(s) == [slot |-> s, kind |-> "sequence", value |-> 0]
Plain(s, g, p) ==
  {[slot |-> s, kind |-> "generation", value |-> g],
   [slot |-> s, kind |-> "pixels", value |-> p]}
Commit(s, n) == [slot |-> s, kind |-> "sequence", value |-> n]

\* ashacky_camera_clear: the slots that hold something, one after another.
camera_clear ==
  LET used == {s \in SlotIds : slots[s] # EmptySlot}
      Wipe(s) == IF s \in used THEN <<{Mark(s)} \cup Plain(s, 0, Black)>> ELSE <<>>
  IN Wipe(0) \o Wipe(1) \o Wipe(2)

\* ashacky_camera_publish
camera_publish(s, g, n, p) == <<{Mark(s)} \cup Plain(s, g, p), {Commit(s, n)}>>

StoreVisible ==
  /\ stores # <<>>
  /\ \E st \in Head(stores) :
       /\ slots' = [slots EXCEPT ![st.slot][st.kind] = st.value]
       /\ stores' = IF Head(stores) = {st} THEN Tail(stores)
                    ELSE <<Head(stores) \ {st}>> \o Tail(stores)
  /\ UNCHANGED <<demand, net, camera, buffer, camLeft>>

-----------------------------------------------------------------------------
(* CameraService on its serial control queue.  Every operation on the slots*)
(* is under a lock whose release orders its stores before what follows.    *)

\* A reply reaches the guest if it still waits for it.
Replied(d, r, ok, f) ==
  IF r.live
  THEN [d EXCEPT !.call = [action |-> r.action, ok |-> ok, frame |-> f]]
  ELSE d

\* stop and CameraBuffer.end, leaving the service in c.
Stop(c) ==
  /\ camera' = [c EXCEPT !.session = 0, !.lease = FALSE, !.serving = NoCall]
  /\ buffer' = [buffer EXCEPT !.queued = NoFrame, !.leased = NoFrame]
  /\ stores' = camera_clear
  /\ UNCHANGED camLeft

Keep(c) == camera' = c /\ UNCHANGED <<buffer, stores, camLeft>>

\* As Begin, but only a frame that is fetched arms the lease.
Begin_unleased(c) ==
  /\ CamSpend("starts")
  /\ camera' = [c EXCEPT !.session = c.begun + 1, !.begun = @ + 1]
  /\ buffer' = [sequence |-> 0, queued |-> NoFrame, leased |-> NoFrame]
  /\ stores' = camera_clear

\* begin and CameraBuffer.begin; renew arms the lease.
Begin(c) ==
  /\ CamSpend("starts")
  /\ camera' = [c EXCEPT !.session = c.begun + 1, !.begun = @ + 1,
                         !.lease = TRUE]
  /\ buffer' = [sequence |-> 0, queued |-> NoFrame, leased |-> NoFrame]
  /\ stores' = camera_clear

Fail(r) == demand' = Replied(demand, r, FALSE, NoFrame)
Succeed(r, f) == demand' = Replied(demand, r, TRUE, f)

\* A connection: refused at once unless the session is active, else a job.
Arrive ==
  \E r \in net :
    /\ net' = net \ {r}
    /\ IF camera.active
       THEN /\ camera' = [camera EXCEPT !.queue = Append(@, r)]
            /\ UNCHANGED demand
       ELSE UNCHANGED camera /\ Fail(r)
    /\ UNCHANGED <<buffer, slots, stores, camLeft>>

\* request, except that camera-next goes on waiting for a frame.
request(c, r) ==
  \/ ~c.active /\ Stop(c) /\ Fail(r)
  \/ /\ c.active /\ r.action = "camera-start"
     /\ \/ Keep(c) /\ Fail(r)
        \/ /\ c.session = 0
           /\ Begin(c) /\ Succeed(r, [slot |-> c.begun + 1, sequence |-> 0])
  \/ /\ c.active /\ r.action # "camera-start" /\ r.stream # c.session
     /\ Keep(c) /\ Fail(r)
  \/ /\ c.active /\ r.action = "camera-stop" /\ r.stream = c.session
     /\ Stop(c) /\ Succeed(r, NoFrame)
  \/ /\ c.active /\ r.action = "camera-next" /\ r.stream = c.session
     /\ IF r.ack # buffer.leased.sequence THEN Stop(c) /\ Fail(r)
        ELSE /\ camera' = [c EXCEPT !.serving = r]
             /\ buffer' = [buffer EXCEPT !.leased = NoFrame]
             /\ UNCHANGED <<demand, stores, camLeft>>

\* As StopJob, whatever captures by now.
StopJob_any(c, output) == UNCHANGED demand /\ Stop(c)

\* A stop from the observers (output 0) or from a sample of one output.
StopJob(c, output) ==
  /\ UNCHANGED demand
  /\ IF output \in {0, c.session} THEN Stop(c) ELSE Keep(c)

Job ==
  /\ camera.serving = NoCall /\ stores = <<>> /\ camera.queue # <<>>
  /\ LET c == [camera EXCEPT !.queue = Tail(@)]
         job == Head(camera.queue)
     IN IF job.action = "stop" THEN StopJob(c, job.stream) ELSE request(c, job)
  /\ UNCHANGED <<net, slots>>

\* CameraBuffer.next has a frame: it is leased to the guest.
NextFrame ==
  /\ camera.serving # NoCall /\ stores = <<>> /\ buffer.queued # NoFrame
  /\ buffer' = [buffer EXCEPT !.leased = buffer.queued, !.queued = NoFrame]
  /\ camera' = [camera EXCEPT !.lease = TRUE, !.serving = NoCall]
  /\ Succeed(camera.serving, buffer.queued)
  /\ UNCHANGED <<net, slots, stores, camLeft>>

\* CameraBuffer.next has waited a second.
NextStalled ==
  /\ camera.serving # NoCall /\ stores = <<>> /\ buffer.queued = NoFrame
  /\ Fail(camera.serving)
  /\ Stop(camera)
  /\ UNCHANGED <<net, slots>>

\* Five seconds without a renewal.
LeaseExpires ==
  /\ camera.lease /\ camera.serving = NoCall /\ stores = <<>>
  /\ Stop(camera)
  /\ UNCHANGED <<demand, net, slots>>

Holds(f, s) == f # NoFrame /\ f.slot = s

\* The slots publish may write.
FreeSlots ==
  {s \in SlotIds : ~Holds(buffer.leased, s) /\ ~Holds(buffer.queued, s)}

Publish(output) ==
  LET s == CHOOSE t \in FreeSlots : \A u \in FreeSlots : t <= u
      n == buffer.sequence + 1
  IN /\ buffer' = [buffer EXCEPT !.sequence = n,
                                 !.queued = [slot |-> s, sequence |-> n]]
     /\ stores' = camera_publish(s, camera.session, n, <<output, n>>)
     /\ UNCHANGED camera

\* captureOutput: a sample of a capture that is no longer current is
\* dropped; one that comes in another user's session, or is malformed,
\* queues a stop for its own output; else CameraBuffer.publish.
captureOutput(output, good) ==
  /\ camera.session = output /\ stores = <<>>
  /\ CamSpend("frames")
  /\ IF camera.active /\ good THEN Publish(output)
     ELSE /\ camera' = [camera EXCEPT !.queue = Append(@, StopFor(output))]
          /\ UNCHANGED <<buffer, stores>>
  /\ UNCHANGED <<demand, net, slots>>

\* The session is switched away, which queues a stop, or comes back.
Resign ==
  /\ CamSpend("resigns")
  /\ camera' = [camera EXCEPT !.active = ~@,
       !.queue = IF camera.active
                 THEN Append(@, StopFor(0)) ELSE @]
  /\ UNCHANGED <<demand, net, buffer, slots, stores>>

HostStep == Arrive \/ Job \/ NextFrame \/ StoreVisible

-----------------------------------------------------------------------------
(* The guest.  Event.clear and Event.wait hold the event's lock at "clear"  *)
(* and "enter"; nobody else gets it there.                                 *)

At(pc) == demand.pc = pc
Go(pc) == demand' = [demand EXCEPT !.pc = pc]
GuestOnly == UNCHANGED <<net, camera, buffer, slots, stores, camLeft>>
Wanted == demand.active /\ ~demand.stopping

LoopHead == At("top") /\ Go(IF demand.stopping THEN "end" ELSE "clear")

ClearChanged ==
  At("clear") /\ demand' = [demand EXCEPT !.changed = FALSE, !.pc = "check"]

Check ==
  /\ At("check")
  /\ Go(IF demand.stopping \/ demand.child # "up" THEN "end"
        ELSE IF demand.active THEN "start" ELSE "idle")

CallWait == At("idle") /\ Go("enter")

EnterWait == At("enter") /\ Go(IF demand.changed THEN "top" ELSE "wait")

Wake == At("wait") /\ demand.changed /\ Go("top")

\* rpc: the connection is open until the reply or the timeout.
Call(action, pc) ==
  /\ net' = net \cup {[action |-> action, stream |-> demand.stream,
                       ack |-> demand.sequence, live |-> TRUE]}
  /\ Go(pc)
  /\ UNCHANGED <<camera, buffer, slots, stores, camLeft>>

\* __enter__: the memory cannot be mapped, or the host is asked to start.
EnterStream ==
  /\ At("start")
  /\ \/ Go("black") /\ GuestOnly
     \/ Call("camera-start", "starting")

\* The while loop of serve, and frame up to the call.
NextCall == At("loop") /\ Wanted /\ Call("camera-next", "nexting")

EndLoop == At("loop") /\ ~Wanted /\ Go("exit")

\* __exit__: a stream that was started is stopped.
ExitStream ==
  /\ At("exit")
  /\ IF demand.stream # 0 THEN Call("camera-stop", "closing")
     ELSE Go("black") /\ GuestOnly

Closed == [demand EXCEPT !.stream = 0, !.sequence = 0, !.frame = NoFrame,
                         !.call = NoCall, !.pixels = Black, !.pc = "black"]

Reply ==
  /\ demand.call # NoCall
  /\ demand' =
       IF At("closing") THEN Closed
       ELSE IF ~demand.call.ok
       THEN [demand EXCEPT !.call = NoCall, !.pc = "exit"]
       ELSE IF At("starting")
       THEN [demand EXCEPT !.call = NoCall, !.pc = "loop",
                           !.stream = demand.call.frame.slot]
       ELSE [demand EXCEPT !.call = NoCall, !.frame = demand.call.frame,
               !.pc = IF demand.call.frame.sequence > demand.sequence
                      THEN "copy" ELSE "exit"]

\* Six or two seconds without a reply: the host may still serve the call.
CallTimeout ==
  /\ demand.pc \in {"starting", "nexting", "closing"} /\ demand.call = NoCall
  /\ CamSpend("late")
  /\ demand' = IF At("closing") THEN Closed ELSE [demand EXCEPT !.pc = "exit"]
  /\ LET Dead(r) == IF r = NoCall THEN r ELSE [r EXCEPT !.live = FALSE]
     IN /\ net' = {Dead(r) : r \in net}
        /\ camera' = [camera EXCEPT !.serving = Dead(@),
                        !.queue = [i \in DOMAIN @ |-> Dead(@[i])]]
  /\ UNCHANGED <<buffer, slots, stores>>

Committed ==
  LET s == slots[demand.frame.slot]
  IN s.sequence = demand.frame.sequence /\ s.generation = demand.stream

\* ashacky_camera_copy: check, copy, check again.
CopyCheck == At("copy") /\ Go(IF Committed THEN "copying" ELSE "exit")

CopyPixels ==
  /\ At("copying")
  /\ demand' = [demand EXCEPT !.pixels = slots[demand.frame.slot].pixels,
                              !.pc = "verify"]

\* As CopyVerify, without the second check.
CopyVerify_trusting ==
  /\ At("verify")
  /\ demand' = [demand EXCEPT !.sequence = demand.frame.sequence, !.pc = "write"]

CopyVerify ==
  /\ At("verify")
  /\ demand' = IF Committed
               THEN [demand EXCEPT !.sequence = demand.frame.sequence,
                                   !.pc = "write"]
               ELSE [demand EXCEPT !.pixels = Black, !.pc = "exit"]

WriterUp == demand.child # "writer"

WriteFrame ==
  /\ At("write")
  /\ demand' = IF Wanted /\ WriterUp
               THEN [demand EXCEPT !.out = demand.pixels, !.pc = "loop"]
               ELSE [demand EXCEPT !.pc = "exit"]

\* finally: black frames; half a second before the next try.
WriteBlack ==
  /\ At("black")
  /\ demand' = IF ~WriterUp THEN [demand EXCEPT !.pc = "end"]
               ELSE [demand EXCEPT !.out = Black,
                       !.pc = IF demand.active THEN "pause" ELSE "top"]

Pause == At("pause") /\ Go("top")

\* The outer finally: monitor and writer are ended, the threads joined.
Cleanup ==
  /\ At("end")
  /\ demand' = [demand EXCEPT !.pc = "done", !.child = "none", !.watch = "idle",
                              !.active = FALSE, !.stopping = TRUE]

LockFree == ~At("clear") /\ ~At("enter")

\* The watching threads: state first, then the event.
Reader ==
  /\ demand.watch = "idle" /\ demand.child = "up"
  /\ CamSpend("turns")
  /\ demand' = [demand EXCEPT !.active = ~@, !.watch = "notify"]
  /\ UNCHANGED <<net, camera, buffer, slots, stores>>

ChildEnds ==
  /\ demand.child = "up" /\ CamSpend("ends")
  /\ \E c \in {"writer", "monitor"} :
       demand' = [demand EXCEPT !.child = c, !.watch = "notify",
                                !.active = @ /\ c # "monitor"]
  /\ UNCHANGED <<net, camera, buffer, slots, stores>>

Notify ==
  /\ demand.watch = "notify" /\ LockFree
  /\ demand' = [demand EXCEPT !.changed = TRUE, !.watch = "idle"]

\* SIGTERM or SIGINT, handled by the main thread wherever it is: set takes
\* the event's lock, which this thread may hold.
Terminated ==
  /\ ~demand.stopping /\ demand.pc # "done" /\ CamSpend("ends")
  /\ demand' = IF LockFree
               THEN [demand EXCEPT !.stopping = TRUE, !.changed = TRUE]
               ELSE [demand EXCEPT !.stopping = TRUE, !.pc = "stuck"]
  /\ UNCHANGED <<net, camera, buffer, slots, stores>>

GuestStep ==
  \/ /\ \/ LoopHead \/ ClearChanged \/ Check \/ CallWait \/ EnterWait
        \/ Wake \/ EndLoop
        \/ Reply \/ CopyCheck \/ CopyPixels \/ CopyVerify \/ WriteFrame
        \/ WriteBlack \/ Pause \/ Cleanup
     /\ GuestOnly
  \/ EnterStream \/ NextCall \/ ExitStream

CamNext ==
  \/ GuestStep \/ HostStep \/ NextStalled \/ LeaseExpires
  \/ Notify /\ GuestOnly
  \/ \E o \in 1..camera.begun, good \in BOOLEAN : captureOutput(o, good)
  \/ Resign \/ CallTimeout \/ Reader \/ ChildEnds \/ Terminated

CamSpec == CamInit /\ [][CamNext]_camVars

\* The service, the host's queue, its deadlines and the threads run.
CamFairness ==
  /\ WF_camVars(GuestStep) /\ WF_camVars(HostStep) /\ WF_camVars(NextStalled)
  /\ WF_camVars(LeaseExpires) /\ WF_camVars(Notify /\ GuestOnly)

-----------------------------------------------------------------------------
(* Properties *)

\* What the guest hands to the device as a frame is the one frame its
\* descriptor names, of its own stream, or has been wiped by the end of the
\* stream: never another frame, nor another capture's, however the host's
\* stores reach the guest's copy.
FrameIntact ==
  At("write") =>
    demand.pixels \in {<<demand.stream, demand.sequence>>, Black}

\* Between streams, whatever ended the last one, the device shows black and
\* not the last camera image, as long as there is a writer to write it.
NoImageLeft ==
  demand.pc \in {"top", "clear", "check", "idle", "enter", "wait", "pause",
                "stuck"}
    => demand.out = Black /\ demand.pixels = Black

\* The device shows whole frames of the stream that runs, and black between
\* streams.
FrameShown == FrameIntact /\ NoImageLeft

\* A stop queued by a sample of one capture never ends a later capture.
StopsItsOwn ==
  [][\A o \in 1..camera.begun :
       /\ camera.queue # <<>> /\ camera.queue[1] = StopFor(o)
       /\ camera'.queue = Tail(camera.queue) /\ camera.session # o
       => camera'.session = camera.session]_camVars

\* The camera does not stay on without a reader, whatever calls were lost.
CaptureEnds == []<>(demand.active \/ camera.session = 0)

\* The service does not sleep through a reader's arrival or the end of a
\* child.
DemandNoticed ==
  []<>~(At("wait") /\ (demand.active \/ demand.child # "up"))

\* The camera follows its readers: the service notices them, and the camera
\* is off again when there are none.
CameraFollows == DemandNoticed /\ CaptureEnds

\* A signal to end ends the service.
StopHonoured == demand.stopping ~> At("done")
=============================================================================
