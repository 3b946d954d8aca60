------------------------------ MODULE Trackpad -------------------------------
(***************************************************************************)
(* Touch frames of the Mac become a multitouch touchpad of the guest       *)
(* (src/guest/input/trackpad.py).  The frontend (src/host/frontend/main.m) *)
(* sends frames while the guest says it is ready, and gives up its own     *)
(* pointer while the guest says frames are applied.                        *)
(*                                                                         *)
(* Time is counted in half seconds; the guest's loop meets its deadlines.  *)
(* A contact's coordinates are left out, and its identity is what is left. *)
(***************************************************************************)
EXTENDS Integers, Sequences, FiniteSets, FiniteSetsExt, Functions

CONSTANTS
  Fingers,     \* identities of contacts
  PadSlots,    \* slots of the touchpad: 10 in the code
  PadFrames,   \* bound: lines the frontend sends
  PadEnds      \* bound: times the port closes

ASSUME PadAssumption ==
  /\ IsFiniteSet(Fingers)
  /\ PadSlots \in Nat \ {0} /\ PadFrames \in Nat /\ PadEnds \in Nat

VARIABLES
  pad,     \* slots: contact -> slot; buttons; age: how long ago is "last"
  server,  \* the loop: time to the next READY, blocked;
           \* history: a frame was applied, half seconds without a valid one
  port,    \* lines to the guest, replies to the frontend, open or not
  front,   \* the frontend: how long READY and APPLIED are good for
  padLeft  \* what is left of the bounds

padVars == <<pad, server, port, front, padLeft>>

Hold == 2        \* one second without a valid frame
ReadyFor == 6    \* three seconds
AppliedFor == 1  \* half a second
Room == 1        \* replies the port takes before it blocks
NoSlot == PadSlots

Held(p) == DOMAIN p.slots # {} \/ p.buttons > 0
Free(slots) == (0..PadSlots - 1) \ Range(slots)
Lowest(slots) == IF Free(slots) = {} THEN NoSlot ELSE Min(Free(slots))

\* A contact without a slot takes the lowest free one.
Place(i, slots) ==
  [j \in DOMAIN slots \cup {i} |-> IF j \in DOMAIN slots THEN slots[j] ELSE Lowest(slots)]

Placed(slots, points) == FoldSet(Place, slots, points)

frame_grows(p, points, buttons) ==
  [p EXCEPT !.slots = Restrict(Placed(@, points), points), !.buttons = buttons]

\* Contacts that left free their slots before those that came take one.
frame(p, points, buttons) ==
  [p EXCEPT !.slots = Placed(Restrict(@, points \cap DOMAIN @), points), !.buttons = buttons]

Released(p) == frame(p, {}, 0)

Valid(line) == line.whole /\ line.buttons >= 0 /\ Cardinality(line.points) <= PadSlots

reply(out, message) == IF Len(out) < Room THEN Append(out, message) ELSE out

Readable == port.in # <<>>
DueRelease == Held(pad) /\ pad.age >= Hold
DueReady == server.ready = 0 /\ ~server.blocked
DueWrite == server.blocked /\ Len(port.out) < Room
Due == Readable \/ DueRelease \/ DueReady \/ DueWrite \/ ~port.open

applies_any(line) == Valid(line)

\* A line after which the frontend is told that its frame is applied.
applies(line) == Valid(line) /\ line.points # {}

consume_any(p, line) ==
  [IF ~line.whole THEN p
   ELSE IF Valid(line) THEN frame(p, line.points, line.buttons)
   ELSE Released(p) EXCEPT !.age = 0]

\* The lines read: a part of a line stays in the buffer, a bad line releases.
consume(p, line) ==
  IF ~line.whole THEN p
  ELSE IF Valid(line) THEN [frame(p, line.points, line.buttons) EXCEPT !.age = 0]
  ELSE Released(p)

\* One turn of the loop: deadlines, then select, then one line.
serve ==
  /\ port.open /\ Due
  /\ LET sent  == IF DueReady THEN reply(port.out, "ready") ELSE port.out
         stuck == DueReady /\ sent = port.out
         p     == IF DueRelease THEN Released(pad) ELSE pad
         line  == Head(port.in)
     IN /\ pad' = IF Readable THEN consume(p, line) ELSE p
        /\ server' = [server EXCEPT
             !.ready = IF DueReady /\ ~stuck THEN 2 ELSE @,
             !.blocked = IF stuck THEN TRUE ELSE @ /\ ~DueWrite,
             !.applied = @ \/ (Readable /\ Valid(line) /\ line.points # {}),
             !.quiet = IF Readable /\ Valid(line) THEN 0 ELSE @]
        /\ port' = [port EXCEPT !.in = IF Readable THEN Tail(@) ELSE @,
             !.out = IF Readable /\ applies(line) THEN reply(sent, "applied") ELSE sent]
  /\ UNCHANGED <<front, padLeft>>

NoPad == [slots |-> <<>>, buttons |-> 0, age |-> 0]
Started == [ready |-> 0, blocked |-> FALSE, applied |-> FALSE, quiet |-> 0]

\* serve ends and releases; main makes a new touchpad and opens the port.
Reopen ==
  /\ ~port.open
  /\ pad' = NoPad /\ server' = Started
  /\ port' = [in |-> <<>>, out |-> <<>>, open |-> TRUE]
  /\ UNCHANGED <<front, padLeft>>

portDidDisconnect ==
  /\ port.open /\ padLeft.ends > 0
  /\ port' = [port EXCEPT !.open = FALSE]
  /\ front' = [ready |-> 0, applied |-> 0]
  /\ padLeft' = [padLeft EXCEPT !.ends = @ - 1]
  /\ UNCHANGED <<pad, server>>

\* Contacts, or a button, or a line that does not validate, or part of one.
Lines ==
  [points : SUBSET Fingers, buttons : {0}, whole : {TRUE}]
    \cup [points : {{}}, buttons : {1, -1}, whole : {TRUE}]
    \cup [points : {{}}, buttons : {0}, whole : {FALSE}]

sendTouches ==
  /\ port.open /\ front.ready > 0 /\ padLeft.frames > 0
  /\ \E line \in Lines : port' = [port EXCEPT !.in = Append(@, line)]
  /\ padLeft' = [padLeft EXCEPT !.frames = @ - 1]
  /\ UNCHANGED <<pad, server, front>>

didReceiveData ==
  /\ port.open /\ port.out # <<>>
  /\ front' = IF Head(port.out) = "ready" THEN [front EXCEPT !.ready = ReadyFor]
              ELSE [front EXCEPT !.applied = AppliedFor]
  /\ port' = [port EXCEPT !.out = Tail(@)]
  /\ UNCHANGED <<pad, server, padLeft>>

Down(n) == IF n > 0 THEN n - 1 ELSE 0

HalfSecond ==
  /\ ~Due
  /\ pad' = [pad EXCEPT !.age = Min({Hold, @ + 1})]
  /\ server' = [server EXCEPT !.ready = Down(@), !.quiet = Min({Hold + 1, @ + 1})]
  /\ front' = [ready |-> Down(front.ready), applied |-> Down(front.applied)]
  /\ UNCHANGED <<port, padLeft>>

PadInit ==
  /\ pad = NoPad /\ server = Started
  /\ port = [in |-> <<>>, out |-> <<>>, open |-> TRUE]
  /\ front = [ready |-> 0, applied |-> 0]
  /\ padLeft = [frames |-> PadFrames, ends |-> PadEnds]

PadNext ==
  serve \/ Reopen \/ portDidDisconnect \/ sendTouches \/ didReceiveData \/ HalfSecond

PadSpec == PadInit /\ [][PadNext]_padVars

-----------------------------------------------------------------------------
(* Properties *)

\* Every contact has a slot of the touchpad to itself, also in a frame that
\* replaces all of them at once.
SlotsApart ==
  /\ Range(pad.slots) \subseteq 0..PadSlots - 1
  /\ \A i, j \in DOMAIN pad.slots : pad.slots[i] = pad.slots[j] => i = j

\* Contacts and buttons are released a second after the last valid frame,
\* whatever else arrives and however long the port takes no reply.
HeldReleased == Held(pad) => server.quiet <= Hold

\* Contacts have a slot each, and are released when no frame renews them.
ContactsKept == SlotsApart /\ HeldReleased

\* The frontend gives up its pointer only once a frame with contacts has
\* reached the touchpad of this connection.
PointerNeedsApplied == front.applied > 0 => server.applied
=============================================================================
