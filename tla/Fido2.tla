------------------------------- MODULE Fido2 -------------------------------
(***************************************************************************)
(* The FIDO2 relay of the guest, src/guest/auth/fido2.py, with the part of *)
(* the Mac's service that answers it, src/host/auth/FIDO2Service.swift.    *)
(* Programs in the guest speak CTAPHID packets to a virtual device; the    *)
(* relay assembles a message, runs one ceremony at a time and opens one    *)
(* connection to the Mac per request and per cancellation.  Connections    *)
(* are independent: a cancellation may overtake its request, a reply may   *)
(* come after the ceremony it answers has ended, and either may be lost.   *)
(* Error reports and keepalives change no state and are left out.          *)
(***************************************************************************)
EXTENDS Integers, Sequences, FiniteSets, Functions

CONSTANTS
  Cids,            \* the channel numbers INIT may assign
  MaxChannels,     \* 64 in the code
  ClientLimit,     \* connections to the Mac at a time, 8 in the code
  FragmentTimeout, HostTimeout, BusyTimeout, RpcTimeout, \* 3, 55, 65, 70 s
  MaxCeremonies,   \* bound: messages that become a request
  FidoBudgets      \* bounds, one record per instance explored: channels
                   \* assigned (inits), messages that become a request
                   \* (ceremonies), sleep, lock or session changes of the
                   \* Mac (revokes), lost connections and stops (cuts)

ASSUME FidoAssumption ==
  /\ MaxChannels \in Nat \ {0, 1} /\ ClientLimit \in Nat
  /\ FragmentTimeout \in Nat /\ HostTimeout \in Nat
  /\ BusyTimeout \in Nat /\ RpcTimeout \in Nat
  /\ HostTimeout < BusyTimeout /\ BusyTimeout < RpcTimeout
  /\ MaxCeremonies \in Nat
  /\ FidoBudgets \subseteq [inits : Nat, ceremonies : 0..MaxCeremonies,
                             revokes : Nat, cuts : Nat]

VARIABLES
  relay,    \* HID and Relay: channels, fragment, busy, clients; the log of
            \* final answers and of ceremonies ended without one
  wire,     \* messages on their way to the Mac, in no order
  core,     \* FIDO2Service: the current transaction, whether it may run
  fidoLeft  \* what is left of the budget

fidoVars == <<relay, wire, core, fidoLeft>>

None == [id |-> 0]
Ids == 1..MaxCeremonies

FidoSpend(kind) ==
  /\ fidoLeft[kind] > 0
  /\ fidoLeft' = [fidoLeft EXCEPT ![kind] = @ - 1]

FidoInit ==
  /\ relay = [channels |-> <<>>, fragment |-> None, busy |-> None,
              clients |-> {}, running |-> TRUE, owner |-> <<>>,
              finals |-> [id \in Ids |-> <<>>], silent |-> {}]
  /\ wire = {}
  /\ core = [current |-> None, away |-> FALSE, revoked |-> {}]
  /\ fidoLeft \in FidoBudgets

-----------------------------------------------------------------------------
(* HID and Relay as functions of the relay's state.  "up" says whether the *)
(* endpoint accepts a connection.                                          *)

Final(r, data) ==
  [r EXCEPT !.busy = None,
            !.finals[r.busy.id] =
              Append(@, [cid |-> r.busy.cid, data |-> data])]

\* As complete, for whatever ceremony is running.
complete_any(r, id, data) == IF r.busy # None THEN Final(r, data) ELSE r

\* A result ends the ceremony it belongs to and no other.
complete(r, id, data) ==
  IF r.busy.id = id /\ r.busy # None THEN Final(r, data) ELSE r

Open(r, kind, id) ==
  [r EXCEPT !.clients = @ \cup {[kind |-> kind, id |-> id, reply |-> "none",
                                 timer |-> RpcTimeout]}]

Opened(r, up) == up /\ Cardinality(r.clients) < ClientLimit

\* A request that gets no connection completes with a failure at once; a
\* cancellation that gets none is dropped.
rpc(r, kind, id, up) ==
  IF Opened(r, up) THEN Open(r, kind, id)
  ELSE IF kind = "request" THEN complete(r, id, <<"status">>) ELSE r

\* The message a call of rpc puts on the wire.
Sent(r, kind, id, up) ==
  IF Opened(r, up) THEN {[kind |-> kind, id |-> id]} ELSE {}

\* abort: no fragment, no ceremony; the Mac is told, the program only when
\* it cancelled.
Ended(r, respond) ==
  LET clear == [r EXCEPT !.fragment = None]
  IN IF r.busy = None THEN clear
     ELSE IF respond THEN Final(clear, <<"status">>)
     ELSE [clear EXCEPT !.busy = None, !.silent = @ \cup {r.busy.id}]

abort(r, respond, up) ==
  IF r.busy = None THEN Ended(r, respond)
  ELSE rpc(Ended(r, respond), "cancel", r.busy.id, up)

Aborted(r, up) == IF r.busy = None THEN {} ELSE Sent(r, "cancel", r.busy.id, up)

\* As Victims, without a thought for the message under assembly.
Victims_busy_only(r) ==
  {i \in DOMAIN r.channels : ~(r.busy # None /\ r.busy.cid = r.channels[i])}

\* Where the channels are that INIT may evict; the least recently used come first.
Victims(r) ==
  {i \in DOMAIN r.channels : /\ ~(r.busy # None /\ r.busy.cid = r.channels[i])
                             /\ ~(r.fragment # None /\ r.fragment.cid = r.channels[i])}

Without(channels, p) ==
  [i \in 1..Len(channels) - 1 |-> channels[IF i < p THEN i ELSE i + 1]]

Assign(r, cid) ==
  LET full == Len(r.channels) >= MaxChannels /\ Victims(r) # {}
      oldest == CHOOSE i \in Victims(r) : \A j \in Victims(r) : i <= j
  IN [r EXCEPT !.channels = Append(IF full THEN Without(@, oldest) ELSE @, cid)]

Known(cid) == cid \in Range(relay.channels)

\* move_to_end, of a known channel
Touched(cid) ==
  LET p == CHOOSE i \in DOMAIN relay.channels : relay.channels[i] = cid
  IN [relay EXCEPT !.channels = Append(Without(@, p), cid)]

-----------------------------------------------------------------------------
(* Packets of the programs in the guest *)

\* INIT on the broadcast channel: a new channel.  Numbers are only compared,
\* so which of the unused ones is drawn makes no difference: the least is.
InitBroadcast ==
  /\ relay.running /\ FidoSpend("inits")
  /\ \E cid \in Cids : /\ ~Known(cid) /\ \A d \in Cids : d < cid => Known(d)
                       /\ relay' = Assign(relay, cid)
  /\ UNCHANGED <<wire, core>>

\* INIT on a channel of its own drops what that channel was doing.
InitChannel(cid) ==
  /\ relay.running /\ Known(cid)
  /\ \/ relay.busy # None /\ relay.busy.cid = cid
     \/ relay.fragment # None /\ relay.fragment.cid = cid
  /\ \E up \in BOOLEAN :
       IF relay.busy # None /\ relay.busy.cid = cid
       THEN /\ relay' = abort(relay, FALSE, up)
            /\ wire' = wire \cup Aborted(relay, up)
       ELSE /\ relay' = [relay EXCEPT !.fragment = None]
            /\ UNCHANGED wire
  /\ UNCHANGED <<core, fidoLeft>>

\* CANCEL ends the ceremony of its channel, if there is one.
Cancel(cid) ==
  /\ relay.running /\ Known(cid)
  /\ \E up \in BOOLEAN :
       IF relay.busy # None /\ relay.busy.cid = cid
       THEN /\ relay' = abort(Touched(cid), TRUE, up)
            /\ wire' = wire \cup Aborted(relay, up)
       ELSE relay' = Touched(cid) /\ UNCHANGED wire
  /\ UNCHANGED <<core, fidoLeft>>

\* A complete message: a ping or an empty message is answered on the spot, a
\* CBOR message becomes the ceremony.
Message(r, part, up) ==
  LET id == Len(r.owner) + 1
      none == [r EXCEPT !.fragment = None]
      taken == [none EXCEPT !.owner = Append(@, part.cid),
                            !.busy = [id |-> id, cid |-> part.cid,
                                      timer |-> BusyTimeout]]
  IN IF part.cmd # "cbor"
     THEN /\ relay' = none
          /\ UNCHANGED <<wire, fidoLeft>>
     ELSE /\ FidoSpend("ceremonies")
          /\ relay' = rpc(taken, "request", id, up)
          /\ wire' = wire \cup Sent(taken, "request", id, up)

\* The first packet of a message that takes "more" further packets.  With a
\* ceremony running, or a message of another channel under assembly, it is
\* refused; on the same channel it also discards the message.
First(cid) ==
  /\ relay.running /\ Known(cid)
  /\ LET r == Touched(cid)
     IN IF r.busy # None \/ r.fragment # None
        THEN /\ relay' = IF r.fragment # None /\ r.fragment.cid = cid
                         THEN [r EXCEPT !.fragment = None] ELSE r
             /\ UNCHANGED <<wire, fidoLeft>>
        ELSE \E cmd \in {"cbor", "ping"}, more \in 0..1 :
               LET part == [id |-> 1, cid |-> cid, cmd |-> cmd,
                            timer |-> FragmentTimeout]
               IN IF more = 0 THEN \E up \in BOOLEAN : Message(r, part, up)
                  ELSE /\ relay' = [r EXCEPT !.fragment = part]
                       /\ UNCHANGED <<wire, fidoLeft>>
  /\ UNCHANGED core

\* A further packet; one out of sequence discards the message.
Continue(cid) ==
  /\ relay.running /\ Known(cid) /\ relay.busy = None
  /\ relay.fragment # None
  /\ LET r == Touched(cid)
     IN IF relay.fragment.cid # cid
        THEN relay' = r /\ UNCHANGED <<wire, fidoLeft>>
        ELSE \/ /\ relay' = [r EXCEPT !.fragment = None]
                /\ UNCHANGED <<wire, fidoLeft>>
             \/ \E up \in BOOLEAN : Message(r, r.fragment, up)
  /\ UNCHANGED core

\* The last program closed the device.
DeviceClosed ==
  /\ relay.running /\ (relay.busy # None \/ relay.fragment # None)
  /\ \E up \in BOOLEAN : /\ relay' = abort(relay, FALSE, up)
                         /\ wire' = wire \cup Aborted(relay, up)
  /\ UNCHANGED <<core, fidoLeft>>

-----------------------------------------------------------------------------
(* Relay *)

\* finish: the connection is gone, its completion runs; a cancellation's
\* does nothing.
finish(r, c, data) ==
  LET closed == [r EXCEPT !.clients = @ \ {c}]
  IN IF c.kind = "request" THEN complete(closed, c.id, data) ELSE closed

Reply(c) ==
  /\ c.reply # "none"
  /\ relay' = finish(relay, c, IF c.reply = "data" THEN <<"data", c.id>>
                               ELSE <<"status">>)
  /\ UNCHANGED <<wire, core, fidoLeft>>

\* The connection breaks or its reply is malformed.  The Mac may still get
\* the message.
Lose(c) ==
  /\ FidoSpend("cuts")
  /\ relay' = finish(relay, c, <<"status">>)
  /\ \/ UNCHANGED wire
     \/ wire' = wire \ {[kind |-> c.kind, id |-> c.id]}
  /\ UNCHANGED core

\* timeout: an unfinished message and a ceremony have their time.
timeout(r, up) ==
  LET kept == IF r.fragment # None /\ r.fragment.timer = 0
              THEN [r EXCEPT !.fragment = None] ELSE r
  IN IF r.busy # None /\ r.busy.timer = 0
     THEN rpc(Final(kept, <<"status">>), "cancel", r.busy.id, up)
     ELSE kept

TimedOut(r, up) ==
  IF r.busy # None /\ r.busy.timer = 0
  THEN Sent(r, "cancel", r.busy.id, up) ELSE {}

\* Connections past their deadline are finished without a result.
Expire(r) ==
  LET old == {c \in r.clients : c.timer = 0}
      closed == [r EXCEPT !.clients = @ \ old]
  IN IF \E c \in old : c.kind = "request" /\ c.id = r.busy.id
     THEN complete(closed, r.busy.id, <<"status">>) ELSE closed

\* The end of step.
Timeouts ==
  /\ relay.running
  /\ \E up \in BOOLEAN : /\ relay' = Expire(timeout(relay, up))
                         /\ relay' # relay
                         /\ wire' = wire \cup TimedOut(relay, up)
  /\ UNCHANGED <<core, fidoLeft>>

\* close: every connection is closed, a message not yet sent is lost with
\* it; the pending ceremony is cancelled once more, if the Mac is reachable.
Close ==
  /\ relay.running /\ FidoSpend("cuts")
  /\ relay' = [Ended(relay, FALSE) EXCEPT !.channels = <<>>, !.clients = {},
                                         !.running = FALSE]
  /\ \E kept \in SUBSET wire, told \in BOOLEAN :
       wire' = kept \cup IF told /\ relay.busy # None
                         THEN {[kind |-> "cancel", id |-> relay.busy.id]}
                         ELSE {}
  /\ UNCHANGED core

\* The service starts again once the Mac answers a request (check_host).
Start ==
  /\ ~relay.running /\ core.current = None /\ ~core.away
  /\ relay' = [relay EXCEPT !.running = TRUE]
  /\ UNCHANGED <<wire, core, fidoLeft>>

-----------------------------------------------------------------------------
(* FIDO2Service on the Mac *)

Answer(r, kind, id, value) ==
  [r EXCEPT !.clients = {IF c.kind = kind /\ c.id = id
                         THEN [c EXCEPT !.reply = value] ELSE c : c \in @}]

Revoke(c) ==
  [c EXCEPT !.current = IF @ = None THEN None ELSE [@ EXCEPT !.cancelled = TRUE],
            !.revoked = @ \cup ({c.current.id} \ {0})]

HostCancel(m) ==
  /\ m.kind = "cancel"
  /\ wire' = wire \ {m}
  /\ core' = IF core.current.id = m.id THEN Revoke(core) ELSE core
  /\ relay' = Answer(relay, "cancel", m.id, "status")
  /\ UNCHANGED fidoLeft

\* A request is refused while another runs, away from the session, or with
\* the VM in the background; else it becomes the current transaction.
HostRequest(m) ==
  /\ m.kind = "request"
  /\ wire' = wire \ {m}
  /\ UNCHANGED fidoLeft
  /\ \E foreground \in BOOLEAN :
       IF core.current # None \/ core.away \/ ~foreground
       THEN /\ relay' = Answer(relay, "request", m.id, "status")
            /\ UNCHANGED core
       ELSE /\ core' = [core EXCEPT !.current =
                 [id |-> m.id, cancelled |-> FALSE, timer |-> HostTimeout]]
            /\ UNCHANGED relay

\* As HostDeadline, but only while the relay waits for the answer.
HostDeadline_awaited ==
  /\ core.current # None /\ core.current.timer = 0 /\ ~core.current.cancelled
  /\ \E c \in relay.clients : c.kind = "request" /\ c.id = core.current.id
  /\ core' = [core EXCEPT !.current.cancelled = TRUE]
  /\ UNCHANGED <<relay, wire, fidoLeft>>

\* 55 seconds: the prompt is withdrawn.
HostDeadline ==
  /\ core.current # None /\ core.current.timer = 0 /\ ~core.current.cancelled
  /\ core' = [core EXCEPT !.current.cancelled = TRUE]
  /\ UNCHANGED <<relay, wire, fidoLeft>>

\* As Valid, looking only at where the Mac is now.
Valid_unless_away(c) == ~c.away

\* Whether the result of the transaction may leave the Mac.
Valid(c) == ~c.current.cancelled /\ ~c.away

\* The authenticator returns: the user approved or refused, or the
\* transaction was cancelled.
HostComplete(approved) ==
  /\ core.current # None
  /\ relay' = Answer(relay, "request", core.current.id,
                IF approved /\ Valid(core) THEN "data" ELSE "status")
  /\ core' = [core EXCEPT !.current = None]
  /\ UNCHANGED <<wire, fidoLeft>>

\* cancelAll on a lock, or on sleep and on losing the session.
CancelAll ==
  /\ FidoSpend("revokes")
  /\ \E away \in BOOLEAN : core' = [Revoke(core) EXCEPT !.away = away]
  /\ UNCHANGED <<relay, wire>>

MacBack ==
  /\ core.away
  /\ core' = [core EXCEPT !.away = FALSE]
  /\ UNCHANGED <<relay, wire, fidoLeft>>

-----------------------------------------------------------------------------

Down(t) == IF t > 0 THEN t - 1 ELSE 0
Aged(x) == IF x = None THEN None ELSE [x EXCEPT !.timer = Down(@)]

FidoTick ==
  /\ relay' = [relay EXCEPT !.fragment = Aged(@), !.busy = Aged(@),
                            !.clients = {Aged(c) : c \in @}]
  /\ core' = [core EXCEPT !.current = Aged(@)]
  /\ <<relay', core'>> # <<relay, core>>
  /\ UNCHANGED <<wire, fidoLeft>>

FidoNext ==
  \/ InitBroadcast
  \/ \E cid \in Cids : InitChannel(cid) \/ Cancel(cid) \/ First(cid)
                         \/ Continue(cid)
  \/ DeviceClosed
  \/ \E c \in relay.clients : Reply(c) \/ Lose(c)
  \/ Timeouts \/ Close \/ Start
  \/ \E m \in wire : HostCancel(m) \/ HostRequest(m)
  \/ HostDeadline
  \/ \E approved \in BOOLEAN : HostComplete(approved)
  \/ CancelAll \/ MacBack
  \/ FidoTick

\* Time passes, the relay's loop runs, the Mac's timers fire and an
\* authenticator whose transaction was cancelled returns.  Nothing is assumed
\* of the network, of the programs or of the user.
FidoFairness ==
  /\ WF_fidoVars(FidoTick) /\ WF_fidoVars(Timeouts)
  /\ WF_fidoVars(HostDeadline)
  /\ WF_fidoVars(core.current # None /\ core.current.cancelled
                   /\ HostComplete(FALSE))

FidoSpec == FidoInit /\ [][FidoNext]_fidoVars /\ FidoFairness

-----------------------------------------------------------------------------
(* Properties *)

\* Every ceremony the relay accepts is running, or has had exactly one final
\* answer, on its own channel, or was ended without one because its channel
\* was initialised again or the device closed: complete, timeout and abort
\* may race in any order and never answer twice or not at all.
OneFinalAnswer ==
  \A id \in 1..Len(relay.owner) :
    LET n == Len(relay.finals[id])
    IN /\ n <= 1
       /\ n = 1 <=> ~(id \in relay.silent \/ relay.busy.id = id)
       /\ n = 1 => relay.finals[id][1].cid = relay.owner[id]
       /\ ~(id \in relay.silent /\ relay.busy.id = id)

\* An approval reaches the program only in answer to the ceremony it was
\* given for: the late reply of a cancelled or timed-out ceremony is never
\* taken by the next one.
ApprovalForItsCeremony ==
  \A id \in Ids : \A n \in 1..Len(relay.finals[id]) :
    relay.finals[id][n].data[1] = "data" => relay.finals[id][n].data[2] = id

\* A ceremony gets one final answer, and an approval only if it is its own.
AnsweredForItself == OneFinalAnswer /\ ApprovalForItsCeremony

\* No approval reaches a program for a transaction the Mac revoked (a
\* cancellation, a lock, sleep or the loss of the session) before it ended.
RevokedNotApproved ==
  \A id \in core.revoked : \A n \in 1..Len(relay.finals[id]) :
    relay.finals[id][n].data[1] # "data"

\* A running ceremony always has the open connection that will end it, and
\* its channel, like the channel of a message under assembly, survives any
\* number of INITs; the two never exist together.
CeremonyKept ==
  /\ relay.busy # None =>
       /\ \E c \in relay.clients : c.kind = "request" /\ c.id = relay.busy.id
       /\ Known(relay.busy.cid) /\ relay.fragment = None
  /\ relay.fragment # None => Known(relay.fragment.cid)
  /\ Len(relay.channels) <= MaxChannels

\* Every ceremony ends, whatever the Mac, the network and the user do (the
\* next one only starts once it has).
CeremonyEnds == []<>(relay.busy = None)

\* Every prompt on the Mac ends, also that of a ceremony whose cancellation
\* was dropped or came before its request.
PromptEnds == []<>(core.current = None)

\* Ceremonies end, in the guest and on the Mac.
CeremoniesEnd == CeremonyEnds /\ PromptEnds
=============================================================================
