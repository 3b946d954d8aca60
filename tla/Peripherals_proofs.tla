------------------------- MODULE Peripherals_proofs -------------------------
(***************************************************************************)
(* Proofs about the FIDO2 relay with the Mac's transaction, for any        *)
(* number of channels, connections, ceremonies and revocations, and about  *)
(* the host's Bluetooth service with its two clients, for any number of    *)
(* operations.                                                             *)
(***************************************************************************)
EXTENDS Fido2, Bluetooth, WellFoundedInduction, TLAPS

-----------------------------------------------------------------------------
(* The relay's state and its log of answers *)

\* A record with the relay's fields, whatever they hold; likewise below.
IsRelay(r) ==
  r \in [channels : {r.channels}, fragment : {r.fragment}, busy : {r.busy},
         clients : {r.clients}, running : {r.running}, owner : {r.owner},
         finals : {r.finals}, silent : {r.silent}]

IsClient(c) == c \in [kind : {c.kind}, id : {c.id}, reply : {c.reply}, timer : {c.timer}]

\* The ceremonies the relay has accepted.
Accepted(r) == 1..Len(r.owner)

BusyOK(r) ==
  r.busy # None =>
    /\ r.busy \in [id : {r.busy.id}, cid : {r.busy.cid}, timer : {r.busy.timer}]
    /\ r.busy.id \in Accepted(r)
    /\ r.busy.cid = r.owner[r.busy.id]

FragmentOK(r) ==
  r.fragment # None =>
    /\ r.fragment \in [id : {1}, cid : Cids, cmd : {r.fragment.cmd},
                       timer : {r.fragment.timer}]

ClientsOK(r) == \A c \in r.clients : IsClient(c) /\ c.id \in Accepted(r)

\* A ceremony has its one answer exactly when it is neither running nor was
\* ended without one.
Logged(r, id) ==
  /\ r.finals[id] = <<>> \/ r.finals[id] = <<r.finals[id][1]>>
  /\ r.finals[id] # <<>> <=> id \in Accepted(r) /\ id \notin r.silent /\ r.busy.id # id
  /\ id \in r.silent => id \in Accepted(r) /\ r.busy.id # id
  /\ r.finals[id] # <<>> =>
       /\ r.finals[id][1].cid = r.owner[id]
       /\ r.finals[id][1].data[1] = "data" => r.finals[id][1].data[2] = id

LogOK(r) == \A id \in Ids : Logged(r, id)

RelayOK(r) ==
  /\ IsRelay(r)
  /\ r.owner \in Seq(Cids) /\ Len(r.owner) <= MaxCeremonies
  /\ r.finals = [id \in Ids |-> r.finals[id]]
  /\ BusyOK(r) /\ FragmentOK(r) /\ ClientsOK(r) /\ LogOK(r)

\* An approval for the ceremony waits on the connection of its request.
Promised(r, id) ==
  \E c \in r.clients : c.kind = "request" /\ c.id = id /\ c.reply = "data"

\* The ceremonies whose approval has left the Mac: it waits on a connection,
\* or the program has it.
Approved(r) ==
  {id \in Ids : \/ r.finals[id] # <<>> /\ r.finals[id][1].data[1] = "data"
                \/ Promised(r, id)}

\* What the relay does by itself never makes an approval.
Proceeds(s, r) ==
  /\ RelayOK(s)
  /\ s.owner = r.owner
  /\ Approved(s) \subseteq Approved(r)

\* None is a record with the number 0.
LEMMA NoneId == None.id = 0
  BY Zenon DEF None

\* The bound on the ceremonies is a number.
LEMMA BoundNat == MaxCeremonies \in Nat
  BY FidoAssumption, Zenon

\* A step that leaves the log and the running ceremony as they are, and puts
\* no approval on a connection.
LEMMA LogKept ==
  ASSUME NEW r, NEW s, RelayOK(r), IsRelay(s),
         s.owner = r.owner, s.finals = r.finals, s.silent = r.silent,
         s.busy = r.busy, FragmentOK(s), ClientsOK(s),
         \A id \in Ids : Promised(s, id) => Promised(r, id)
  PROVE  Proceeds(s, r)
<1>1. RelayOK(s)
  BY DEF RelayOK, BusyOK, LogOK, Logged, Accepted
<1>2. Approved(s) \subseteq Approved(r)
  BY Zenon DEF Approved
<1> QED
  BY <1>1, <1>2, Zenon DEF Proceeds

\* The program gets its final answer, and the ceremony is over.
LEMMA FinalLogged ==
  ASSUME NEW r, NEW data, RelayOK(r), r.busy # None,
         data[1] = "data" => data[2] = r.busy.id
  PROVE  /\ RelayOK(Final(r, data))
         /\ Final(r, data).owner = r.owner
         /\ Final(r, data).busy = None
         /\ Approved(Final(r, data)) \subseteq Approved(r) \cup {r.busy.id}
         /\ data[1] # "data" => Approved(Final(r, data)) \subseteq Approved(r)
<1> DEFINE b == r.busy.id
           a == [cid |-> r.busy.cid, data |-> data]
           s == Final(r, data)
<1>1. b \in Ids /\ b \in Accepted(r) /\ r.busy.cid = r.owner[b]
  BY BoundNat DEF RelayOK, BusyOK, Ids, Accepted
<1>2. /\ IsRelay(s)
      /\ s.owner = r.owner /\ s.silent = r.silent /\ s.busy = None
      /\ s.fragment = r.fragment /\ s.clients = r.clients
      /\ s.finals = [r.finals EXCEPT ![b] = Append(@, a)]
  BY Zenon DEF RelayOK, IsRelay, Final
<1>3. r.finals[b] = <<>>
  BY <1>1, Zenon DEF RelayOK, LogOK, Logged
<1>4. s.finals[b] = <<a>>
  <2>1. s.finals[b] = Append(r.finals[b], a)
    BY <1>1, <1>2, Zenon DEF RelayOK
  <2>2. Append(<<>>, a) = <<a>>
    OBVIOUS
  <2> QED
    BY <1>3, <2>1
<1>5. /\ s.finals = [id \in Ids |-> s.finals[id]]
      /\ \A id \in Ids : id # b => s.finals[id] = r.finals[id]
  BY <1>2, Zenon DEF RelayOK
<1>6. /\ s.finals[b][1] = a /\ s.finals[b] # <<>>
      /\ s.finals[b][1].cid = r.busy.cid /\ s.finals[b][1].data = data
  BY <1>4
<1>7. b \notin s.silent /\ s.busy.id = 0
  BY <1>1, <1>2, NoneId, Zenon DEF RelayOK, LogOK, Logged
<1> HIDE DEF s, a
<1>8. LogOK(s)
  <2> SUFFICES ASSUME NEW id \in Ids
               PROVE  Logged(s, id)
    BY Zenon DEF LogOK
  <2>0. Accepted(s) = Accepted(r) /\ id # 0
    BY <1>2 DEF Accepted, Ids
  <2>1. CASE id = b
    BY <1>1, <1>2, <1>4, <1>6, <1>7, <2>0, <2>1, Zenon DEF Logged
  <2>2. CASE id # b
    <3>1. s.finals[id] = r.finals[id] /\ s.owner = r.owner /\ s.silent = r.silent
      BY <1>2, <2>2
    <3>2. LogOK(r)
      BY Zenon DEF RelayOK
    <3> QED
      BY <1>7, <2>0, <2>2, <3>1, <3>2 DEF LogOK, Logged
  <2> QED
    BY <2>1, <2>2, Zenon
<1>9. RelayOK(s)
  BY <1>2, <1>8, Zenon DEF RelayOK, BusyOK, FragmentOK, ClientsOK, Accepted
<1>10. \A id \in Ids : id # b /\ id \in Approved(s) => id \in Approved(r)
  BY <1>2 DEF Approved, Promised
<1>11. data[1] # "data" /\ b \in Approved(s) => b \in Approved(r)
  BY <1>2, <1>6, Zenon DEF Approved, Promised
<1>12. Approved(s) \subseteq Ids
  BY Zenon DEF Approved
<1> QED
  BY <1>2, <1>9, <1>10, <1>11, <1>12, Zenon DEF s

\* Two such steps are one.
LEMMA ProceedsTwice ==
  ASSUME NEW r, NEW s, NEW t, Proceeds(s, r), Proceeds(t, s)
  PROVE  Proceeds(t, r)
  BY Zenon DEF Proceeds

\* A failure is no approval.
LEMMA StatusIsNoData == <<"status">>[1] # "data"
  OBVIOUS

\* The message under assembly is dropped.
LEMMA FragmentDropped ==
  ASSUME NEW r, RelayOK(r)
  PROVE  /\ Proceeds([r EXCEPT !.fragment = None], r)
         /\ [r EXCEPT !.fragment = None].busy = r.busy
         /\ [r EXCEPT !.fragment = None].clients = r.clients
<1> DEFINE s == [r EXCEPT !.fragment = None]
<1>1. /\ IsRelay(s) /\ s.fragment = None
      /\ s.owner = r.owner /\ s.finals = r.finals /\ s.silent = r.silent
      /\ s.busy = r.busy /\ s.clients = r.clients
  BY Zenon DEF RelayOK, IsRelay
<1> HIDE DEF s
<1>2. FragmentOK(s) /\ ClientsOK(s) /\ \A id \in Ids : Promised(s, id) => Promised(r, id)
  BY <1>1, Zenon DEF RelayOK, FragmentOK, ClientsOK, Promised, Accepted
<1>3. Proceeds(s, r)
  BY <1>1, <1>2, LogKept, Zenon
<1> QED
  BY <1>3 DEF s

\* Which channels there are, and in which order, does not matter to the log.
LEMMA ChannelsChanged ==
  ASSUME NEW r, NEW x, RelayOK(r)
  PROVE  /\ Proceeds([r EXCEPT !.channels = x], r)
         /\ [r EXCEPT !.channels = x].busy = r.busy
         /\ [r EXCEPT !.channels = x].fragment = r.fragment
<1> DEFINE s == [r EXCEPT !.channels = x]
<1>1. /\ IsRelay(s) /\ s.fragment = r.fragment
      /\ s.owner = r.owner /\ s.finals = r.finals /\ s.silent = r.silent
      /\ s.busy = r.busy /\ s.clients = r.clients
  BY Zenon DEF RelayOK, IsRelay
<1> HIDE DEF s
<1>2. FragmentOK(s) /\ ClientsOK(s) /\ \A id \in Ids : Promised(s, id) => Promised(r, id)
  BY <1>1, Zenon DEF RelayOK, FragmentOK, ClientsOK, Promised, Accepted
<1>3. Proceeds(s, r)
  BY <1>1, <1>2, LogKept, Zenon
<1> QED
  BY <1>3 DEF s

\* Connections are closed.
LEMMA ClientsClosed ==
  ASSUME NEW r, NEW x, RelayOK(r)
  PROVE  /\ Proceeds([r EXCEPT !.clients = @ \ x], r)
         /\ [r EXCEPT !.clients = @ \ x].busy = r.busy
<1> DEFINE s == [r EXCEPT !.clients = @ \ x]
<1>1. /\ IsRelay(s) /\ s.fragment = r.fragment
      /\ s.owner = r.owner /\ s.finals = r.finals /\ s.silent = r.silent
      /\ s.busy = r.busy /\ s.clients = r.clients \ x
  BY Zenon DEF RelayOK, IsRelay
<1> HIDE DEF s
<1>2. FragmentOK(s) /\ ClientsOK(s) /\ \A id \in Ids : Promised(s, id) => Promised(r, id)
  BY <1>1, Zenon DEF RelayOK, FragmentOK, ClientsOK, Promised, Accepted
<1>3. Proceeds(s, r)
  BY <1>1, <1>2, LogKept, Zenon
<1> QED
  BY <1>3 DEF s

\* A connection is opened for an accepted ceremony.
LEMMA ClientOpened ==
  ASSUME NEW r, NEW kind, NEW id, RelayOK(r), id \in Accepted(r)
  PROVE  Proceeds(Open(r, kind, id), r)
<1> DEFINE s == Open(r, kind, id)
           c == [kind |-> kind, id |-> id, reply |-> "none", timer |-> RpcTimeout]
<1>1. /\ IsRelay(s) /\ s.fragment = r.fragment
      /\ s.owner = r.owner /\ s.finals = r.finals /\ s.silent = r.silent
      /\ s.busy = r.busy /\ s.clients = r.clients \cup {c}
  BY Zenon DEF RelayOK, IsRelay, Open
<1>2. IsClient(c) /\ c.id = id /\ c.reply # "data"
  BY Zenon DEF IsClient
<1> HIDE DEF s, c
<1>3. FragmentOK(s) /\ ClientsOK(s) /\ \A i \in Ids : Promised(s, i) => Promised(r, i)
  BY <1>1, <1>2, Zenon DEF RelayOK, FragmentOK, ClientsOK, Promised, Accepted
<1>4. Proceeds(s, r)
  BY <1>1, <1>3, LogKept, Zenon
<1> QED
  BY <1>4, Zenon DEF s

\* complete answers the running ceremony with its own result, or does nothing.
LEMMA CompleteLogged ==
  ASSUME NEW r, NEW id, NEW data, RelayOK(r),
         data[1] = "data" => data[2] = id
  PROVE  /\ RelayOK(complete(r, id, data))
         /\ complete(r, id, data).owner = r.owner
         /\ Approved(complete(r, id, data)) \subseteq Approved(r) \cup {id}
         /\ data[1] # "data" => Proceeds(complete(r, id, data), r)
<1>1. CASE r.busy.id = id /\ r.busy # None
  <2>1. complete(r, id, data) = Final(r, data)
    BY <1>1, Zenon DEF complete
  <2>2. data[1] = "data" => data[2] = r.busy.id
    BY <1>1, Zenon
  <2> QED
    BY <1>1, <2>1, FinalLogged DEF Proceeds
<1>2. CASE ~(r.busy.id = id /\ r.busy # None)
  <2>1. complete(r, id, data) = r
    BY <1>2, Zenon DEF complete
  <2> QED
    BY <2>1, Zenon DEF Proceeds
<1> QED
  BY <1>1, <1>2, Zenon

\* rpc for an accepted ceremony: a connection, a failure, or nothing.
LEMMA RpcProceeds ==
  ASSUME NEW r, NEW kind, NEW id, NEW up, RelayOK(r), id \in Accepted(r)
  PROVE  Proceeds(rpc(r, kind, id, up), r)
<1>1. Proceeds(Open(r, kind, id), r)
  BY ClientOpened, Zenon
<1>2. Proceeds(complete(r, id, <<"status">>), r)
  BY CompleteLogged, Zenon
<1>3. Proceeds(r, r)
  BY Zenon DEF Proceeds
<1> QED
  BY <1>1, <1>2, <1>3, Zenon DEF rpc

\* The ceremony and the message under assembly end, with an answer or without.
LEMMA EndedProceeds ==
  ASSUME NEW r, NEW respond \in BOOLEAN, RelayOK(r)
  PROVE  Proceeds(Ended(r, respond), r)
<1> DEFINE clear == [r EXCEPT !.fragment = None]
           s == [clear EXCEPT !.busy = None, !.silent = @ \cup {r.busy.id}]
<1>1. Proceeds(clear, r) /\ clear.busy = r.busy
  BY FragmentDropped, Zenon
<1>2. CASE r.busy = None
  BY <1>1, <1>2, Zenon DEF Ended
<1>3. CASE r.busy # None /\ respond
  <2>1. Ended(r, respond) = Final(clear, <<"status">>)
    BY <1>3, Zenon DEF Ended
  <2>2. Proceeds(Final(clear, <<"status">>), clear)
    BY <1>1, <1>3, FinalLogged, Zenon DEF Proceeds
  <2> QED
    BY <1>1, <2>1, <2>2, ProceedsTwice, Zenon
<1>4. CASE r.busy # None /\ ~respond
  <2>1. Ended(r, respond) = s
    BY <1>4, Zenon DEF Ended
  <2>2. /\ IsRelay(s) /\ s.fragment = None /\ s.clients = r.clients
        /\ s.owner = r.owner /\ s.finals = r.finals
        /\ s.busy = None /\ s.silent = r.silent \cup {r.busy.id}
    BY Zenon DEF RelayOK, IsRelay
  <2> HIDE DEF s
  <2>3. r.busy.id \in Ids /\ r.busy.id \in Accepted(r) /\ LogOK(r)
    BY <1>4, BoundNat DEF RelayOK, BusyOK, Ids, Accepted
  <2>4. LogOK(s)
    <3>1. Accepted(s) = Accepted(r) /\ s.busy.id = 0 /\ 0 \notin Ids
      BY <2>2, NoneId DEF Accepted, Ids
    <3> QED
      BY <2>2, <2>3, <3>1 DEF LogOK, Logged
  <2>5. RelayOK(s)
    BY <2>2, <2>4, Zenon DEF RelayOK, BusyOK, FragmentOK, ClientsOK, Accepted
  <2>6. Approved(s) \subseteq Approved(r)
    BY <2>2, Zenon DEF Approved, Promised
  <2> QED
    BY <2>1, <2>2, <2>5, <2>6, Zenon DEF Proceeds
<1> QED
  BY <1>2, <1>3, <1>4, Zenon

\* abort ends the ceremony and tries to tell the Mac.
LEMMA AbortProceeds ==
  ASSUME NEW r, NEW respond \in BOOLEAN, NEW up, RelayOK(r)
  PROVE  Proceeds(abort(r, respond, up), r)
<1>1. Proceeds(Ended(r, respond), r)
  BY EndedProceeds, Zenon
<1>2. CASE r.busy = None
  BY <1>1, <1>2, Zenon DEF abort
<1>3. CASE r.busy # None
  <2>1. RelayOK(Ended(r, respond)) /\ r.busy.id \in Accepted(Ended(r, respond))
    BY <1>1, <1>3, Zenon DEF Proceeds, RelayOK, BusyOK, Accepted
  <2>2. Proceeds(rpc(Ended(r, respond), "cancel", r.busy.id, up), Ended(r, respond))
    BY <2>1, RpcProceeds, Zenon
  <2> QED
    BY <1>1, <2>2, ProceedsTwice, Zenon DEF abort
<1> QED
  BY <1>2, <1>3, Zenon

\* A connection that ends gives its ceremony what it brought, or a failure.
LEMMA FinishProceeds ==
  ASSUME NEW r, NEW c \in r.clients, NEW data, RelayOK(r),
         \/ data = <<"status">>
         \/ data = <<"data", c.id>> /\ c.reply = "data"
  PROVE  Proceeds(finish(r, c, data), r)
<1> DEFINE closed == [r EXCEPT !.clients = @ \ {c}]
<1>1. Proceeds(closed, r)
  BY ClientsClosed, Zenon
<1>2. CASE c.kind # "request"
  BY <1>1, <1>2, Zenon DEF finish
<1>3. CASE c.kind = "request"
  <2>1. finish(r, c, data) = complete(closed, c.id, data)
    BY <1>3, Zenon DEF finish
  <2>2. data[1] = "data" => data[2] = c.id
    OBVIOUS
  <2>3. data[1] = "data" => c.reply = "data"
    OBVIOUS
  <2>4. c.id \in Ids
    BY BoundNat DEF RelayOK, ClientsOK, Accepted, Ids
  <2>5. data[1] = "data" => c.id \in Approved(r)
    BY <1>3, <2>4 DEF Approved, Promised
  <2> HIDE DEF closed
  <2>6. /\ RelayOK(complete(closed, c.id, data))
        /\ complete(closed, c.id, data).owner = closed.owner
        /\ Approved(complete(closed, c.id, data)) \subseteq Approved(closed) \cup {c.id}
        /\ data[1] # "data" => Proceeds(complete(closed, c.id, data), closed)
    BY <1>1, CompleteLogged DEF Proceeds
  <2> QED
    BY <1>1, <2>1, <2>5, <2>6, Zenon DEF Proceeds
<1> QED
  BY <1>2, <1>3, Zenon

\* The time of a message under assembly and of a ceremony.
LEMMA TimeoutProceeds ==
  ASSUME NEW r, NEW up, RelayOK(r)
  PROVE  Proceeds(timeout(r, up), r)
<1> DEFINE kept == IF r.fragment # None /\ r.fragment.timer = 0
                   THEN [r EXCEPT !.fragment = None] ELSE r
           s == Final(kept, <<"status">>)
<1>1. Proceeds(kept, r) /\ kept.busy = r.busy
  BY FragmentDropped, Zenon DEF Proceeds
<1>2. timeout(r, up) = IF r.busy # None /\ r.busy.timer = 0
                       THEN rpc(s, "cancel", r.busy.id, up) ELSE kept
  BY Zenon DEF timeout
<1> HIDE DEF kept
<1>3. CASE r.busy # None /\ r.busy.timer = 0
  <2>1. Proceeds(s, kept)
    BY <1>1, <1>3, FinalLogged, Zenon DEF Proceeds
  <2>2. r.busy.id \in Accepted(s) /\ RelayOK(s)
    BY <1>1, <1>3, <2>1, Zenon DEF Proceeds, RelayOK, BusyOK, Accepted
  <2> HIDE DEF s
  <2>3. Proceeds(rpc(s, "cancel", r.busy.id, up), s)
    BY <2>2, RpcProceeds, Zenon
  <2> QED
    BY <1>1, <1>2, <2>1, <2>3, ProceedsTwice, Zenon
<1> QED
  BY <1>1, <1>2, <1>3, Zenon

\* The time of a connection.
LEMMA ExpireProceeds ==
  ASSUME NEW r, RelayOK(r)
  PROVE  Proceeds(Expire(r), r)
<1> DEFINE old == {c \in r.clients : c.timer = 0}
           closed == [r EXCEPT !.clients = @ \ old]
<1>1. Proceeds(closed, r)
  BY ClientsClosed, Zenon
<1>2. Expire(r) = closed \/ Expire(r) = complete(closed, r.busy.id, <<"status">>)
  BY Zenon DEF Expire
<1> HIDE DEF closed
<1>3. Proceeds(complete(closed, r.busy.id, <<"status">>), closed)
  BY <1>1, CompleteLogged DEF Proceeds
<1> QED
  BY <1>1, <1>2, <1>3, ProceedsTwice

\* The Mac answers: only an approval makes one.
LEMMA AnswerLogged ==
  ASSUME NEW r, NEW kind, NEW id, NEW value, RelayOK(r)
  PROVE  /\ RelayOK(Answer(r, kind, id, value))
         /\ Answer(r, kind, id, value).owner = r.owner
         /\ Approved(Answer(r, kind, id, value)) \subseteq Approved(r) \cup {id}
         /\ value # "data" => Proceeds(Answer(r, kind, id, value), r)
<1> DEFINE f(c) == IF c.kind = kind /\ c.id = id THEN [c EXCEPT !.reply = value] ELSE c
           s == Answer(r, kind, id, value)
<1>1. /\ IsRelay(s) /\ s.fragment = r.fragment
      /\ s.owner = r.owner /\ s.finals = r.finals /\ s.silent = r.silent
      /\ s.busy = r.busy /\ s.clients = {f(c) : c \in r.clients}
  BY Zenon DEF RelayOK, IsRelay, Answer
<1>2. ASSUME NEW c \in r.clients
      PROVE  /\ IsClient(f(c)) /\ f(c).kind = c.kind /\ f(c).id = c.id
             /\ f(c).reply = IF c.kind = kind /\ c.id = id THEN value ELSE c.reply
  BY Zenon DEF RelayOK, ClientsOK, IsClient
<1> HIDE DEF s, f
<1>3. RelayOK(s)
  <2>1. ClientsOK(s)
    BY <1>1, <1>2, Zenon DEF RelayOK, ClientsOK, Accepted
  <2> QED
    BY <1>1, <2>1 DEF RelayOK, BusyOK, FragmentOK, LogOK, Logged, Accepted
<1>4. \A i \in Ids : Promised(s, i) => Promised(r, i) \/ (i = id /\ value = "data")
  BY <1>1, <1>2 DEF Promised
<1>5. /\ Approved(s) \subseteq Approved(r) \cup {id}
      /\ value # "data" => Approved(s) \subseteq Approved(r)
  BY <1>1, <1>4, Zenon DEF Approved
<1> QED
  BY <1>1, <1>3, <1>5, Zenon DEF s, Proceeds

\* A message becomes the next ceremony.
LEMMA Takes ==
  ASSUME NEW r, NEW cid \in Cids, RelayOK(r), r.busy = None,
         Len(r.owner) < MaxCeremonies,
         NEW s, s = [[r EXCEPT !.fragment = None] EXCEPT
                       !.owner = Append(@, cid),
                       !.busy = [id |-> Len(r.owner) + 1, cid |-> cid,
                                 timer |-> BusyTimeout]]
  PROVE  /\ RelayOK(s)
         /\ Len(s.owner) = Len(r.owner) + 1
         /\ Approved(s) = Approved(r)
<1> DEFINE n == Len(r.owner) + 1
<1>1. /\ IsRelay(s) /\ s.fragment = None /\ s.clients = r.clients
      /\ s.finals = r.finals /\ s.silent = r.silent
      /\ s.owner = Append(r.owner, cid)
      /\ s.busy = [id |-> n, cid |-> cid, timer |-> BusyTimeout]
  BY Zenon DEF RelayOK, IsRelay
<1>2. r.owner \in Seq(Cids) /\ Len(r.owner) \in Nat /\ n \in Ids
  BY BoundNat DEF RelayOK, Ids
<1>3. /\ s.owner \in Seq(Cids) /\ Len(s.owner) = n /\ s.owner[n] = cid
      /\ \A id \in Accepted(r) : s.owner[id] = r.owner[id]
  BY <1>2 DEF Accepted
<1>4. Accepted(s) = Accepted(r) \cup {n} /\ n \notin Accepted(r)
  BY DEF Accepted
<1>5. BusyOK(s) /\ s.busy.id = n
  BY <1>4 DEF BusyOK
<1>6. r.busy.id = 0 /\ 0 \notin Ids
  BY NoneId DEF Ids
<1>7. LogOK(s)
  <2>1. LogOK(r)
    BY Zenon DEF RelayOK
  <2> SUFFICES ASSUME NEW id \in Ids
               PROVE  Logged(s, id)
    BY Zenon DEF LogOK
  <2>2. s.finals[id] = r.finals[id] /\ s.silent = r.silent
    OBVIOUS
  <2>3. CASE id = n
    <3>1. r.finals[id] = <<>> /\ id \notin r.silent
      BY <1>4, <2>1, <2>3, Zenon DEF LogOK, Logged
    <3> QED
      BY <2>3, <3>1 DEF Logged
  <2>4. CASE id # n
    <3>1. /\ id \in Accepted(s) <=> id \in Accepted(r)
          /\ s.busy.id # id /\ r.busy.id # id
          /\ id \in Accepted(r) => s.owner[id] = r.owner[id]
      BY <1>3, <1>4, <1>5, <1>6, <2>4, Zenon
    <3>2. Logged(r, id)
      BY <2>1, Zenon DEF LogOK
    <3> QED
      BY <2>2, <3>1, <3>2, Zenon DEF Logged
  <2> QED
    BY <2>3, <2>4, Zenon
<1>8. FragmentOK(s) /\ ClientsOK(s)
  BY <1>4 DEF RelayOK, FragmentOK, ClientsOK
<1>9. RelayOK(s)
  BY <1>1, <1>5, <1>7, <1>8, BoundNat DEF RelayOK
<1>10. Approved(s) = Approved(r)
  BY DEF Approved, Promised
<1> QED
  BY <1>9, <1>10

-----------------------------------------------------------------------------
(* The relay, the wire and the Mac *)

\* A request on its way has been neither answered nor revoked, and is not the
\* transaction that runs.
WireOK ==
  \A m \in wire :
    /\ m \in [kind : {m.kind}, id : Accepted(relay)]
    /\ m.kind = "request" =>
         /\ m.id \notin Approved(relay) /\ m.id \notin core.revoked
         /\ m.id # core.current.id

\* The running transaction has not been approved, and one that was revoked
\* is cancelled.  No revoked transaction has been approved.
CoreOK ==
  /\ core \in [current : {core.current}, away : BOOLEAN, revoked : SUBSET Accepted(relay)]
  /\ core.current # None =>
       /\ core.current \in [id : Accepted(relay), cancelled : BOOLEAN,
                            timer : {core.current.timer}]
       /\ core.current.id \notin Approved(relay)
       /\ core.current.id \in core.revoked => core.current.cancelled
  /\ core.revoked \cap Approved(relay) = {}

LeftOK ==
  /\ fidoLeft \in [inits : Nat, ceremonies : 0..MaxCeremonies, revokes : Nat, cuts : Nat]
  /\ Len(relay.owner) + fidoLeft.ceremonies <= MaxCeremonies

FidoInv == RelayOK(relay) /\ WireOK /\ CoreOK /\ LeftOK

\* What the relay does by itself, cancellations it sends included.
LEMMA RelayMoves ==
  ASSUME FidoInv, Proceeds(relay', relay), UNCHANGED core,
         fidoLeft' \in [inits : Nat, ceremonies : 0..MaxCeremonies, revokes : Nat, cuts : Nat],
         fidoLeft'.ceremonies = fidoLeft.ceremonies,
         \A m \in wire' : m \in wire \/ m \in [kind : {"cancel"}, id : Accepted(relay)]
  PROVE  FidoInv'
<1>1. RelayOK(relay') /\ Accepted(relay') = Accepted(relay) /\ relay'.owner = relay.owner
  BY Zenon DEF Proceeds, Accepted
<1>2. Approved(relay') \subseteq Approved(relay)
  BY Zenon DEF Proceeds
<1>3. WireOK'
  <2> SUFFICES ASSUME NEW m \in wire'
               PROVE  /\ m \in [kind : {m.kind}, id : Accepted(relay')]
                      /\ m.kind = "request" =>
                           /\ m.id \notin Approved(relay') /\ m.id \notin core'.revoked
                           /\ m.id # core'.current.id
    BY Zenon DEF WireOK
  <2>1. CASE m \in wire
    BY <1>1, <1>2, Zenon DEF FidoInv, WireOK
  <2>2. CASE m \in [kind : {"cancel"}, id : Accepted(relay)]
    BY <1>1, <2>2, Zenon
  <2> QED
    BY <2>1, <2>2, Zenon
<1>4. CoreOK'
  BY <1>1, <1>2, Zenon DEF FidoInv, CoreOK
<1>5. LeftOK'
  BY <1>1, Zenon DEF FidoInv, LeftOK
<1> QED
  BY <1>1, <1>3, <1>4, <1>5, Zenon DEF FidoInv

\* A budget is spent.
LEMMA Spends ==
  ASSUME LeftOK, NEW kind \in {"inits", "ceremonies", "revokes", "cuts"}, FidoSpend(kind)
  PROVE  /\ fidoLeft' \in [inits : Nat, ceremonies : 0..MaxCeremonies, revokes : Nat, cuts : Nat]
         /\ kind # "ceremonies" => fidoLeft'.ceremonies = fidoLeft.ceremonies
         /\ kind = "ceremonies" => /\ fidoLeft.ceremonies > 0
                                   /\ fidoLeft'.ceremonies = fidoLeft.ceremonies - 1
  BY BoundNat DEF LeftOK, FidoSpend

\* What abort and timeout put on the wire.
LEMMA CancelsOnly ==
  ASSUME RelayOK(relay), NEW up, NEW m,
         m \in Aborted(relay, up) \/ m \in TimedOut(relay, up)
  PROVE  m \in [kind : {"cancel"}, id : Accepted(relay)]
<1>1. relay.busy # None /\ m \in Sent(relay, "cancel", relay.busy.id, up)
  BY Zenon DEF Aborted, TimedOut
<1>2. relay.busy.id \in Accepted(relay)
  BY <1>1, Zenon DEF RelayOK, BusyOK
<1>3. m = [kind |-> "cancel", id |-> relay.busy.id]
  BY <1>1, Zenon DEF Sent
<1> QED
  BY <1>2, <1>3, Zenon

\* A complete message: the relay is r, the same but for its channels.
LEMMA MessageStep ==
  ASSUME FidoInv, NEW r, Proceeds(r, relay), r.busy = None,
         NEW part, part.cid \in Cids, NEW up \in BOOLEAN,
         Message(r, part, up), UNCHANGED core
  PROVE  FidoInv'
<1> DEFINE id == Len(r.owner) + 1
           none == [r EXCEPT !.fragment = None]
           taken == [none EXCEPT !.owner = Append(@, part.cid),
                                 !.busy = [id |-> id, cid |-> part.cid,
                                           timer |-> BusyTimeout]]
<1>1. CASE part.cmd # "cbor"
  <2>1. relay' = none /\ UNCHANGED <<wire, fidoLeft>>
    BY <1>1, Zenon DEF Message
  <2>2. Proceeds(none, r)
    BY FragmentDropped, Zenon DEF Proceeds
  <2>3. Proceeds(relay', relay)
    BY <2>1, <2>2, ProceedsTwice, Zenon
  <2> QED
    BY <2>1, <2>3, RelayMoves, Zenon DEF FidoInv, LeftOK
<1>2. CASE part.cmd = "cbor"
  <2>1. /\ FidoSpend("ceremonies")
        /\ relay' = rpc(taken, "request", id, up)
        /\ wire' = wire \cup Sent(taken, "request", id, up)
    BY <1>2, Zenon DEF Message
  <2>2. /\ fidoLeft' \in [inits : Nat, ceremonies : 0..MaxCeremonies, revokes : Nat, cuts : Nat]
        /\ fidoLeft.ceremonies > 0
        /\ fidoLeft'.ceremonies = fidoLeft.ceremonies - 1
    BY <2>1, Spends, Zenon DEF FidoInv
  <2>3. RelayOK(r) /\ r.owner = relay.owner /\ Approved(r) \subseteq Approved(relay)
    BY Zenon DEF Proceeds
  <2>4. Len(r.owner) \in Nat /\ Len(r.owner) < MaxCeremonies
    BY <2>2, <2>3, BoundNat, SMTT(30) DEF FidoInv, LeftOK, RelayOK
  <2>5. RelayOK(taken) /\ Len(taken.owner) = id /\ Approved(taken) = Approved(r)
    BY <2>3, <2>4, Takes, Zenon
  <2> HIDE DEF taken, none
  <2>6. id \in Accepted(taken)
    BY <2>5 DEF Accepted
  <2>7. Proceeds(relay', taken)
    BY <2>1, <2>5, <2>6, RpcProceeds, Zenon
  <2>8. /\ RelayOK(relay') /\ Len(relay'.owner) = Len(relay.owner) + 1
        /\ Approved(relay') \subseteq Approved(relay)
    BY <2>5, <2>7, Zenon DEF Proceeds
  <2>9. /\ Accepted(relay) \subseteq Accepted(relay')
        /\ id \in Accepted(relay') /\ id \notin Accepted(relay) /\ id # 0
    BY <2>3, <2>8 DEF Accepted
  <2>10. /\ id \notin Approved(relay') /\ id \notin core.revoked /\ id # core.current.id
    <3>1. id \notin Approved(relay)
      <4>1. \A i \in Approved(relay) : i \in Accepted(relay)
        BY DEF FidoInv, RelayOK, LogOK, Logged, ClientsOK, Approved, Promised
      <4> QED
        BY <2>9, <4>1, Zenon
    <3>2. core.revoked \subseteq Accepted(relay)
      BY Zenon DEF FidoInv, CoreOK
    <3>3. core.current = None \/ core.current.id \in Accepted(relay)
      BY Zenon DEF FidoInv, CoreOK
    <3> QED
      BY <2>8, <2>9, <3>1, <3>2, <3>3, NoneId, Zenon
  <2>11. WireOK'
    <3> SUFFICES ASSUME NEW m \in wire'
                 PROVE  /\ m \in [kind : {m.kind}, id : Accepted(relay')]
                        /\ m.kind = "request" =>
                             /\ m.id \notin Approved(relay') /\ m.id \notin core'.revoked
                             /\ m.id # core'.current.id
      BY Zenon DEF WireOK
    <3>1. CASE m \in wire
      BY <2>8, <2>9, <3>1, Zenon DEF FidoInv, WireOK
    <3>2. CASE m \notin wire
      <4>1. m = [kind |-> "request", id |-> id]
        BY <2>1, <3>2, Zenon DEF Sent
      <4> QED
        BY <2>9, <2>10, <4>1, Zenon
    <3> QED
      BY <3>1, <3>2, Zenon
  <2>12. CoreOK'
    BY <2>8, <2>9, Zenon DEF FidoInv, CoreOK
  <2>13. LeftOK'
    BY <2>2, <2>8 DEF FidoInv, LeftOK
  <2> QED
    BY <2>8, <2>11, <2>12, <2>13, Zenon DEF FidoInv
<1> QED
  BY <1>1, <1>2, Zenon

\* Time passes for the relay.
LEMMA TickLogged ==
  ASSUME NEW r, RelayOK(r),
         NEW s, s = [r EXCEPT !.fragment = Aged(@), !.busy = Aged(@),
                              !.clients = {Aged(c) : c \in @}]
  PROVE  Proceeds(s, r)
<1>1. /\ IsRelay(s) /\ s.fragment = Aged(r.fragment) /\ s.busy = Aged(r.busy)
      /\ s.owner = r.owner /\ s.finals = r.finals /\ s.silent = r.silent
      /\ s.clients = {Aged(c) : c \in r.clients}
  BY Zenon DEF RelayOK, IsRelay
<1>2. Accepted(s) = Accepted(r) /\ 0 \notin Accepted(r)
  BY DEF Accepted
<1>3. FragmentOK(s)
  <2>1. CASE r.fragment = None
    BY <2>1 DEF Aged, FragmentOK
  <2>2. CASE r.fragment # None
    BY DEF RelayOK, Aged, FragmentOK
  <2> QED
    BY <2>1, <2>2, Zenon
<1>4. BusyOK(s) /\ s.busy.id = r.busy.id
  <2>1. CASE r.busy = None
    BY <2>1 DEF Aged, BusyOK
  <2>2. CASE r.busy # None
    <3>1. /\ r.busy \in [id : {r.busy.id}, cid : {r.busy.cid}, timer : {r.busy.timer}]
          /\ r.busy.id \in Accepted(r) /\ r.busy.cid = r.owner[r.busy.id]
      BY <2>2, Zenon DEF RelayOK, BusyOK
    <3>2. /\ s.busy \in [id : {r.busy.id}, cid : {r.busy.cid}, timer : {s.busy.timer}]
      BY <3>1 DEF Aged
    <3> QED
      BY <1>2, <3>1, <3>2 DEF BusyOK
  <2> QED
    BY <2>1, <2>2, Zenon
<1>5. ASSUME NEW c \in r.clients
      PROVE  /\ IsClient(Aged(c)) /\ Aged(c).id = c.id /\ Aged(c).id \in Accepted(r)
             /\ Aged(c).kind = c.kind /\ Aged(c).reply = c.reply
  <2>1. IsClient(c) /\ c.id \in Accepted(r)
    BY Zenon DEF RelayOK, ClientsOK
  <2>2. c # None
    BY <1>2, <2>1, NoneId, Zenon
  <2> QED
    BY <2>1, Zenon DEF Aged, IsClient
<1>6. ClientsOK(s)
  BY <1>2, <1>5 DEF ClientsOK
<1>7. \A id \in Ids : Promised(s, id) => Promised(r, id)
  BY <1>5 DEF Promised
<1>8. LogOK(s)
  BY <1>2, <1>4 DEF RelayOK, LogOK, Logged
<1>9. RelayOK(s)
  BY <1>1, <1>3, <1>4, <1>6, <1>8, Zenon DEF RelayOK
<1>10. Approved(s) \subseteq Approved(r)
  BY <1>1, <1>7, Zenon DEF Approved
<1> QED
  BY <1>1, <1>9, <1>10, Zenon DEF Proceeds

\* The running transaction goes on, perhaps cancelled; if it is revoked, it is.
Continues ==
  /\ core' \in [current : {core'.current}, away : BOOLEAN, revoked : SUBSET Accepted(relay)]
  /\ core.current = None => core'.current = None /\ core'.revoked = core.revoked
  /\ core.current # None =>
       /\ core'.current \in [id : {core.current.id}, cancelled : BOOLEAN,
                             timer : {core'.current.timer}]
       /\ core.current.cancelled => core'.current.cancelled
       /\ \/ core'.revoked = core.revoked
          \/ core'.revoked = core.revoked \cup {core.current.id} /\ core'.current.cancelled

\* A step of the Mac that starts and ends no transaction.
LEMMA MacMoves ==
  ASSUME FidoInv, Proceeds(relay', relay), wire' \subseteq wire, Continues,
         fidoLeft' \in [inits : Nat, ceremonies : 0..MaxCeremonies, revokes : Nat, cuts : Nat],
         fidoLeft'.ceremonies = fidoLeft.ceremonies
  PROVE  FidoInv'
<1>1. core'.current.id = core.current.id
  BY Zenon DEF Continues
<1>2. /\ RelayOK(relay') /\ relay'.owner = relay.owner
      /\ Accepted(relay') = Accepted(relay) /\ Approved(relay') \subseteq Approved(relay)
  BY Zenon DEF Proceeds, Accepted
<1>3. LeftOK'
  BY <1>2, Zenon DEF FidoInv, LeftOK
<1>4. CASE core'.revoked = core.revoked
  <2>1. CoreOK'
    <3>1. CASE core.current = None
      BY <1>2 DEF FidoInv, CoreOK, Continues
    <3>2. CASE core.current # None
      BY <1>2 DEF FidoInv, CoreOK, Continues
    <3> QED
      BY <3>1, <3>2, Zenon
  <2>2. WireOK'
    BY <1>1, <1>2, <1>4, Zenon DEF FidoInv, WireOK
  <2> QED
    BY <1>2, <1>3, <2>1, <2>2, Zenon DEF FidoInv
<1>5. CASE /\ core.current # None /\ core'.current.cancelled
           /\ core'.revoked = core.revoked \cup {core.current.id}
  <2>1. core.current.id \in Accepted(relay) /\ core.current.id \notin Approved(relay)
    BY <1>5, Zenon DEF FidoInv, CoreOK
  <2>2. core'.revoked \cap Approved(relay') = {}
    BY <1>2, <1>5 DEF FidoInv, CoreOK
  <2>3. CoreOK'
    BY <1>2, <1>5, <2>2, Zenon DEF CoreOK, Continues
  <2>4. WireOK'
    BY <1>1, <1>2, <1>5, Zenon DEF FidoInv, WireOK
  <2> QED
    BY <1>2, <1>3, <2>3, <2>4, Zenon DEF FidoInv
<1> QED
  BY <1>4, <1>5, Zenon DEF Continues

\* cancel and cancelAll revoke the running transaction, wherever the Mac is.
LEMMA RevokeContinues ==
  ASSUME FidoInv, NEW away \in BOOLEAN,
         core' = Revoke(core) \/ core' = [Revoke(core) EXCEPT !.away = away]
  PROVE  Continues
<1> DEFINE c == Revoke(core)
<1>1. /\ c \in [current : {c.current}, away : {core.away}, revoked : {c.revoked}]
      /\ c.current = IF core.current = None THEN None ELSE [core.current EXCEPT !.cancelled = TRUE]
      /\ c.revoked = core.revoked \cup ({core.current.id} \ {0})
  BY Zenon DEF FidoInv, CoreOK, Revoke
<1> HIDE DEF c
<1>2. /\ core' \in [current : {core'.current}, away : BOOLEAN, revoked : {core'.revoked}]
      /\ core'.current = c.current /\ core'.revoked = c.revoked
  BY <1>1, Zenon DEF FidoInv, CoreOK, c
<1>3. CASE core.current = None
  BY <1>1, <1>2, <1>3, NoneId, Zenon DEF Continues, FidoInv, CoreOK
<1>4. CASE core.current # None
  <2>1. /\ core.current \in [id : Accepted(relay), cancelled : BOOLEAN, timer : {core.current.timer}]
        /\ core.revoked \subseteq Accepted(relay)
    BY <1>4, Zenon DEF FidoInv, CoreOK
  <2>2. core.current.id # 0 /\ core.current.id \in Accepted(relay)
    BY <2>1 DEF Accepted
  <2>3. core'.revoked = core.revoked \cup {core.current.id}
    BY <1>1, <1>2, <2>2, Zenon
  <2>4. core'.current = [core.current EXCEPT !.cancelled = TRUE]
    BY <1>1, <1>2, <1>4, Zenon
  <2>5. /\ core'.current \in [id : {core.current.id}, cancelled : BOOLEAN, timer : {core'.current.timer}]
        /\ core'.current.cancelled
    BY <2>1, <2>4, Zenon
  <2> QED
    BY <1>2, <1>4, <2>1, <2>3, <2>5, Zenon DEF Continues
<1> QED
  BY <1>3, <1>4, Zenon

\* Every step keeps the invariant.
LEMMA FidoStep == FidoInv /\ [FidoNext]_fidoVars => FidoInv'
<1> SUFFICES ASSUME FidoInv, [FidoNext]_fidoVars PROVE FidoInv'
  OBVIOUS
<1>r. RelayOK(relay) /\ LeftOK
  BY Zenon DEF FidoInv
<1>s. Proceeds(relay, relay)
  BY <1>r, Zenon DEF Proceeds
<1>l. UNCHANGED fidoLeft =>
        /\ fidoLeft' \in [inits : Nat, ceremonies : 0..MaxCeremonies, revokes : Nat, cuts : Nat]
        /\ fidoLeft'.ceremonies = fidoLeft.ceremonies
  BY <1>r, Zenon DEF LeftOK
<1>k. UNCHANGED core => Continues
  BY Zenon DEF Continues, FidoInv, CoreOK
<1>t. ASSUME NEW cid
      PROVE  /\ Proceeds(Touched(cid), relay)
             /\ Touched(cid).busy = relay.busy /\ Touched(cid).fragment = relay.fragment
  BY <1>r, ChannelsChanged, Zenon DEF Touched
<1>1. CASE InitBroadcast
  <2>1. PICK cid : relay' = Assign(relay, cid)
    BY <1>1, Zenon DEF InitBroadcast
  <2>2. Proceeds(relay', relay)
    BY <1>r, <2>1, ChannelsChanged, Zenon DEF Assign
  <2>3. FidoSpend("inits") /\ UNCHANGED <<wire, core>>
    BY <1>1, Zenon DEF InitBroadcast
  <2> QED
    BY <1>r, <2>2, <2>3, Spends, RelayMoves, Zenon
<1>2. ASSUME NEW cid \in Cids, InitChannel(cid) PROVE FidoInv'
  <2>1. PICK up \in BOOLEAN :
          \/ /\ relay' = abort(relay, FALSE, up)
             /\ wire' = wire \cup Aborted(relay, up)
          \/ /\ relay' = [relay EXCEPT !.fragment = None]
             /\ UNCHANGED wire
    BY <1>2, Zenon DEF InitChannel
  <2>2. Proceeds(relay', relay)
    BY <1>r, <2>1, AbortProceeds, FragmentDropped, Zenon
  <2>3. \A m \in wire' : m \in wire \/ m \in [kind : {"cancel"}, id : Accepted(relay)]
    BY <1>r, <2>1, CancelsOnly, Zenon
  <2> QED
    BY <1>2, <1>l, <2>2, <2>3, RelayMoves, Zenon DEF InitChannel
<1>3. ASSUME NEW cid \in Cids, Cancel(cid) PROVE FidoInv'
  <2>1. PICK up \in BOOLEAN :
          \/ /\ relay' = abort(Touched(cid), TRUE, up)
             /\ wire' = wire \cup Aborted(relay, up)
          \/ relay' = Touched(cid) /\ UNCHANGED wire
    BY <1>3, Zenon DEF Cancel
  <2>2. Proceeds(relay', relay)
    <3>1. Proceeds(abort(Touched(cid), TRUE, up), Touched(cid))
      BY <1>t, AbortProceeds, Zenon DEF Proceeds
    <3>2. Proceeds(Touched(cid), relay)
      BY <1>t, Zenon
    <3>3. Proceeds(abort(Touched(cid), TRUE, up), relay)
      BY <3>1, <3>2, ProceedsTwice, Zenon
    <3> QED
      BY <2>1, <3>2, <3>3, Zenon
  <2>3. \A m \in wire' : m \in wire \/ m \in [kind : {"cancel"}, id : Accepted(relay)]
    BY <1>r, <2>1, CancelsOnly, Zenon
  <2> QED
    BY <1>3, <1>l, <2>2, <2>3, RelayMoves, Zenon DEF Cancel
<1>4. ASSUME NEW cid \in Cids, First(cid) PROVE FidoInv'
  <2> DEFINE r == Touched(cid)
  <2>1. Proceeds(r, relay) /\ Proceeds([r EXCEPT !.fragment = None], r)
    BY <1>t, FragmentDropped, Zenon DEF Proceeds
  <2>2. CASE /\ relay' = r \/ relay' = [r EXCEPT !.fragment = None]
             /\ UNCHANGED <<wire, fidoLeft>>
    <3>1. Proceeds(relay', relay)
      BY <2>1, <2>2, ProceedsTwice
    <3> QED
      BY <1>4, <1>l, <2>2, <3>1, RelayMoves, Zenon DEF First
  <2>3. ASSUME NEW cmd, r.busy = None,
               relay' = [r EXCEPT !.fragment = [id |-> 1, cid |-> cid, cmd |-> cmd,
                                                timer |-> FragmentTimeout]],
               UNCHANGED <<wire, fidoLeft>>
        PROVE  FidoInv'
    <3> DEFINE s == [r EXCEPT !.fragment = [id |-> 1, cid |-> cid, cmd |-> cmd,
                                            timer |-> FragmentTimeout]]
    <3> HIDE DEF r
    <3>1. RelayOK(r)
      BY <2>1, Zenon DEF Proceeds
    <3>2. /\ IsRelay(s)
          /\ s.fragment = [id |-> 1, cid |-> cid, cmd |-> cmd, timer |-> FragmentTimeout]
          /\ s.owner = r.owner /\ s.finals = r.finals /\ s.silent = r.silent
          /\ s.busy = r.busy /\ s.clients = r.clients
      BY <3>1, Zenon DEF RelayOK, IsRelay
    <3> HIDE DEF s
    <3>3. FragmentOK(s) /\ ClientsOK(s) /\ \A id \in Ids : Promised(s, id) => Promised(r, id)
      BY <3>1, <3>2 DEF RelayOK, FragmentOK, ClientsOK, Promised, Accepted
    <3>4. Proceeds(s, r)
      BY <3>1, <3>2, <3>3, LogKept, Zenon
    <3>5. Proceeds(relay', relay)
      BY <2>1, <2>3, <3>4, ProceedsTwice, Zenon DEF s
    <3> QED
      BY <1>4, <1>l, <2>3, <3>5, RelayMoves, Zenon DEF First
  <2>4. ASSUME NEW cmd, NEW up \in BOOLEAN, r.busy = None,
               Message(r, [id |-> 1, cid |-> cid, cmd |-> cmd,
                           timer |-> FragmentTimeout], up)
        PROVE  FidoInv'
    <3> DEFINE part == [id |-> 1, cid |-> cid, cmd |-> cmd, timer |-> FragmentTimeout]
    <3>1. part.cid \in Cids
      OBVIOUS
    <3> HIDE DEF part, r
    <3>2. Message(r, part, up)
      BY <2>4, Zenon DEF part
    <3>3. UNCHANGED core
      BY <1>4, Zenon DEF First
    <3> QED
      BY <2>1, <2>4, <3>3, MessageStep, Zenon
  <2> QED
    BY <1>4, <2>2, <2>3, <2>4, Zenon DEF First
<1>5. ASSUME NEW cid \in Cids, Continue(cid) PROVE FidoInv'
  <2> DEFINE r == Touched(cid)
  <2>1. Proceeds(r, relay) /\ Proceeds([r EXCEPT !.fragment = None], r)
    BY <1>t, FragmentDropped, Zenon DEF Proceeds
  <2>2. r.busy = None /\ r.fragment.cid \in Cids /\ UNCHANGED core
    BY <1>5, <1>r, <1>t, Zenon DEF Continue, RelayOK, FragmentOK
  <2> HIDE DEF r
  <2>3. CASE /\ relay' = r \/ relay' = [r EXCEPT !.fragment = None]
             /\ UNCHANGED <<wire, fidoLeft>>
    <3>1. Proceeds(relay', relay)
      BY <2>1, <2>3, ProceedsTwice
    <3> QED
      BY <1>l, <2>2, <2>3, <3>1, RelayMoves, Zenon
  <2>4. ASSUME NEW up \in BOOLEAN, Message(r, r.fragment, up) PROVE FidoInv'
    BY <2>1, <2>2, <2>4, MessageStep, Zenon
  <2> QED
    BY <1>5, <2>3, <2>4, Zenon DEF Continue, r
<1>6. CASE DeviceClosed
  <2>1. PICK up \in BOOLEAN : /\ relay' = abort(relay, FALSE, up)
                              /\ wire' = wire \cup Aborted(relay, up)
    BY <1>6, Zenon DEF DeviceClosed
  <2>2. Proceeds(relay', relay)
    BY <1>r, <2>1, AbortProceeds, Zenon
  <2>3. \A m \in wire' : m \in wire \/ m \in [kind : {"cancel"}, id : Accepted(relay)]
    BY <1>r, <2>1, CancelsOnly, Zenon
  <2> QED
    BY <1>6, <1>l, <2>2, <2>3, RelayMoves, Zenon DEF DeviceClosed
<1>7. ASSUME NEW c \in relay.clients, Reply(c) PROVE FidoInv'
  <2>1. Proceeds(relay', relay)
    BY <1>7, <1>r, FinishProceeds, Zenon DEF Reply
  <2> QED
    BY <1>7, <1>l, <2>1, RelayMoves, Zenon DEF Reply
<1>8. ASSUME NEW c \in relay.clients, Lose(c) PROVE FidoInv'
  <2>1. Proceeds(relay', relay)
    BY <1>8, <1>r, FinishProceeds, Zenon DEF Lose
  <2>2. FidoSpend("cuts") /\ UNCHANGED core /\ \A m \in wire' : m \in wire
    BY <1>8, Zenon DEF Lose
  <2> QED
    BY <1>r, <2>1, <2>2, Spends, RelayMoves, Zenon
<1>9. CASE Timeouts
  <2>1. PICK up \in BOOLEAN : /\ relay' = Expire(timeout(relay, up))
                              /\ wire' = wire \cup TimedOut(relay, up)
    BY <1>9, Zenon DEF Timeouts
  <2>2. Proceeds(timeout(relay, up), relay)
    BY <1>r, TimeoutProceeds, Zenon
  <2>3. Proceeds(relay', timeout(relay, up))
    BY <2>1, <2>2, ExpireProceeds, Zenon DEF Proceeds
  <2>4. Proceeds(relay', relay)
    BY <2>2, <2>3, ProceedsTwice, Zenon
  <2>5. \A m \in wire' : m \in wire \/ m \in [kind : {"cancel"}, id : Accepted(relay)]
    BY <1>r, <2>1, CancelsOnly, Zenon
  <2> QED
    BY <1>9, <1>l, <2>4, <2>5, RelayMoves, Zenon DEF Timeouts
<1>10. CASE Close
  <2> DEFINE r == Ended(relay, FALSE)
             s == [r EXCEPT !.channels = <<>>, !.clients = {}, !.running = FALSE]
  <2>1. Proceeds(r, relay)
    BY <1>r, EndedProceeds, Zenon
  <2> HIDE DEF r
  <2>2. /\ IsRelay(s) /\ s.fragment = r.fragment /\ s.clients = {}
        /\ s.owner = r.owner /\ s.finals = r.finals /\ s.silent = r.silent
        /\ s.busy = r.busy
    BY <2>1, Zenon DEF Proceeds, RelayOK, IsRelay
  <2>3. relay' = s
    BY <1>10, Zenon DEF Close, r
  <2> HIDE DEF s
  <2>4. FragmentOK(s) /\ ClientsOK(s) /\ \A id \in Ids : Promised(s, id) => Promised(r, id)
    BY <2>1, <2>2, Zenon DEF Proceeds, RelayOK, FragmentOK, ClientsOK, Promised
  <2>5. RelayOK(r)
    BY <2>1, Zenon DEF Proceeds
  <2>6. Proceeds(s, r)
    BY <2>2, <2>4, <2>5, LogKept, Zenon
  <2>7. Proceeds(relay', relay)
    BY <2>1, <2>3, <2>6, ProceedsTwice, Zenon
  <2>8. FidoSpend("cuts") /\ UNCHANGED core
    BY <1>10, Zenon DEF Close
  <2>9. \A m \in wire' : m \in wire \/ m \in [kind : {"cancel"}, id : Accepted(relay)]
    BY <1>10, <1>r DEF Close, RelayOK, BusyOK
  <2> QED
    BY <1>r, <2>7, <2>8, <2>9, Spends, RelayMoves, Zenon
<1>11. CASE Start
  <2> DEFINE s == [relay EXCEPT !.running = TRUE]
  <2>1. /\ IsRelay(s) /\ s.fragment = relay.fragment /\ s.clients = relay.clients
        /\ s.owner = relay.owner /\ s.finals = relay.finals /\ s.silent = relay.silent
        /\ s.busy = relay.busy
    BY <1>r, Zenon DEF RelayOK, IsRelay
  <2>2. relay' = s
    BY <1>11, Zenon DEF Start
  <2> HIDE DEF s
  <2>3. FragmentOK(s) /\ ClientsOK(s) /\ \A id \in Ids : Promised(s, id) => Promised(relay, id)
    BY <1>r, <2>1, Zenon DEF RelayOK, FragmentOK, ClientsOK, Promised, Accepted
  <2>4. Proceeds(relay', relay)
    BY <1>r, <2>1, <2>2, <2>3, LogKept, Zenon
  <2> QED
    BY <1>11, <1>l, <2>4, RelayMoves, Zenon DEF Start
<1>12. ASSUME NEW m \in wire, HostCancel(m) PROVE FidoInv'
  <2>1. Proceeds(relay', relay)
    BY <1>12, <1>r, AnswerLogged, Zenon DEF HostCancel
  <2>2. Continues
    <3>1. CASE core' = core
      BY <3>1, <1>k, Zenon
    <3>2. CASE core' = Revoke(core)
      BY <3>2, RevokeContinues, Zenon
    <3> QED
      BY <1>12, <3>1, <3>2, Zenon DEF HostCancel
  <2> QED
    BY <1>12, <1>l, <2>1, <2>2, MacMoves, Zenon DEF HostCancel
<1>13. ASSUME NEW m \in wire, HostRequest(m) PROVE FidoInv'
  <2>1. CASE relay' = Answer(relay, "request", m.id, "status") /\ UNCHANGED core
    <3>1. Proceeds(relay', relay)
      BY <2>1, <1>r, AnswerLogged
    <3> QED
      BY <1>13, <1>k, <1>l, <2>1, <3>1, MacMoves, Zenon DEF HostRequest
  <2>2. CASE /\ core.current = None /\ UNCHANGED relay
             /\ core' = [core EXCEPT !.current =
                  [id |-> m.id, cancelled |-> FALSE, timer |-> HostTimeout]]
    <3>1. /\ m \in [kind : {m.kind}, id : Accepted(relay)] /\ m.kind = "request"
          /\ m.id \notin Approved(relay) /\ m.id \notin core.revoked
      BY <1>13, Zenon DEF HostRequest, FidoInv, WireOK
    <3>2. /\ core' \in [current : {core'.current}, away : BOOLEAN, revoked : SUBSET Accepted(relay)]
          /\ core'.current = [id |-> m.id, cancelled |-> FALSE, timer |-> HostTimeout]
          /\ core'.revoked = core.revoked
      BY <2>2, Zenon DEF FidoInv, CoreOK
    <3>3. CoreOK'
      BY <2>2, <3>1, Zenon DEF FidoInv, CoreOK
    <3>4. WireOK'
      <4>1. ASSUME NEW d \in wire' PROVE d \in wire /\ d # m
        BY <1>13, Zenon DEF HostRequest
      <4>2. ASSUME NEW d \in wire', d.kind = "request" PROVE d.id # m.id
        <5>1. d \in [kind : {d.kind}, id : Accepted(relay)]
          BY <4>1, Zenon DEF FidoInv, WireOK
        <5> QED
          BY <3>1, <4>1, <4>2, <5>1
      <4> QED
        BY <2>2, <4>1, <4>2 DEF FidoInv, WireOK
    <3> QED
      BY <1>13, <2>2, <3>3, <3>4, Zenon DEF HostRequest, FidoInv, LeftOK
  <2> QED
    BY <1>13, <2>1, <2>2, Zenon DEF HostRequest
<1>14. CASE HostDeadline
  <2>1. core.current # None /\ core' = [core EXCEPT !.current.cancelled = TRUE]
    BY <1>14, Zenon DEF HostDeadline
  <2>2. /\ core' \in [current : {core'.current}, away : BOOLEAN, revoked : SUBSET Accepted(relay)]
        /\ core'.current = [core.current EXCEPT !.cancelled = TRUE]
        /\ core'.revoked = core.revoked
    BY <2>1, Zenon DEF FidoInv, CoreOK
  <2>3. core.current \in [id : Accepted(relay), cancelled : BOOLEAN, timer : {core.current.timer}]
    BY <2>1, Zenon DEF FidoInv, CoreOK
  <2>4. /\ core'.current \in [id : {core.current.id}, cancelled : BOOLEAN, timer : {core'.current.timer}]
        /\ core'.current.cancelled
    BY <2>2, <2>3, Zenon
  <2>5. Continues
    BY <2>1, <2>2, <2>4, Zenon DEF Continues
  <2> QED
    BY <1>14, <1>l, <1>s, <2>5, MacMoves, Zenon DEF HostDeadline
<1>15. ASSUME NEW approved \in BOOLEAN, HostComplete(approved) PROVE FidoInv'
  <2> DEFINE id == core.current.id
             value == IF approved /\ Valid(core) THEN "data" ELSE "status"
  <2>1. /\ core.current # None /\ relay' = Answer(relay, "request", id, value)
        /\ core' = [core EXCEPT !.current = None] /\ UNCHANGED <<wire, fidoLeft>>
    BY <1>15, Zenon DEF HostComplete
  <2>2. /\ id \in Accepted(relay) /\ id \notin Approved(relay)
        /\ id \in core.revoked => core.current.cancelled
    BY <2>1, Zenon DEF FidoInv, CoreOK
  <2>3. value = "data" => id \notin core.revoked
    BY <2>2, Zenon DEF Valid
  <2> HIDE DEF value
  <2>4. /\ RelayOK(relay') /\ relay'.owner = relay.owner /\ Accepted(relay') = Accepted(relay)
        /\ Approved(relay') \subseteq Approved(relay) \cup {id}
        /\ value # "data" => Approved(relay') \subseteq Approved(relay)
    BY <1>r, <2>1, AnswerLogged DEF Accepted, Proceeds
  <2>5. /\ core' \in [current : {core'.current}, away : BOOLEAN, revoked : SUBSET Accepted(relay)]
        /\ core'.current = None /\ core'.revoked = core.revoked
    BY <2>1, Zenon DEF FidoInv, CoreOK
  <2>6. CoreOK'
    <3>1. core'.revoked \cap Approved(relay') = {}
      BY <2>3, <2>4, <2>5, Zenon DEF FidoInv, CoreOK
    <3> QED
      BY <2>4, <2>5, <3>1, Zenon DEF CoreOK
  <2>7. WireOK'
    <3> SUFFICES ASSUME NEW m \in wire
                 PROVE  /\ m \in [kind : {m.kind}, id : Accepted(relay')]
                        /\ m.kind = "request" =>
                             /\ m.id \notin Approved(relay') /\ m.id \notin core'.revoked
                             /\ m.id # core'.current.id
      BY <2>1, Zenon DEF WireOK
    <3>1. /\ m \in [kind : {m.kind}, id : Accepted(relay)]
          /\ m.kind = "request" => /\ m.id \notin Approved(relay) /\ m.id \notin core.revoked
                                   /\ m.id # id
      BY Zenon DEF FidoInv, WireOK
    <3>2. m.id # None.id
      BY <3>1, NoneId DEF Accepted
    <3> QED
      BY <2>4, <2>5, <3>1, <3>2, Zenon
  <2> QED
    BY <2>1, <2>4, <2>6, <2>7, Zenon DEF FidoInv, LeftOK
<1>16. CASE CancelAll
  <2>1. PICK away \in BOOLEAN : core' = [Revoke(core) EXCEPT !.away = away]
    BY <1>16, Zenon DEF CancelAll
  <2>2. Continues
    BY <2>1, RevokeContinues, Zenon
  <2>3. FidoSpend("revokes") /\ UNCHANGED <<relay, wire>>
    BY <1>16, Zenon DEF CancelAll
  <2> QED
    BY <1>r, <1>s, <2>2, <2>3, Spends, MacMoves, Zenon
<1>17. CASE MacBack
  <2>1. core' = [core EXCEPT !.away = FALSE]
    BY <1>17, Zenon DEF MacBack
  <2>2. /\ core' \in [current : {core'.current}, away : BOOLEAN, revoked : SUBSET Accepted(relay)]
        /\ core'.current = core.current /\ core'.revoked = core.revoked
    BY <2>1, Zenon DEF FidoInv, CoreOK
  <2>3. Continues
    BY <2>2, Zenon DEF Continues, FidoInv, CoreOK
  <2> QED
    BY <1>17, <1>l, <1>s, <2>3, MacMoves, Zenon DEF MacBack
<1>18. CASE FidoTick
  <2>1. Proceeds(relay', relay)
    BY <1>18, <1>r, TickLogged, Zenon DEF FidoTick
  <2>2. core' = [core EXCEPT !.current = Aged(@)]
    BY <1>18, Zenon DEF FidoTick
  <2>3. /\ core' \in [current : {core'.current}, away : BOOLEAN, revoked : SUBSET Accepted(relay)]
        /\ core'.current = Aged(core.current) /\ core'.revoked = core.revoked
    BY <2>2, Zenon DEF FidoInv, CoreOK
  <2>4. CASE core.current = None
    BY <1>18, <1>l, <2>1, <2>3, <2>4, MacMoves, Zenon DEF Continues, Aged, FidoTick
  <2>5. CASE core.current # None
    <3>1. core.current \in [id : Accepted(relay), cancelled : BOOLEAN, timer : {core.current.timer}]
      BY <2>5, Zenon DEF FidoInv, CoreOK
    <3>2. /\ core'.current \in [id : {core.current.id}, cancelled : BOOLEAN, timer : {core'.current.timer}]
          /\ core'.current.cancelled = core.current.cancelled
      BY <2>3, <3>1, Zenon DEF Aged
    <3>3. Continues
      BY <2>3, <2>5, <3>2, Zenon DEF Continues
    <3> QED
      BY <1>18, <1>l, <2>1, <3>3, MacMoves, Zenon DEF FidoTick
  <2> QED
    BY <2>4, <2>5, Zenon
<1>19. CASE UNCHANGED fidoVars
  BY <1>19, <1>k, <1>l, <1>s, MacMoves, Zenon DEF fidoVars
<1> QED
  BY <1>1, <1>2, <1>3, <1>4, <1>5, <1>6, <1>7, <1>8, <1>9, <1>10, <1>11, <1>12, <1>13,
     <1>14, <1>15, <1>16, <1>17, <1>18, <1>19, Zenon
  DEF FidoNext

\* The invariant holds from the start.
LEMMA FidoInvariant == FidoSpec => []FidoInv
<1>1. FidoInit => FidoInv
  <2> SUFFICES ASSUME FidoInit PROVE FidoInv
    OBVIOUS
  <2>1. /\ IsRelay(relay) /\ relay.fragment = None /\ relay.busy = None
        /\ relay.clients = {} /\ relay.owner = <<>> /\ relay.silent = {}
        /\ relay.finals = [id \in Ids |-> <<>>]
    BY Zenon DEF FidoInit, IsRelay
  <2>2. Accepted(relay) = {} /\ Len(relay.owner) = 0
    BY <2>1 DEF Accepted
  <2>3. LogOK(relay)
    BY <2>1, <2>2, Zenon DEF LogOK, Logged
  <2>4. RelayOK(relay)
    BY <2>1, <2>3, BoundNat DEF RelayOK, BusyOK, FragmentOK, ClientsOK
  <2>5. Approved(relay) = {}
    BY <2>1, Zenon DEF Approved, Promised
  <2>6. WireOK /\ CoreOK
    BY Zenon DEF FidoInit, WireOK, CoreOK
  <2>7. LeftOK
    BY FidoAssumption DEF FidoInit, LeftOK
  <2> QED
    BY <2>4, <2>6, <2>7, Zenon DEF FidoInv
<1> QED
  BY <1>1, FidoStep, PTL DEF FidoSpec

\* Every ceremony the relay accepts gets one final answer, on its own channel,
\* or was ended without one, and an approval only if it is its own: whatever
\* complete, timeout, abort, lost connections and stops of the relay do, and in
\* whatever order.
THEOREM CeremoniesAnswered == FidoSpec => []AnsweredForItself
<1>1. FidoInv => AnsweredForItself
  <2> SUFFICES ASSUME FidoInv PROVE OneFinalAnswer /\ ApprovalForItsCeremony
    BY Zenon DEF AnsweredForItself
  <2>1. RelayOK(relay) /\ LogOK(relay)
    BY Zenon DEF FidoInv, RelayOK
  <2>2. ASSUME NEW id \in Ids
        PROVE  /\ Logged(relay, id)
               /\ \/ relay.finals[id] = <<>> /\ Len(relay.finals[id]) = 0
                  \/ relay.finals[id] # <<>> /\ Len(relay.finals[id]) = 1
    <3>1. Logged(relay, id)
      BY <2>1, Zenon DEF LogOK
    <3>2. CASE relay.finals[id] = <<>>
      BY <3>1, <3>2, Zenon
    <3>3. CASE relay.finals[id] # <<>>
      <4>1. relay.finals[id] = <<relay.finals[id][1]>>
        BY <3>1, <3>3, Zenon DEF Logged
      <4>2. \A x : Len(<<x>>) = 1
        OBVIOUS
      <4> QED
        BY <3>1, <3>3, <4>1, Zenon
    <3> QED
      BY <3>2, <3>3, Zenon
  <2>3. OneFinalAnswer
    <3> SUFFICES ASSUME NEW id \in 1..Len(relay.owner)
                 PROVE  LET n == Len(relay.finals[id])
                        IN /\ n <= 1
                           /\ n = 1 <=> ~(id \in relay.silent \/ relay.busy.id = id)
                           /\ n = 1 => relay.finals[id][1].cid = relay.owner[id]
                           /\ ~(id \in relay.silent /\ relay.busy.id = id)
      BY Zenon DEF OneFinalAnswer
    <3>1. id \in Ids /\ id \in Accepted(relay)
      BY <2>1, BoundNat DEF RelayOK, Ids, Accepted
    <3>2. /\ relay.finals[id] # <<>> <=> id \notin relay.silent /\ relay.busy.id # id
          /\ id \in relay.silent => relay.busy.id # id
          /\ relay.finals[id] # <<>> => relay.finals[id][1].cid = relay.owner[id]
      BY <2>2, <3>1, Zenon DEF Logged
    <3>3. CASE relay.finals[id] = <<>>
      <4>1. Len(relay.finals[id]) = 0
        BY <3>3
      <4> QED
        BY <3>2, <4>1
    <3>4. CASE relay.finals[id] # <<>>
      <4>1. Len(relay.finals[id]) = 1
        BY <2>2, <3>1, <3>4, Zenon
      <4> QED
        BY <3>2, <4>1
    <3> QED
      BY <3>3, <3>4, Zenon
  <2>4. ApprovalForItsCeremony
    BY <2>2 DEF ApprovalForItsCeremony, Logged
  <2> QED
    BY <2>3, <2>4, Zenon
<1> QED
  BY <1>1, FidoInvariant, PTL

\* A transaction the Mac revoked before it ended (a cancellation, a lock, sleep
\* or the loss of the session) is never approved to a program: not by a late
\* authenticator, nor by a reply already on its way.
THEOREM RevokedStaysUnapproved == FidoSpec => []RevokedNotApproved
<1>1. FidoInv => RevokedNotApproved
  <2> SUFFICES ASSUME FidoInv, NEW id \in core.revoked, NEW n \in 1..Len(relay.finals[id])
               PROVE  relay.finals[id][n].data[1] # "data"
    BY Zenon DEF RevokedNotApproved
  <2>1. id \in Ids /\ id \notin Approved(relay)
    BY BoundNat DEF FidoInv, CoreOK, RelayOK, Accepted, Ids
  <2>2. Logged(relay, id)
    BY <2>1, Zenon DEF FidoInv, RelayOK, LogOK
  <2>3. relay.finals[id] = <<relay.finals[id][1]>> /\ relay.finals[id] # <<>>
    BY <2>2 DEF Logged
  <2>4. n = 1
    <3>1. \A x : Len(<<x>>) = 1
      OBVIOUS
    <3>2. Len(relay.finals[id]) = 1
      BY <2>3, <3>1, Zenon
    <3> QED
      BY <3>2
  <2> QED
    BY <2>1, <2>4 DEF Approved
<1> QED
  BY <1>1, FidoInvariant, PTL

-----------------------------------------------------------------------------
(* A running ceremony keeps its connection and its channel *)

\* A set of numbers that is not empty has a least one.
LEMMA LeastNat ==
  ASSUME NEW T, T \subseteq Nat, T # {}
  PROVE  \E s \in T : \A t \in T : s <= t
<1> DEFINE R == OpToRel(<, Nat)
<1>1. IsWellFoundedOn(R, Nat)
  BY NatLessThanWellFounded, Zenon
<1>2. PICK s \in T : \A t \in T : ~ (<<t, s>> \in R)
  <2> HIDE DEF R
  <2> QED
    BY <1>1, WFMin, Zenon
<1>3. ASSUME NEW t \in T PROVE s <= t
  <2>1. ~ (<<t, s>> \in {ss \in Nat \X Nat : ss[1] < ss[2]})
    BY <1>2, Zenon DEF OpToRel
  <2> QED
    BY <2>1
<1> QED
  BY <1>3, Zenon

\* The channel is one of the relay's.
Has(channels, cid) == \E i \in 1..Len(channels) : channels[i] = cid

\* Channels, each there once.
Distinct(channels) ==
  /\ channels \in Seq(Cids)
  /\ \A i, j \in 1..Len(channels) : channels[i] = channels[j] => i = j

\* The connection that will end the ceremony is open.
Waited(r) == \E c \in r.clients : c.kind = "request" /\ c.id = r.busy.id

\* The invariant: CeremonyKept, with what a channel's move and its eviction
\* need to know of the list.
Kept(r) ==
  /\ Distinct(r.channels) /\ Len(r.channels) <= MaxChannels
  /\ r.busy # None => Waited(r) /\ Has(r.channels, r.busy.cid) /\ r.fragment = None
  /\ r.fragment # None => Has(r.channels, r.fragment.cid)

\* The ceremony and the message under assembly are the same ones or over, and
\* the ceremony's connection is only gone when it is over.
Eases(s, r) ==
  /\ s.channels = r.channels
  /\ s.busy # None => /\ r.busy # None /\ s.busy.cid = r.busy.cid
                      /\ Waited(r) => Waited(s)
  /\ s.fragment # None => r.fragment # None /\ s.fragment.cid = r.fragment.cid

\* Such a step keeps the invariant.
LEMMA EasesKeeps ==
  ASSUME NEW r, NEW s, Kept(r), Eases(s, r)
  PROVE  Kept(s)
  BY Zenon DEF Kept, Eases

\* Two such steps are one.
LEMMA EasesTwice ==
  ASSUME NEW r, NEW s, NEW t, Eases(s, r), Eases(t, s)
  PROVE  Eases(t, r)
  BY Zenon DEF Eases

\* The final answer ends the ceremony.
LEMMA FinalEases ==
  ASSUME NEW r, NEW data, IsRelay(r)
  PROVE  Eases(Final(r, data), r) /\ IsRelay(Final(r, data)) /\ Final(r, data).busy = None
<1> DEFINE s == Final(r, data)
<1>1. /\ IsRelay(s) /\ s.channels = r.channels /\ s.busy = None
      /\ s.fragment = r.fragment
  BY Zenon DEF IsRelay, Final
<1> HIDE DEF s
<1>2. Eases(s, r)
  BY <1>1, Zenon DEF Eases
<1> QED
  BY <1>1, <1>2, Zenon DEF s

\* A result ends the ceremony it is for, if it runs.
LEMMA CompleteEases ==
  ASSUME NEW r, NEW id, NEW data, IsRelay(r)
  PROVE  /\ Eases(complete(r, id, data), r)
         /\ IsRelay(complete(r, id, data))
         /\ complete(r, id, data).busy # None =>
              complete(r, id, data) = r /\ r.busy.id # id
<1>1. Eases(r, r)
  BY Zenon DEF Eases
<1> QED
  BY <1>1, FinalEases, Zenon DEF complete

\* A further connection.
LEMMA OpenEases ==
  ASSUME NEW r, NEW kind, NEW id, IsRelay(r)
  PROVE  /\ Eases(Open(r, kind, id), r) /\ IsRelay(Open(r, kind, id))
         /\ kind = "request" /\ r.busy.id = id => Waited(Open(r, kind, id))
<1> DEFINE s == Open(r, kind, id)
           c == [kind |-> kind, id |-> id, reply |-> "none", timer |-> RpcTimeout]
<1>1. /\ IsRelay(s) /\ s.channels = r.channels /\ s.busy = r.busy
      /\ s.fragment = r.fragment /\ s.clients = r.clients \cup {c}
  BY Zenon DEF IsRelay, Open
<1>2. c.kind = kind /\ c.id = id
  OBVIOUS
<1> HIDE DEF s, c
<1>3. Eases(s, r)
  BY <1>1, Zenon DEF Eases, Waited
<1>4. kind = "request" /\ r.busy.id = id => Waited(s)
  BY <1>1, <1>2, Zenon DEF Waited
<1> QED
  BY <1>1, <1>3, <1>4, Zenon DEF s

\* A cancellation sent to the Mac.
LEMMA CancelEases ==
  ASSUME NEW r, NEW id, NEW up, IsRelay(r)
  PROVE  Eases(rpc(r, "cancel", id, up), r) /\ IsRelay(rpc(r, "cancel", id, up))
<1>1. Eases(r, r)
  BY Zenon DEF Eases
<1> QED
  BY <1>1, OpenEases, Zenon DEF rpc

\* The message under assembly is dropped.
LEMMA DropEases ==
  ASSUME NEW r, IsRelay(r)
  PROVE  /\ Eases([r EXCEPT !.fragment = None], r) /\ IsRelay([r EXCEPT !.fragment = None])
         /\ [r EXCEPT !.fragment = None].busy = r.busy
<1> DEFINE s == [r EXCEPT !.fragment = None]
<1>1. /\ IsRelay(s) /\ s.channels = r.channels /\ s.busy = r.busy
      /\ s.fragment = None /\ s.clients = r.clients
  BY Zenon DEF IsRelay
<1> HIDE DEF s
<1>2. Eases(s, r)
  BY <1>1, Zenon DEF Eases, Waited
<1> QED
  BY <1>1, <1>2, Zenon DEF s

\* Both end.
LEMMA EndedEases ==
  ASSUME NEW r, NEW respond \in BOOLEAN, IsRelay(r)
  PROVE  /\ Eases(Ended(r, respond), r) /\ IsRelay(Ended(r, respond))
         /\ Ended(r, respond).busy = None /\ Ended(r, respond).fragment = None
<1> DEFINE clear == [r EXCEPT !.fragment = None]
           s == [clear EXCEPT !.busy = None, !.silent = @ \cup {r.busy.id}]
<1>1. Eases(clear, r) /\ IsRelay(clear) /\ clear.busy = r.busy
  BY DropEases, Zenon
<1>2. clear.fragment = None
  BY Zenon DEF IsRelay
<1>3. Final(clear, <<"status">>).fragment = None
  <2> HIDE DEF clear
  <2> QED
    BY <1>1, <1>2, Zenon DEF IsRelay, Final
<1>4. Eases(Final(clear, <<"status">>), r)
  BY <1>1, FinalEases, EasesTwice, Zenon
<1>5. /\ IsRelay(s) /\ s.busy = None /\ s.fragment = None /\ s.channels = clear.channels
  <2>1. clear.channels = r.channels
    BY DEF Eases
  <2> HIDE DEF clear
  <2> QED
    BY <1>1, <1>2, Zenon DEF IsRelay
<1>6. Eases(s, r)
  BY <1>1, <1>5, Zenon DEF Eases
<1> HIDE DEF s
<1>7. CASE r.busy = None
  BY <1>1, <1>7 DEF Ended
<1>8. CASE r.busy # None /\ respond
  BY <1>1, <1>3, <1>4, <1>8, FinalEases, Zenon DEF Ended
<1>9. CASE r.busy # None /\ ~respond
  BY <1>5, <1>6, <1>9, Zenon DEF Ended, s
<1> QED
  BY <1>7, <1>8, <1>9, Zenon

\* abort
LEMMA AbortEases ==
  ASSUME NEW r, NEW respond \in BOOLEAN, NEW up, IsRelay(r)
  PROVE  Eases(abort(r, respond, up), r)
  BY EndedEases, CancelEases, EasesTwice DEF abort

\* A connection ends, and with it the ceremony it is for.
LEMMA FinishEases ==
  ASSUME NEW r, NEW c, NEW data, IsRelay(r)
  PROVE  Eases(finish(r, c, data), r)
<1> DEFINE closed == [r EXCEPT !.clients = @ \ {c}]
           s == complete(closed, c.id, data)
<1>1. /\ IsRelay(closed) /\ closed.channels = r.channels /\ closed.busy = r.busy
      /\ closed.fragment = r.fragment /\ closed.clients = r.clients \ {c}
  BY Zenon DEF IsRelay
<1> HIDE DEF closed
<1>2. ~(c.kind = "request" /\ c.id = r.busy.id) => Eases(closed, r)
  BY <1>1 DEF Eases, Waited
<1>3. c.kind = "request" => Eases(s, r)
  <2>1. /\ Eases(s, closed)
        /\ s.busy # None => s = closed /\ closed.busy.id # c.id
    BY <1>1, CompleteEases, Zenon
  <2> HIDE DEF s
  <2>2. CASE s.busy = None
    BY <1>1, <2>1, <2>2, Zenon DEF Eases
  <2>3. CASE s.busy # None
    BY <1>1, <1>2, <2>1, <2>3, Zenon
  <2> QED
    BY <2>2, <2>3, Zenon
<1> QED
  BY <1>2, <1>3, Zenon DEF finish, closed, s

\* The times of a message and of a ceremony.
LEMMA TimeoutEases ==
  ASSUME NEW r, NEW up, IsRelay(r)
  PROVE  Eases(timeout(r, up), r) /\ IsRelay(timeout(r, up))
<1> DEFINE kept == IF r.fragment # None /\ r.fragment.timer = 0
                   THEN [r EXCEPT !.fragment = None] ELSE r
           s == Final(kept, <<"status">>)
<1>1. Eases(r, r)
  BY Zenon DEF Eases
<1>2. Eases(kept, r) /\ IsRelay(kept)
  BY <1>1, DropEases, Zenon
<1>3. timeout(r, up) = IF r.busy # None /\ r.busy.timer = 0
                       THEN rpc(s, "cancel", r.busy.id, up) ELSE kept
  BY Zenon DEF timeout
<1> HIDE DEF kept
<1>4. Eases(s, r) /\ IsRelay(s)
  BY <1>2, FinalEases, EasesTwice, Zenon
<1> HIDE DEF s
<1>5. Eases(rpc(s, "cancel", r.busy.id, up), r) /\ IsRelay(rpc(s, "cancel", r.busy.id, up))
  BY <1>4, CancelEases, EasesTwice, Zenon
<1> QED
  BY <1>2, <1>3, <1>5, Zenon

\* The time of a connection.
LEMMA ExpireEases ==
  ASSUME NEW r, IsRelay(r)
  PROVE  Eases(Expire(r), r)
<1> DEFINE old == {c \in r.clients : c.timer = 0}
           closed == [r EXCEPT !.clients = @ \ old]
           hit == \E c \in old : c.kind = "request" /\ c.id = r.busy.id
           s == complete(closed, r.busy.id, <<"status">>)
<1>1. /\ IsRelay(closed) /\ closed.channels = r.channels /\ closed.busy = r.busy
      /\ closed.fragment = r.fragment /\ closed.clients = r.clients \ old
  BY Zenon DEF IsRelay
<1>2. Expire(r) = IF hit THEN s ELSE closed
  BY Zenon DEF Expire
<1> HIDE DEF closed
<1>3. ~hit => Eases(closed, r)
  BY <1>1, Zenon DEF Eases, Waited
<1>4. Eases(s, closed) /\ s.busy = None
  BY <1>1, CompleteEases
<1> HIDE DEF s, hit
<1>5. Eases(s, r)
  BY <1>1, <1>4, Zenon DEF Eases
<1> QED
  BY <1>2, <1>3, <1>5, Zenon

\* The Mac's answer waits on the connection, which stays open.
LEMMA AnswerEases ==
  ASSUME NEW r, NEW kind, NEW id, NEW value, RelayOK(r)
  PROVE  Eases(Answer(r, kind, id, value), r)
<1> DEFINE f(c) == IF c.kind = kind /\ c.id = id THEN [c EXCEPT !.reply = value] ELSE c
           s == Answer(r, kind, id, value)
<1>1. /\ s.channels = r.channels /\ s.fragment = r.fragment
      /\ s.busy = r.busy /\ s.clients = {f(c) : c \in r.clients}
  BY Zenon DEF RelayOK, IsRelay, Answer
<1>2. ASSUME NEW c \in r.clients
      PROVE  f(c) \in s.clients /\ f(c).kind = c.kind /\ f(c).id = c.id
  BY <1>1, Zenon DEF RelayOK, ClientsOK, IsClient
<1> HIDE DEF s, f
<1>3. Eases(s, r)
  BY <1>1, <1>2 DEF Eases, Waited
<1> QED
  BY <1>3, Zenon DEF s

\* Time passes for the relay.
LEMMA TickEases ==
  ASSUME NEW r, RelayOK(r),
         NEW s, s = [r EXCEPT !.fragment = Aged(@), !.busy = Aged(@),
                              !.clients = {Aged(c) : c \in @}]
  PROVE  Eases(s, r)
<1>1. /\ s.channels = r.channels /\ s.fragment = Aged(r.fragment) /\ s.busy = Aged(r.busy)
      /\ s.clients = {Aged(c) : c \in r.clients}
  BY Zenon DEF RelayOK, IsRelay
<1>2. ASSUME NEW c \in r.clients
      PROVE  Aged(c) \in s.clients /\ Aged(c).id = c.id /\ Aged(c).kind = c.kind
  <2>1. IsClient(c) /\ c.id \in Accepted(r)
    BY Zenon DEF RelayOK, ClientsOK
  <2>2. c # None
    BY <2>1, NoneId DEF Accepted
  <2> QED
    BY DEF Aged, IsClient
<1>3. /\ s.busy # None => /\ r.busy # None /\ s.busy.cid = r.busy.cid
                          /\ s.busy.id = r.busy.id
  BY DEF Aged, RelayOK, BusyOK
<1>4. s.fragment # None => r.fragment # None /\ s.fragment.cid = r.fragment.cid
  BY DEF Aged, RelayOK, FragmentOK
<1> QED
  BY <1>2, <1>3, <1>4 DEF Eases, Waited

\* One channel is taken out of the list: the others stay, each once.
LEMMA WithoutDistinct ==
  ASSUME NEW s, Distinct(s), NEW p \in 1..Len(s),
         NEW t, t = Without(s, p)
  PROVE  /\ Distinct(t) /\ Len(t) = Len(s) - 1
         /\ ~Has(t, s[p])
         /\ \A cid : Has(t, cid) => Has(s, cid)
         /\ \A cid : Has(s, cid) /\ cid # s[p] => Has(t, cid)
<1> DEFINE n == Len(s)
           g(i) == IF i < p THEN i ELSE i + 1
<1>1. n \in Nat \ {0} /\ n - 1 \in Nat /\ p \in 1..n
  BY DEF Distinct
<1>2. \A i \in 1..n - 1 : g(i) \in 1..n /\ g(i) # p /\ s[g(i)] \in Cids
  BY DEF Distinct
<1>3. \A i, j \in 1..n - 1 : g(i) = g(j) => i = j
  OBVIOUS
<1>4. t = [i \in 1..n - 1 |-> s[g(i)]]
  BY Zenon DEF Without
<1>5. \A k \in 1..n : k # p => \E i \in 1..n - 1 : g(i) = k
  <2> SUFFICES ASSUME NEW k \in 1..n, k # p PROVE \E i \in 1..n - 1 : g(i) = k
    OBVIOUS
  <2>1. CASE k < p
    BY <2>1
  <2>2. CASE k > p
    <3>1. k - 1 \in 1..n - 1 /\ g(k - 1) = k
      BY <2>2
    <3> QED
      BY <3>1, Zenon
  <2> QED
    BY <2>1
<1> HIDE DEF g
<1>6. t \in Seq(Cids) /\ Len(t) = n - 1 /\ \A i \in 1..n - 1 : t[i] = s[g(i)]
  BY <1>2, <1>4
<1>7. \A i, j \in 1..n : s[i] = s[j] => i = j
  BY Zenon DEF Distinct
<1>8. \A i, j \in 1..Len(t) : t[i] = t[j] => i = j
  BY <1>2, <1>3, <1>6, <1>7
<1>9. ~Has(t, s[p])
  BY <1>2, <1>6, <1>7 DEF Has
<1>10. \A cid : Has(t, cid) => Has(s, cid)
  BY <1>2, <1>6, Zenon DEF Has
<1>11. \A cid : Has(s, cid) /\ cid # s[p] => Has(t, cid)
  BY <1>5, <1>6, Zenon DEF Has
<1> QED
  BY <1>6, <1>8, <1>9, <1>10, <1>11, Zenon DEF Distinct

\* A channel that is not there is put at the end.
LEMMA AppendDistinct ==
  ASSUME NEW s, Distinct(s), NEW cid \in Cids, ~Has(s, cid),
         NEW t, t = Append(s, cid)
  PROVE  /\ Distinct(t) /\ Len(t) = Len(s) + 1 /\ Has(t, cid)
         /\ \A d : Has(s, d) => Has(t, d)
<1>1. s \in Seq(Cids) /\ Len(s) \in Nat
  BY DEF Distinct
<1>2. /\ t \in Seq(Cids) /\ Len(t) = Len(s) + 1 /\ t[Len(s) + 1] = cid
      /\ \A i \in 1..Len(s) : t[i] = s[i]
  BY <1>1
<1>3. Has(t, cid) /\ \A d : Has(s, d) => Has(t, d)
  BY DEF Has
<1>4. \A i, j \in 1..Len(t) : t[i] = t[j] => i = j
  BY DEF Distinct, Has
<1> QED
  BY <1>3, <1>4 DEF Distinct

\* A known channel is one of the list.
LEMMA KnownHas ==
  ASSUME NEW cid, Distinct(relay.channels)
  PROVE  Known(cid) <=> Has(relay.channels, cid)
<1>1. DOMAIN relay.channels = 1..Len(relay.channels)
  BY DEF Distinct
<1> QED
  BY <1>1, Zenon DEF Known, Has, Range

\* The relay with another list of channels.
LEMMA ListChanged ==
  ASSUME NEW r, NEW x, RelayOK(r), NEW s, s = [r EXCEPT !.channels = x]
  PROVE  /\ IsRelay(s) /\ RelayOK(s) /\ s.owner = r.owner
         /\ s.channels = x /\ s.busy = r.busy /\ s.fragment = r.fragment
         /\ s.clients = r.clients
<1>1. RelayOK(s) /\ s.owner = r.owner
  BY ChannelsChanged, Zenon DEF Proceeds
<1> QED
  BY <1>1, Zenon DEF RelayOK, IsRelay

\* A packet moves its channel to the end, and nothing else.
LEMMA TouchedKeeps ==
  ASSUME RelayOK(relay), Kept(relay), NEW cid \in Cids, Known(cid)
  PROVE  /\ Kept(Touched(cid)) /\ Has(Touched(cid).channels, cid)
         /\ RelayOK(Touched(cid)) /\ IsRelay(Touched(cid))
         /\ Touched(cid).busy = relay.busy /\ Touched(cid).fragment = relay.fragment
<1> DEFINE s == relay.channels
           p == CHOOSE i \in DOMAIN s : s[i] = cid
           t == Without(s, p)
           u == Append(t, cid)
<1>1. Distinct(s) /\ Has(s, cid) /\ Len(s) \in Nat /\ DOMAIN s = 1..Len(s)
  BY KnownHas DEF Kept, Distinct
<1>2. p \in 1..Len(s) /\ s[p] = cid
  BY <1>1, Zenon DEF Has
<1>3. Touched(cid) = [relay EXCEPT !.channels = u]
  BY Zenon DEF Touched
<1> HIDE DEF u
<1>4. /\ IsRelay(Touched(cid)) /\ RelayOK(Touched(cid))
      /\ Touched(cid).channels = u /\ Touched(cid).busy = relay.busy
      /\ Touched(cid).fragment = relay.fragment /\ Touched(cid).clients = relay.clients
  BY <1>3, ListChanged
<1> HIDE DEF p, s
<1>5. /\ Distinct(t) /\ Len(t) = Len(s) - 1 /\ ~Has(t, cid)
      /\ \A d : Has(s, d) /\ d # cid => Has(t, d)
  BY <1>1, <1>2, WithoutDistinct, Zenon
<1> HIDE DEF t
<1>6. /\ Distinct(u) /\ Len(u) = Len(t) + 1 /\ Has(u, cid)
      /\ \A d : Has(t, d) => Has(u, d)
  BY <1>5, AppendDistinct, Zenon DEF u
<1>7. Len(u) = Len(s) /\ \A d : Has(s, d) => Has(u, d)
  BY <1>5, <1>6
<1>8. Kept(Touched(cid))
  BY <1>4, <1>6, <1>7, Zenon DEF Kept, Waited, s
<1> QED
  BY <1>4, <1>6, <1>8, Zenon

\* A list that is full has a channel to evict: at most one of its two or more
\* is in use.  The least recently used of them goes.
LEMMA AssignKeeps ==
  ASSUME RelayOK(relay), Kept(relay), NEW cid \in Cids, ~Known(cid)
  PROVE  Kept(Assign(relay, cid))
<1> DEFINE s == relay.channels
           free == Victims(relay)
           p == CHOOSE i \in free : \A j \in free : i <= j
           full == Len(s) >= MaxChannels /\ free # {}
           t == IF full THEN Without(s, p) ELSE s
           u == Append(t, cid)
<1>1. /\ Distinct(s) /\ ~Has(s, cid) /\ Len(s) \in Nat /\ DOMAIN s = 1..Len(s)
      /\ Len(s) <= MaxChannels
  BY KnownHas DEF Kept, Distinct
<1>2. Assign(relay, cid) = [relay EXCEPT !.channels = u]
  BY Zenon DEF Assign
<1> HIDE DEF u
<1>3. /\ Assign(relay, cid).channels = u /\ Assign(relay, cid).busy = relay.busy
      /\ Assign(relay, cid).fragment = relay.fragment
      /\ Assign(relay, cid).clients = relay.clients
  BY <1>2
<1>4. \A i \in 1..Len(s) :
        i \in free <=> /\ ~(relay.busy # None /\ relay.busy.cid = s[i])
                       /\ ~(relay.fragment # None /\ relay.fragment.cid = s[i])
  BY DEF Victims
<1>5. free \subseteq 1..Len(s)
  BY DEF Victims
<1> HIDE DEF free
<1>6. Len(s) >= MaxChannels => free # {}
  <2> SUFFICES ASSUME Len(s) >= MaxChannels, free = {} PROVE FALSE
    OBVIOUS
  <2>1. 1 \in 1..Len(s) /\ 2 \in 1..Len(s)
    BY FidoAssumption
  <2>2. s[1] # s[2]
    BY <1>1, <2>1 DEF Distinct
  <2> QED
    BY <1>4, <2>1, <2>2, Zenon DEF Kept
<1>7. full => p \in free
  <2> SUFFICES ASSUME free # {} PROVE p \in free
    OBVIOUS
  <2>1. free \subseteq Nat
    BY <1>5
  <2>2. \E i \in free : \A j \in free : i <= j
    BY <2>1, LeastNat, Zenon
  <2> QED
    BY <2>2, Zenon
<1> HIDE DEF p
<1>8. /\ Distinct(t) /\ ~Has(t, cid) /\ Len(t) < MaxChannels /\ Len(t) \in Nat
      /\ \A d : Has(s, d) /\ (full => d # s[p]) => Has(t, d)
  <2>1. CASE full
    <3>1. p \in 1..Len(s)
      BY <1>5, <1>7, <2>1, Zenon
    <3>2. t = Without(s, p)
      BY <2>1, Zenon
    <3> HIDE DEF t, s
    <3>3. /\ Distinct(t) /\ Len(t) = Len(s) - 1
          /\ \A d : Has(t, d) => Has(s, d)
          /\ \A d : Has(s, d) /\ d # s[p] => Has(t, d)
      BY <1>1, <3>1, <3>2, WithoutDistinct, Zenon
    <3>4. Len(t) < MaxChannels /\ Len(t) \in Nat
      BY <1>1, <3>3, FidoAssumption
    <3> QED
      BY <1>1, <2>1, <3>3, <3>4, Zenon
  <2>2. CASE ~full
    BY <1>1, <1>6, <2>2, FidoAssumption
  <2> QED
    BY <2>1, <2>2, Zenon
<1>9. /\ relay.busy # None => Has(t, relay.busy.cid)
      /\ relay.fragment # None => Has(t, relay.fragment.cid)
  BY <1>4, <1>5, <1>7, <1>8, Zenon DEF Kept
<1> HIDE DEF t
<1>10. /\ Distinct(u) /\ Len(u) = Len(t) + 1 /\ \A d : Has(t, d) => Has(u, d)
  BY <1>8, AppendDistinct, Zenon DEF u
<1>11. Len(u) <= MaxChannels
  BY <1>8, <1>10, FidoAssumption
<1> QED
  BY <1>3, <1>9, <1>10, <1>11, Zenon DEF Kept, Waited

\* A complete message becomes the ceremony, with its connection, or is
\* answered at once.
LEMMA MessageKeeps ==
  ASSUME NEW r, RelayOK(r), Kept(r), r.busy = None,
         NEW part, Has(r.channels, part.cid), NEW up \in BOOLEAN, Message(r, part, up)
  PROVE  Kept(relay')
<1> DEFINE id == Len(r.owner) + 1
           none == [r EXCEPT !.fragment = None]
           taken == [none EXCEPT !.owner = Append(@, part.cid),
                                 !.busy = [id |-> id, cid |-> part.cid,
                                           timer |-> BusyTimeout]]
<1>1. IsRelay(r) /\ Eases(none, r) /\ IsRelay(none) /\ none.busy = r.busy
  BY DropEases, Zenon DEF RelayOK
<1>2. CASE relay' = none
  BY <1>1, <1>2, EasesKeeps, Zenon
<1>3. CASE relay' = rpc(taken, "request", id, up)
  <2>1. none.fragment = None /\ none.channels = r.channels
    BY <1>1, Zenon DEF IsRelay
  <2> HIDE DEF none
  <2>2. /\ IsRelay(taken) /\ taken.channels = none.channels /\ taken.fragment = none.fragment
        /\ taken.busy = [id |-> id, cid |-> part.cid, timer |-> BusyTimeout]
    BY <1>1, Zenon DEF IsRelay
  <2> HIDE DEF taken
  <2>3. taken.busy.id = id /\ taken.busy.cid = part.cid
    BY <2>2
  <2> HIDE DEF id
  <2> DEFINE s == Open(taken, "request", id)
             d == complete(taken, id, <<"status">>)
  <2>4. relay' = s \/ relay' = d
    BY <1>3, Zenon DEF rpc
  <2>5. CASE relay' = s
    <3>1. Eases(s, taken) /\ Waited(s)
      BY <2>2, <2>3, OpenEases, Zenon
    <3> HIDE DEF s
    <3> QED
      BY <2>1, <2>2, <2>5, <3>1 DEF Kept, Eases
  <2>6. CASE relay' = d
    <3>1. Eases(d, taken) /\ (d.busy # None => taken.busy.id # id)
      BY <2>2, CompleteEases
    <3> HIDE DEF d
    <3> QED
      BY <2>1, <2>2, <2>6, <3>1 DEF Kept, Eases
  <2> QED
    BY <2>4, <2>5, <2>6, Zenon
<1> QED
  BY <1>2, <1>3, Zenon DEF Message

\* Every step keeps the ceremony, its connection and its channel together.
LEMMA KeptStep ==
  ASSUME FidoInv, Kept(relay), [FidoNext]_fidoVars
  PROVE  Kept(relay')
<1>r. RelayOK(relay) /\ IsRelay(relay)
  BY Zenon DEF FidoInv, RelayOK
<1>e. Eases(relay', relay) => Kept(relay')
  BY EasesKeeps, Zenon
<1>t. ASSUME NEW cid \in Cids, Known(cid)
      PROVE  /\ Kept(Touched(cid)) /\ Has(Touched(cid).channels, cid)
             /\ RelayOK(Touched(cid)) /\ IsRelay(Touched(cid))
             /\ Touched(cid).busy = relay.busy /\ Touched(cid).fragment = relay.fragment
             /\ Kept([Touched(cid) EXCEPT !.fragment = None])
  BY <1>r, <1>t, TouchedKeeps, DropEases, EasesKeeps, Zenon
<1>1. CASE InitBroadcast
  <2>1. PICK cid \in Cids : ~Known(cid) /\ relay' = Assign(relay, cid)
    BY <1>1, Zenon DEF InitBroadcast
  <2> QED
    BY <1>r, <2>1, AssignKeeps, Zenon
<1>2. ASSUME NEW cid \in Cids, InitChannel(cid) PROVE Kept(relay')
  <2>1. PICK up \in BOOLEAN : \/ relay' = abort(relay, FALSE, up)
                              \/ relay' = [relay EXCEPT !.fragment = None]
    BY <1>2, Zenon DEF InitChannel
  <2>2. Eases(abort(relay, FALSE, up), relay)
    BY <1>r, AbortEases, Zenon
  <2>3. Eases([relay EXCEPT !.fragment = None], relay)
    BY <1>r, DropEases, Zenon
  <2> QED
    BY <1>e, <2>1, <2>2, <2>3, Zenon
<1>3. ASSUME NEW cid \in Cids, Cancel(cid) PROVE Kept(relay')
  <2>1. Known(cid)
    BY <1>3, Zenon DEF Cancel
  <2>2. PICK up \in BOOLEAN : \/ relay' = abort(Touched(cid), TRUE, up)
                              \/ relay' = Touched(cid)
    BY <1>3, Zenon DEF Cancel
  <2> QED
    BY <1>t, <2>1, <2>2, AbortEases, EasesKeeps, Zenon
<1>4. ASSUME NEW cid \in Cids, First(cid) PROVE Kept(relay')
  <2>1. Known(cid)
    BY <1>4, Zenon DEF First
  <2> DEFINE r == Touched(cid)
  <2>2. CASE relay' = r \/ relay' = [r EXCEPT !.fragment = None]
    BY <1>t, <2>1, <2>2, Zenon
  <2>3. ASSUME NEW cmd, r.busy = None,
               relay' = [r EXCEPT !.fragment = [id |-> 1, cid |-> cid, cmd |-> cmd,
                                                timer |-> FragmentTimeout]]
        PROVE  Kept(relay')
    <3> DEFINE part == [id |-> 1, cid |-> cid, cmd |-> cmd, timer |-> FragmentTimeout]
    <3>1. part.cid = cid
      OBVIOUS
    <3>2. Kept(r) /\ Has(r.channels, cid) /\ IsRelay(r)
      BY <1>t, <2>1, Zenon
    <3> HIDE DEF part, r
    <3>3. /\ relay'.channels = r.channels /\ relay'.busy = r.busy
          /\ relay'.fragment = part
      BY <2>3, <3>2, Zenon DEF IsRelay, part
    <3> QED
      BY <2>3, <3>2 DEF Kept
  <2>4. ASSUME NEW cmd, NEW up \in BOOLEAN, r.busy = None,
               Message(r, [id |-> 1, cid |-> cid, cmd |-> cmd,
                           timer |-> FragmentTimeout], up)
        PROVE  Kept(relay')
    <3> DEFINE part == [id |-> 1, cid |-> cid, cmd |-> cmd, timer |-> FragmentTimeout]
    <3>1. part.cid = cid
      OBVIOUS
    <3>2. Kept(r) /\ Has(r.channels, cid) /\ RelayOK(r)
      BY <1>t, <2>1, Zenon
    <3> HIDE DEF part, r
    <3>3. Message(r, part, up)
      BY <2>4, Zenon DEF part
    <3> QED
      BY <2>4, <3>2, MessageKeeps, Zenon
  <2> QED
    BY <1>4, <2>2, <2>3, <2>4, Zenon DEF First
<1>5. ASSUME NEW cid \in Cids, Continue(cid) PROVE Kept(relay')
  <2> DEFINE r == Touched(cid)
  <2>1. Known(cid) /\ relay.busy = None
    BY <1>5, Zenon DEF Continue
  <2>2. /\ Kept(r) /\ Has(r.channels, cid) /\ RelayOK(r) /\ r.busy = None
        /\ r.fragment = relay.fragment /\ Kept([r EXCEPT !.fragment = None])
    BY <1>t, <2>1, Zenon
  <2>3. \/ relay' = r \/ relay' = [r EXCEPT !.fragment = None]
        \/ relay.fragment.cid = cid /\ \E up \in BOOLEAN : Message(r, r.fragment, up)
    BY <1>5, Zenon DEF Continue
  <2> HIDE DEF r
  <2> QED
    BY <2>2, <2>3, MessageKeeps, Zenon
<1>6. CASE DeviceClosed
  BY <1>6, <1>r, <1>e, AbortEases, Zenon DEF DeviceClosed
<1>7. ASSUME NEW c \in relay.clients, Reply(c) \/ Lose(c) PROVE Kept(relay')
  BY <1>7, <1>r, <1>e, FinishEases, Zenon DEF Reply, Lose
<1>8. CASE Timeouts
  <2>1. PICK up \in BOOLEAN : relay' = Expire(timeout(relay, up))
    BY <1>8, Zenon DEF Timeouts
  <2>2. Eases(timeout(relay, up), relay) /\ IsRelay(timeout(relay, up))
    BY <1>r, TimeoutEases, Zenon
  <2>3. Eases(relay', relay)
    BY <2>1, <2>2, ExpireEases, EasesTwice, Zenon
  <2> QED
    BY <1>e, <2>3, Zenon
<1>9. CASE Close
  <2> DEFINE r == Ended(relay, FALSE)
  <2>1. IsRelay(r) /\ r.busy = None /\ r.fragment = None
    BY <1>r, EndedEases, Zenon
  <2>2. relay' = [r EXCEPT !.channels = <<>>, !.clients = {}, !.running = FALSE]
    BY <1>9, Zenon DEF Close
  <2> HIDE DEF r
  <2>3. relay'.channels = <<>> /\ relay'.busy = None /\ relay'.fragment = None
    BY <2>1, <2>2, Zenon DEF IsRelay
  <2>4. Distinct(<<>>) /\ Len(<<>>) <= MaxChannels
    BY FidoAssumption DEF Distinct
  <2> QED
    BY <2>3, <2>4, Zenon DEF Kept
<1>10. CASE Start
  <2>1. relay' = [relay EXCEPT !.running = TRUE]
    BY <1>10, Zenon DEF Start
  <2>2. /\ relay'.channels = relay.channels /\ relay'.busy = relay.busy
        /\ relay'.fragment = relay.fragment /\ relay'.clients = relay.clients
    BY <1>r, <2>1, Zenon DEF IsRelay
  <2> QED
    BY <1>e, <2>2, Zenon DEF Eases, Waited
<1>11. ASSUME NEW m \in wire, HostCancel(m) \/ HostRequest(m) PROVE Kept(relay')
  <2>1. \/ UNCHANGED relay
        \/ \E kind : relay' = Answer(relay, kind, m.id, "status")
    BY <1>11, Zenon DEF HostCancel, HostRequest
  <2> QED
    BY <1>r, <1>e, <2>1, AnswerEases, Zenon
<1>12. ASSUME NEW approved \in BOOLEAN, HostComplete(approved) PROVE Kept(relay')
  BY <1>12, <1>r, <1>e, AnswerEases, Zenon DEF HostComplete
<1>13. CASE FidoTick
  BY <1>13, <1>r, <1>e, TickEases, Zenon DEF FidoTick
<1>14. CASE UNCHANGED relay
  BY <1>14, Zenon
<1> QED
  BY <1>1, <1>2, <1>3, <1>4, <1>5, <1>6, <1>7, <1>8, <1>9, <1>10, <1>11, <1>12, <1>13,
     ZenonT(40)
  DEF FidoNext, fidoVars, HostDeadline, CancelAll, MacBack

\* A running ceremony always has the open connection that will end it, and its
\* channel, like that of a message under assembly, survives any number of
\* INITs; the relay never has more channels than it may.
THEOREM CeremoniesStayKept == FidoSpec => []CeremonyKept
<1>1. FidoInit => Kept(relay)
  <2> SUFFICES ASSUME FidoInit PROVE Kept(relay)
    OBVIOUS
  <2>1. relay.channels = <<>> /\ relay.busy = None /\ relay.fragment = None
    BY Zenon DEF FidoInit
  <2>2. Distinct(<<>>) /\ Len(<<>>) <= MaxChannels
    BY FidoAssumption DEF Distinct
  <2> QED
    BY <2>1, <2>2, Zenon DEF Kept
<1>2. FidoInv /\ Kept(relay) /\ [FidoNext]_fidoVars => Kept(relay)'
  BY KeptStep, Zenon
<1>3. Kept(relay) => CeremonyKept
  BY KnownHas, Zenon DEF Kept, CeremonyKept, Waited
<1> QED
  BY <1>1, <1>2, <1>3, FidoInvariant, PTL DEF FidoSpec

(* The Bluetooth service: one operation at a time *)

\* What an operation, the service, a client and the log of answers hold.
Operation ==
  [id : Nat, state : {"none", "pending", "complete"}, success : BOOLEAN,
   ask : {"none", "confirm", "passkey"}]
Verbs == {"connect", "disconnect", "pair"}
ServiceState ==
  [operation : Operation, ids : Nat, pairing : Nat, pairOp : Nat,
   attempts : SUBSET (Nat \ {0}), connecting : Nat, verb : Verbs, scan : BOOLEAN,
   changing : BOOLEAN, rev : Nat]
ClientState ==
  [pc : {"idle", "call", "poll", "ask", "confirm", "done"}, verb : Verbs, id : Nat,
   agent : BOOLEAN, answer : BOOLEAN, seen : BOOLEAN]
BtTale ==
  [needs : SUBSET Nat, approved : SUBSET Nat, told : SUBSET Nat, won : SUBSET Nat]

\* One operation is under way at a time, a pairing or a connection: the pairing
\* attempt and the operation it is for have the same number, and an operation
\* that ended well did what it was asked.
ServiceOwned(s, won) ==
  /\ s.pairing = s.pairOp
  /\ s.pairOp = 0 \/ s.connecting = 0
  /\ s.operation.state = "pending" <=> (s.pairOp # 0 \/ s.connecting # 0)
  /\ s.operation.state = "pending" => s.operation.id \in {s.pairOp, s.connecting} \ {0}
  /\ s.operation.state # "complete" => ~s.operation.success
  /\ s.operation.success => s.operation.id \in won

\* What a client is about to confirm, its user has approved; what it reports as
\* done, was.
ClientHonest(w, approved, won) ==
  /\ w.pc = "confirm" /\ w.answer => w.id \in approved
  /\ w.pc = "done" /\ w.answer => w.id \in won

Callers == {"bluez", "cli"}

BtInv ==
  /\ service \in ServiceState /\ clients \in [Callers -> ClientState] /\ btTale \in BtTale
  /\ ServiceOwned(service, btTale.won)
  /\ \A c \in Callers : ClientHonest(clients[c], btTale.approved, btTale.won)
  /\ ConfirmsWhatWasShown

\* The invariant says that operations are apart.
LEMMA BtApart == BtInv => OperationsApart
<1> SUFFICES ASSUME BtInv PROVE OperationsApart
  OBVIOUS
<1>1. service \in ServiceState /\ service.pairOp \in Nat /\ service.connecting \in Nat
  BY Zenon DEF BtInv, ServiceState
<1>2. OperationOwned
  <2> DEFINE owners == {service.pairOp, service.connecting} \ {0}
  <2>1. CASE service.operation.state = "pending"
    <3>1. service.operation.id \in owners
      BY <2>1, Zenon DEF BtInv, ServiceOwned
    <3>2. service.pairOp = 0 \/ service.connecting = 0
      BY Zenon DEF BtInv, ServiceOwned
    <3>3. owners = {service.operation.id}
      BY <3>1, <3>2
    <3> QED
      BY <2>1, <3>3, Zenon DEF OperationOwned
  <2>2. CASE service.operation.state # "pending"
    <3>1. service.pairOp = 0 /\ service.connecting = 0
      BY <2>2, Zenon DEF BtInv, ServiceOwned
    <3> QED
      BY <2>2, <3>1, Zenon DEF OperationOwned
  <2> QED
    BY <2>1, <2>2, Zenon
<1>3. DOMAIN clients = Callers
  BY Zenon DEF BtInv
<1>4. OutcomeTrue
  BY <1>3, Zenon DEF BtInv, ClientHonest, OutcomeTrue
<1> QED
  BY <1>2, <1>4, Zenon DEF BtInv, OperationsApart

\* Steps that neither begin nor end an operation: the service keeps it, but for
\* the question it asks.
SameOperation(s, t) ==
  /\ t.pairing = s.pairing /\ t.pairOp = s.pairOp /\ t.connecting = s.connecting
  /\ t.operation.state = s.operation.state /\ t.operation.id = s.operation.id
  /\ t.operation.success = s.operation.success

\* Such a step leaves the ownership of the operation as it was.
LEMMA SameOwned ==
  ASSUME NEW s, NEW t, NEW won, ServiceOwned(s, won), SameOperation(s, t)
  PROVE  ServiceOwned(t, won)
BY Zenon DEF ServiceOwned, SameOperation

\* The steps of the Mac that leave the clients alone.
LEMMA QuietHost ==
  ASSUME BtInv, PendingChange \/ ScanEnds \/ HostChanges \/ SessionSwitches \/ ReaderScan
  PROVE  BtInv'
<1>1. service \in ServiceState /\ service.rev \in Nat
  BY Zenon DEF BtInv, ServiceState
<1>2. UNCHANGED <<clients, btTale>>
  BY Zenon DEF PendingChange, ScanEnds, HostChanges, SessionSwitches, ReaderScan
<1>3. \/ service' = service
      \/ service' = [service EXCEPT !.changing = FALSE, !.rev = @ + 1]
      \/ service' = [service EXCEPT !.changing = TRUE]
      \/ \E b \in BOOLEAN : service' = [[service EXCEPT !.scan = b] EXCEPT !.changing = TRUE]
  BY Zenon DEF PendingChange, ScanEnds, HostChanges, SessionSwitches, ReaderScan, finishScan,
     invalidate
<1>4. service' \in ServiceState /\ SameOperation(service, service')
  <2>1. CASE service' = service
    BY <1>1, <2>1, Zenon DEF SameOperation
  <2>2. CASE service' = [service EXCEPT !.changing = FALSE, !.rev = @ + 1]
    <3>1. service.rev + 1 \in Nat
      BY <1>1
    <3>2. PICK r \in Nat : service' = [service EXCEPT !.changing = FALSE, !.rev = r]
      BY <1>1, <2>2, <3>1, Zenon DEF ServiceState
    <3> QED
      BY <1>1, <3>2, Zenon DEF ServiceState, SameOperation
  <2>3. CASE service' = [service EXCEPT !.changing = TRUE]
    BY <1>1, <2>3, Zenon DEF ServiceState, SameOperation
  <2>4. ASSUME NEW b \in BOOLEAN,
               service' = [[service EXCEPT !.scan = b] EXCEPT !.changing = TRUE]
        PROVE  service' \in ServiceState /\ SameOperation(service, service')
    BY <1>1, <2>4, Zenon DEF ServiceState, SameOperation
  <2> QED
    BY <1>3, <2>1, <2>2, <2>3, <2>4, Zenon
<1>5. ServiceOwned(service', btTale.won)
  BY <1>4, SameOwned, Zenon DEF BtInv
<1> QED
  BY <1>2, <1>4, <1>5, Zenon DEF BtInv, ConfirmsWhatWasShown

\* A connection or disconnection ends.
LEMMA ConnectionEnds ==
  ASSUME BtInv, ConnectionDone
  PROVE  BtInv'
<1>1. /\ service \in ServiceState /\ service.connecting \in Nat \ {0}
      /\ btTale \in BtTale /\ btTale.won \in SUBSET Nat
  BY Zenon DEF BtInv, ServiceState, BtTale, ConnectionDone
<1>2. PICK works \in BOOLEAN :
        /\ btTale' = [btTale EXCEPT !.won = IF works THEN @ \cup {service.connecting} ELSE @]
        /\ service' = invalidate([service EXCEPT !.connecting = 0,
             !.operation = [NoOperation EXCEPT !.id = service.connecting,
               !.state = "complete", !.success = works]])
  BY Zenon DEF ConnectionDone
<1> DEFINE o == [NoOperation EXCEPT !.id = service.connecting, !.state = "complete",
                                    !.success = works]
           won == IF works THEN btTale.won \cup {service.connecting} ELSE btTale.won
<1>3. o \in Operation /\ o.id = service.connecting /\ o.state = "complete" /\ o.success = works
  BY <1>1, Zenon DEF NoOperation, Operation
<1>4. /\ service' = [[service EXCEPT !.connecting = 0, !.operation = o] EXCEPT !.changing = TRUE]
      /\ btTale' = [btTale EXCEPT !.won = won]
  BY <1>2, Zenon DEF invalidate
<1>5. won \in SUBSET Nat /\ btTale.won \subseteq won
      /\ (works => service.connecting \in won)
  BY <1>1, Zenon
<1> HIDE DEF o, won
<1>6. /\ service' \in ServiceState /\ service'.operation = o /\ service'.connecting = 0
      /\ service'.pairOp = service.pairOp /\ service'.pairing = service.pairing
  BY <1>1, <1>3, <1>4, Zenon DEF ServiceState
<1>7. btTale' \in BtTale /\ btTale'.won = won /\ btTale'.approved = btTale.approved
      /\ btTale'.told = btTale.told
  BY <1>1, <1>4, <1>5, Zenon DEF BtTale
<1>8. service.pairOp = 0
  BY <1>1, Zenon DEF BtInv, ServiceOwned
<1>9. ServiceOwned(service', won)
  BY <1>3, <1>5, <1>6, <1>8, Zenon DEF BtInv, ServiceOwned
<1>10. UNCHANGED clients
  BY Zenon DEF ConnectionDone
<1>11. \A c \in Callers : ClientHonest(clients[c], btTale.approved, won)
  BY <1>5, Zenon DEF BtInv, ClientHonest
<1> QED
  BY <1>6, <1>7, <1>9, <1>10, <1>11, Zenon DEF BtInv, ConfirmsWhatWasShown

\* An attempt asks its user.
LEMMA AttemptAsks ==
  ASSUME BtInv, NEW a, PairingAsks(a)
  PROVE  BtInv'
<1>1. /\ service \in ServiceState /\ service.operation \in Operation /\ a \in Nat
      /\ btTale \in BtTale /\ btTale.needs \in SUBSET Nat
  BY Zenon DEF BtInv, ServiceState, BtTale, PairingAsks
<1>2. PICK kind \in {"confirm", "passkey"} :
        /\ service' = invalidate([service EXCEPT !.operation.ask = kind])
        /\ btTale' = [btTale EXCEPT !.needs = IF kind = "confirm" THEN @ \cup {a} ELSE @]
  BY Zenon DEF PairingAsks
<1> DEFINE o == [service.operation EXCEPT !.ask = kind]
           n == IF kind = "confirm" THEN btTale.needs \cup {a} ELSE btTale.needs
<1>3. o \in Operation /\ o.id = service.operation.id /\ o.state = service.operation.state
      /\ o.success = service.operation.success
  BY <1>1, Zenon DEF Operation
<1>4. n \in SUBSET Nat
  BY <1>1, Zenon
<1>5. /\ service' = [[service EXCEPT !.operation = o] EXCEPT !.changing = TRUE]
      /\ btTale' = [btTale EXCEPT !.needs = n]
  BY <1>1, <1>2, Zenon DEF invalidate, ServiceState
<1> HIDE DEF o, n
<1>6. service' \in ServiceState /\ SameOperation(service, service')
  BY <1>1, <1>3, <1>5, Zenon DEF ServiceState, SameOperation
<1>7. /\ btTale' \in BtTale /\ btTale'.won = btTale.won
      /\ btTale'.approved = btTale.approved /\ btTale'.told = btTale.told
  BY <1>1, <1>4, <1>5, Zenon DEF BtTale
<1>8. ServiceOwned(service', btTale.won) /\ UNCHANGED clients
  BY <1>6, SameOwned, Zenon DEF BtInv, PairingAsks
<1> QED
  BY <1>6, <1>7, <1>8, Zenon DEF BtInv, ConfirmsWhatWasShown

\* An attempt ends, and with it the operation it was for.
LEMMA AttemptEnded ==
  ASSUME BtInv, NEW a, PairingEnds(a)
  PROVE  BtInv'
<1>1. /\ service \in ServiceState /\ a \in Nat \ {0} /\ service.pairing = a
      /\ service.attempts \in SUBSET (Nat \ {0}) /\ service.pairOp = a
      /\ btTale \in BtTale /\ btTale.won \in SUBSET Nat
  BY Zenon DEF BtInv, ServiceState, BtTale, PairingEnds, Current, ServiceOwned
<1>2. PICK ok \in BOOLEAN :
        /\ btTale' = [btTale EXCEPT !.won = IF ok THEN @ \cup {a} ELSE @]
        /\ service' = [finishPairOperation(service, ok) EXCEPT !.pairing = 0,
             !.attempts = IF ok THEN @ \ {a} ELSE @]
  BY Zenon DEF PairingEnds
<1> DEFINE o == [NoOperation EXCEPT !.id = a, !.state = "complete", !.success = ok]
           won == IF ok THEN btTale.won \cup {a} ELSE btTale.won
           rest == IF ok THEN service.attempts \ {a} ELSE service.attempts
           f == [[service EXCEPT !.pairOp = 0, !.operation = o] EXCEPT !.changing = TRUE]
<1>3. o \in Operation /\ o.id = a /\ o.state = "complete" /\ o.success = ok
  BY <1>1, Zenon DEF NoOperation, Operation
<1>4. finishPairOperation(service, ok) = f
  BY <1>1, Zenon DEF finishPairOperation, invalidate
<1>5. won \in SUBSET Nat /\ btTale.won \subseteq won /\ (ok => a \in won)
      /\ rest \in SUBSET (Nat \ {0})
  BY <1>1, Zenon
<1> HIDE DEF o
<1>6. /\ f \in ServiceState /\ f.operation = o /\ f.pairOp = 0
      /\ f.connecting = service.connecting /\ f.attempts = service.attempts
  BY <1>1, <1>3, Zenon DEF ServiceState
<1> HIDE DEF f
<1>7. /\ service' = [f EXCEPT !.pairing = 0, !.attempts = rest]
      /\ btTale' = [btTale EXCEPT !.won = won]
  BY <1>2, <1>4, <1>6, Zenon DEF ServiceState
<1> HIDE DEF won, rest
<1>8. /\ service' \in ServiceState /\ service'.operation = o /\ service'.pairOp = 0
      /\ service'.pairing = 0 /\ service'.connecting = service.connecting
  BY <1>5, <1>6, <1>7, Zenon DEF ServiceState
<1>9. btTale' \in BtTale /\ btTale'.won = won /\ btTale'.approved = btTale.approved
      /\ btTale'.told = btTale.told
  BY <1>1, <1>5, <1>7, Zenon DEF BtTale
<1>10. service.connecting = 0
  BY <1>1, Zenon DEF BtInv, ServiceOwned
<1>11. ServiceOwned(service', won)
  BY <1>3, <1>5, <1>8, <1>10, Zenon DEF ServiceOwned
<1>12. UNCHANGED clients
  BY Zenon DEF PairingEnds
<1>13. \A c \in Callers : ClientHonest(clients[c], btTale.approved, won)
  BY <1>5, Zenon DEF BtInv, ClientHonest
<1> QED
  BY <1>8, <1>9, <1>11, <1>12, <1>13, Zenon DEF BtInv, ConfirmsWhatWasShown

\* A new operation is pending with the party that will end it, or has ended.
LEMMA OperationBegins ==
  ASSUME service \in ServiceState, NEW won \in SUBSET Nat, ServiceOwned(service, won),
         NEW verb \in Verbs, NEW started \in BOOLEAN, Accepts(verb),
         NEW s, s = NewOperation(verb, started)
  PROVE  /\ s \in ServiceState /\ s.ids \in Nat /\ s.operation.success \in BOOLEAN
         /\ \A w : won \subseteq w /\ (s.operation.success => s.ids \in w) => ServiceOwned(s, w)
<1> DEFINE id == service.ids + 1
           o == [NoOperation EXCEPT !.id = id, !.state = "pending"]
           n == [[service EXCEPT !.ids = id, !.operation = o] EXCEPT !.changing = TRUE]
           m == [n EXCEPT !.pairOp = id]
           done(ok) == [NoOperation EXCEPT !.id = id, !.state = "complete", !.success = ok]
           f(ok) == [[m EXCEPT !.pairOp = 0, !.operation = done(ok)] EXCEPT !.changing = TRUE]
<1>1. id \in Nat /\ id # 0 /\ service.attempts \cup {id} \in SUBSET (Nat \ {0})
  BY DEF ServiceState
<1>2. /\ service.pairing = 0 /\ service.connecting = 0 /\ service.pairOp = 0
  BY Zenon DEF Accepts, Busy, ServiceOwned
<1>3. o \in Operation /\ o.id = id /\ o.state = "pending" /\ o.success = FALSE
  BY <1>1, Zenon DEF NoOperation, Operation
<1>4. \A ok \in BOOLEAN : /\ done(ok) \in Operation /\ done(ok).id = id
                          /\ done(ok).state = "complete" /\ done(ok).success = ok
  BY <1>1, Zenon DEF NoOperation, Operation
<1>5. s = IF verb # "pair" THEN [n EXCEPT !.connecting = id, !.verb = verb]
          ELSE IF host.paired THEN f(TRUE)
          ELSE IF started THEN [n EXCEPT !.pairOp = id, !.pairing = id,
                                         !.attempts = service.attempts \cup {id}]
          ELSE f(FALSE)
  <2>1. n.attempts = service.attempts
    BY Zenon DEF ServiceState
  <2>2. m.pairOp = id
    BY Zenon DEF ServiceState
  <2> QED
    BY <2>1, <2>2, ZenonT(40) DEF NewOperation, finishPairOperation, invalidate
<1> HIDE DEF o, id
<1>6. /\ n \in ServiceState /\ n.ids = id /\ n.operation = o /\ n.pairing = 0
      /\ n.pairOp = 0 /\ n.connecting = 0
  BY <1>1, <1>2, <1>3, Zenon DEF ServiceState
<1> HIDE DEF n
<1>7. CASE s = [n EXCEPT !.connecting = id, !.verb = verb]
  <2>1. /\ s \in ServiceState /\ s.ids = id /\ s.operation = o /\ s.pairing = 0
        /\ s.pairOp = 0 /\ s.connecting = id
    BY <1>1, <1>6, <1>7, Zenon DEF ServiceState, Verbs
  <2> QED
    BY <1>1, <1>3, <2>1, Zenon DEF ServiceOwned
<1>8. CASE s = [n EXCEPT !.pairOp = id, !.pairing = id, !.attempts = service.attempts \cup {id}]
  <2>1. /\ s \in ServiceState /\ s.ids = id /\ s.operation = o /\ s.pairing = id
        /\ s.pairOp = id /\ s.connecting = 0
    BY <1>1, <1>6, <1>8, Zenon DEF ServiceState
  <2> QED
    BY <1>1, <1>3, <2>1, Zenon DEF ServiceOwned
<1>9. ASSUME NEW ok \in BOOLEAN, s = f(ok)
      PROVE  /\ s \in ServiceState /\ s.ids \in Nat /\ s.operation.success \in BOOLEAN
             /\ \A w : won \subseteq w /\ (s.operation.success => s.ids \in w)
                         => ServiceOwned(s, w)
  <2> DEFINE d == done(ok)
  <2>1. d \in Operation /\ d.id = id /\ d.state = "complete" /\ d.success = ok
    BY <1>4, Zenon
  <2>2. s = [[m EXCEPT !.pairOp = 0, !.operation = d] EXCEPT !.changing = TRUE]
    BY <1>9, Zenon
  <2> HIDE DEF d
  <2>3. /\ m \in ServiceState /\ m.ids = id /\ m.pairing = 0 /\ m.connecting = 0
    BY <1>1, <1>6, Zenon DEF ServiceState
  <2> HIDE DEF m
  <2>4. /\ s \in ServiceState /\ s.ids = id /\ s.operation = d /\ s.pairing = 0
        /\ s.pairOp = 0 /\ s.connecting = 0
    BY <2>1, <2>2, <2>3, ZenonT(40) DEF ServiceState
  <2> QED
    BY <1>1, <2>1, <2>4, Zenon DEF ServiceOwned
<1> QED
  BY <1>5, <1>7, <1>8, <1>9, Zenon

\* A client's record after one of its steps.
LEMMA ClientMoves ==
  ASSUME NEW w \in ClientState
  PROVE  /\ NoCall \in ClientState /\ NoCall.pc = "idle"
         /\ \A ok \in BOOLEAN : /\ Ends(w, ok) \in ClientState /\ Ends(w, ok).pc = "done"
                                /\ Ends(w, ok).id = w.id /\ Ends(w, ok).answer = ok
BY Zenon DEF ClientState, NoCall, Ends, Verbs

\* A step of client c to an honest record keeps the rest.
LEMMA ClientKeeps ==
  ASSUME BtInv, NEW c \in Callers, NEW to \in ClientState, Step(c, to),
         service' \in ServiceState, btTale' \in BtTale,
         btTale.approved \subseteq btTale'.approved, btTale.won \subseteq btTale'.won,
         btTale'.told \subseteq btTale'.approved,
         ServiceOwned(service', btTale'.won),
         ClientHonest(to, btTale'.approved, btTale'.won)
  PROVE  BtInv'
<1>1. clients' \in [Callers -> ClientState]
  BY Zenon DEF BtInv, Step
<1>2. \A b \in Callers : ClientHonest(clients'[b], btTale'.approved, btTale'.won)
  <2> SUFFICES ASSUME NEW b \in Callers
               PROVE  ClientHonest(clients'[b], btTale'.approved, btTale'.won)
    OBVIOUS
  <2>1. CASE b = c
    BY <2>1, Zenon DEF BtInv, Step
  <2>2. CASE b # c
    <3>1. clients'[b] = clients[b]
      BY <2>2, Zenon DEF BtInv, Step
    <3> QED
      BY <3>1, Zenon DEF BtInv, ClientHonest
  <2> QED
    BY <2>1, <2>2, Zenon
<1> QED
  BY <1>1, <1>2, Zenon DEF BtInv, ConfirmsWhatWasShown

\* An operation is asked for, and its answer may be lost.
LEMMA CallsKeep ==
  ASSUME BtInv, NEW c \in Callers, ClientCalls(c)
  PROVE  BtInv'
<1> DEFINE w == clients[c]
<1>1. /\ w \in ClientState /\ w.verb \in Verbs /\ service \in ServiceState
      /\ btTale \in BtTale /\ btTale.won \in SUBSET Nat
      /\ btTale.told \subseteq btTale.approved
      /\ ServiceOwned(service, btTale.won)
  BY Zenon DEF BtInv, ClientState, BtTale, ConfirmsWhatWasShown
<1>2. Ends(w, FALSE) \in ClientState /\ Ends(w, FALSE).pc = "done" /\ ~Ends(w, FALSE).answer
  BY <1>1, ClientMoves, Zenon
<1>3. \A a, v : ClientHonest(Ends(w, FALSE), a, v)
  BY <1>2, Zenon DEF ClientHonest
<1>4. w.pc = "call"
  BY Zenon DEF ClientCalls
<1>5. CASE Accepts(w.verb)
  <2>1. PICK heard \in BOOLEAN, started \in BOOLEAN :
          LET s == NewOperation(w.verb, started)
          IN /\ service' = s
             /\ btTale' = [btTale EXCEPT !.won =
                  IF s.operation.success THEN @ \cup {s.ids} ELSE @]
             /\ Step(c, IF heard THEN [w EXCEPT !.pc = "poll", !.id = s.ids]
                        ELSE Ends(w, FALSE))
    BY <1>5, Zenon DEF ClientCalls
  <2>2. PICK s : s = NewOperation(w.verb, started)
    OBVIOUS
  <2> DEFINE won == IF s.operation.success THEN btTale.won \cup {s.ids} ELSE btTale.won
  <2>3. /\ service' = s /\ btTale' = [btTale EXCEPT !.won = won]
        /\ Step(c, IF heard THEN [w EXCEPT !.pc = "poll", !.id = s.ids]
                   ELSE Ends(w, FALSE))
    BY <2>1, <2>2, <1>1, Zenon DEF BtTale
  <2>4. /\ s \in ServiceState /\ s.ids \in Nat /\ s.operation.success \in BOOLEAN
        /\ \A v : btTale.won \subseteq v /\ (s.operation.success => s.ids \in v)
                    => ServiceOwned(s, v)
    BY <1>1, <1>5, <2>2, OperationBegins
  <2>5. won \in SUBSET Nat /\ btTale.won \subseteq won /\ (s.operation.success => s.ids \in won)
    BY <1>1, <2>4, Zenon
  <2>6. ServiceOwned(s, won)
    BY <2>4, <2>5, Zenon
  <2> HIDE DEF won, w
  <2>7. btTale' \in BtTale /\ btTale'.won = won /\ btTale'.approved = btTale.approved
        /\ btTale'.told = btTale.told
    BY <1>1, <2>3, <2>5, Zenon DEF BtTale
  <2>8. CASE heard
    <3>1. PICK to : to = [w EXCEPT !.pc = "poll", !.id = s.ids]
      OBVIOUS
    <3>2. to \in ClientState /\ to.pc = "poll"
      BY <1>1, <2>4, <3>1, Zenon DEF ClientState
    <3>3. ClientHonest(to, btTale'.approved, btTale'.won) /\ Step(c, to)
      BY <2>3, <2>8, <3>1, <3>2, Zenon DEF ClientHonest
    <3> QED
      BY <1>1, <2>3, <2>4, <2>5, <2>6, <2>7, <3>2, <3>3, ClientKeeps, Zenon
  <2>9. CASE ~heard
    <3>1. Step(c, Ends(w, FALSE))
      BY <2>3, <2>9, Zenon
    <3> QED
      BY <1>1, <1>2, <1>3, <2>3, <2>4, <2>5, <2>6, <2>7, <3>1, ClientKeeps, ZenonT(40)
  <2> QED
    BY <2>8, <2>9, Zenon
<1>6. CASE ~Accepts(w.verb)
  <2>1. Step(c, Ends(w, FALSE)) /\ UNCHANGED <<service, btTale>>
    BY <1>6, Zenon DEF ClientCalls
  <2> HIDE DEF w
  <2> QED
    BY <1>1, <1>2, <1>3, <2>1, ClientKeeps, Zenon
<1> QED
  BY <1>5, <1>6, Zenon

\* The steps of a client that leave the service alone.
LEMMA ClientWaits ==
  ASSUME BtInv, NEW c \in Callers,
         ClientPolls(c) \/ ClientGivesUp(c) \/ CallFinished(c)
  PROVE  BtInv'
<1> DEFINE w == clients[c]
<1>1. /\ w \in ClientState /\ service \in ServiceState /\ btTale \in BtTale
      /\ btTale.told \subseteq btTale.approved
      /\ ServiceOwned(service, btTale.won) /\ service.operation \in Operation
  BY Zenon DEF BtInv, ConfirmsWhatWasShown, ServiceState
<1>2. UNCHANGED <<service, btTale>>
  BY Zenon DEF ClientPolls, ClientGivesUp, CallFinished, hostVars
<1>3. \/ Step(c, Ends(w, FALSE))
      \/ Step(c, [w EXCEPT !.pc = "ask"])
      \/ Step(c, [w EXCEPT !.seen = TRUE]) /\ w.pc = "poll"
      \/ /\ Step(c, Ends(w, service.operation.success))
         /\ service.operation.id = w.id
      \/ Step(c, NoCall)
  BY Zenon DEF ClientPolls, ClientGivesUp, CallFinished, Superseded
<1> HIDE DEF w
<1>4. SUFFICES \E to \in ClientState :
                 Step(c, to) /\ ClientHonest(to, btTale.approved, btTale.won)
  BY <1>1, <1>2, ClientKeeps, Zenon
<1>5. CASE Step(c, Ends(w, FALSE))
  BY <1>1, <1>5, ClientMoves, Zenon DEF ClientHonest
<1>6. CASE Step(c, [w EXCEPT !.pc = "ask"])
  <2>1. PICK to : to = [w EXCEPT !.pc = "ask"]
    BY Zenon
  <2>2. to \in ClientState /\ to.pc = "ask"
    BY <1>1, <2>1, Zenon DEF ClientState
  <2> QED
    BY <1>6, <2>1, <2>2, Zenon DEF ClientHonest
<1>7. CASE Step(c, [w EXCEPT !.seen = TRUE]) /\ w.pc = "poll"
  <2>1. PICK to : to = [w EXCEPT !.seen = TRUE]
    BY Zenon
  <2>2. to \in ClientState /\ to.pc = "poll"
    BY <1>1, <1>7, <2>1, Zenon DEF ClientState
  <2> QED
    BY <1>7, <2>1, <2>2, Zenon DEF ClientHonest
<1>8. CASE /\ Step(c, Ends(w, service.operation.success))
           /\ service.operation.id = w.id
  <2>1. service.operation.success \in BOOLEAN
    BY <1>1, Zenon DEF Operation
  <2>2. PICK to : to = Ends(w, service.operation.success)
    OBVIOUS
  <2>3. to \in ClientState /\ to.pc = "done" /\ to.id = w.id
        /\ to.answer = service.operation.success
    BY <1>1, <2>1, <2>2, ClientMoves, Zenon
  <2>4. to.answer => to.id \in btTale.won
    BY <1>1, <1>8, <2>3, Zenon DEF ServiceOwned
  <2> QED
    BY <1>8, <2>2, <2>3, <2>4, Zenon DEF ClientHonest
<1>9. CASE Step(c, NoCall)
  <2>1. NoCall \in ClientState /\ NoCall.pc = "idle"
    BY <1>1, ClientMoves, Zenon
  <2> QED
    BY <1>9, <2>1, Zenon DEF ClientHonest
<1> QED
  BY <1>3, <1>5, <1>6, <1>7, <1>8, <1>9, Zenon

\* The user approves the code or not.
LEMMA AnswerKeeps ==
  ASSUME BtInv, NEW c \in Callers, AgentAnswers(c)
  PROVE  BtInv'
<1> DEFINE w == clients[c]
<1>1. /\ w \in ClientState /\ w.id \in Nat /\ service \in ServiceState /\ btTale \in BtTale
      /\ btTale.told \subseteq btTale.approved /\ btTale.approved \in SUBSET Nat
      /\ ServiceOwned(service, btTale.won)
  BY Zenon DEF BtInv, ConfirmsWhatWasShown, ClientState, BtTale
<1>2. PICK yes \in BOOLEAN :
        /\ Step(c, [w EXCEPT !.pc = "confirm", !.answer = yes])
        /\ btTale' = [btTale EXCEPT !.approved = IF yes THEN @ \cup {w.id} ELSE @]
  BY Zenon DEF AgentAnswers
<1>3. UNCHANGED service
  BY Zenon DEF AgentAnswers, hostVars
<1> HIDE DEF w
<1> DEFINE a == IF yes THEN btTale.approved \cup {w.id} ELSE btTale.approved
<1>4. a \in SUBSET Nat /\ btTale.approved \subseteq a /\ (yes => w.id \in a)
  BY <1>1, Zenon
<1>5. btTale' = [btTale EXCEPT !.approved = a]
  BY <1>1, <1>2, Zenon DEF BtTale
<1> HIDE DEF a
<1>6. btTale' \in BtTale /\ btTale'.approved = a /\ btTale'.won = btTale.won
      /\ btTale'.told = btTale.told
  BY <1>1, <1>4, <1>5, Zenon DEF BtTale
<1>7. PICK to : to = [w EXCEPT !.pc = "confirm", !.answer = yes]
  OBVIOUS
<1>8. to \in ClientState /\ to.pc = "confirm" /\ to.answer = yes /\ to.id = w.id
  BY <1>1, <1>7, Zenon DEF ClientState
<1>9. ClientHonest(to, btTale'.approved, btTale'.won)
  BY <1>4, <1>6, <1>8, Zenon DEF ClientHonest
<1> QED
  BY <1>1, <1>2, <1>3, <1>4, <1>6, <1>7, <1>8, <1>9, ClientKeeps, Zenon

\* The answer is told to the service, which takes it for its own pairing only.
LEMMA ConfirmKeeps ==
  ASSUME BtInv, NEW c \in Callers, ClientConfirms(c)
  PROVE  BtInv'
<1> DEFINE w == clients[c]
<1>1. /\ w \in ClientState /\ w.id \in Nat /\ service \in ServiceState /\ btTale \in BtTale
      /\ btTale.told \subseteq btTale.approved /\ btTale.told \in SUBSET Nat
      /\ ServiceOwned(service, btTale.won) /\ service.operation \in Operation
      /\ w.pc = "confirm" /\ (w.answer => w.id \in btTale.approved)
  BY Zenon
  DEF BtInv, ConfirmsWhatWasShown, ClientState, BtTale, ServiceState, ClientConfirms,
     ClientHonest
<1>2. Ends(w, FALSE) \in ClientState /\ Ends(w, FALSE).pc = "done" /\ ~Ends(w, FALSE).answer
  BY <1>1, ClientMoves, Zenon
<1>3. \A a, v : ClientHonest(Ends(w, FALSE), a, v)
  BY <1>2, Zenon DEF ClientHonest
<1>4. CASE Confirms(w.id)
  <2>1. /\ service' = invalidate([service EXCEPT !.operation.ask = "none"])
        /\ btTale' = [btTale EXCEPT !.told =
             IF w.answer THEN @ \cup {service.pairing} ELSE @]
        /\ \/ Step(c, Ends(w, FALSE))
           \/ Step(c, [w EXCEPT !.pc = "poll", !.answer = FALSE])
    BY <1>4, Zenon DEF ClientConfirms
  <2>2. service.pairing = w.id
    BY <1>1, <1>4, Zenon DEF Confirms, ServiceOwned
  <2> HIDE DEF w
  <2> DEFINE o == [service.operation EXCEPT !.ask = "none"]
             t == IF w.answer THEN btTale.told \cup {w.id} ELSE btTale.told
  <2>3. o \in Operation /\ o.id = service.operation.id /\ o.state = service.operation.state
        /\ o.success = service.operation.success
    BY <1>1, Zenon DEF Operation
  <2>4. /\ service' = [[service EXCEPT !.operation = o] EXCEPT !.changing = TRUE]
        /\ btTale' = [btTale EXCEPT !.told = t]
    BY <1>1, <2>1, <2>2, Zenon DEF invalidate, ServiceState, BtTale
  <2>5. t \in SUBSET Nat /\ t \subseteq btTale.approved
    BY <1>1, Zenon
  <2> HIDE DEF o, t
  <2>6. service' \in ServiceState /\ SameOperation(service, service')
    BY <1>1, <2>3, <2>4, Zenon DEF ServiceState, SameOperation
  <2>7. btTale' \in BtTale /\ btTale'.approved = btTale.approved
        /\ btTale'.won = btTale.won /\ btTale'.told = t
    BY <1>1, <2>4, <2>5, Zenon DEF BtTale
  <2>8. ServiceOwned(service', btTale.won)
    BY <1>1, <2>6, SameOwned, Zenon
  <2>9. CASE Step(c, Ends(w, FALSE))
    BY <1>2, <1>3, <2>5, <2>6, <2>7, <2>8, <2>9, ClientKeeps, Zenon
  <2>10. CASE Step(c, [w EXCEPT !.pc = "poll", !.answer = FALSE])
    <3>1. PICK to : to = [w EXCEPT !.pc = "poll", !.answer = FALSE]
      OBVIOUS
    <3>2. to \in ClientState /\ to.pc = "poll"
      BY <1>1, <3>1, Zenon DEF ClientState
    <3>3. ClientHonest(to, btTale'.approved, btTale'.won)
      BY <3>2, Zenon DEF ClientHonest
    <3> QED
      BY <2>5, <2>6, <2>7, <2>8, <2>10, <3>1, <3>2, <3>3, ClientKeeps, Zenon
  <2> QED
    BY <2>1, <2>9, <2>10, Zenon
<1>5. CASE ~Confirms(w.id)
  <2>1. Step(c, Ends(w, FALSE)) /\ UNCHANGED <<service, btTale>>
    BY <1>5, Zenon DEF ClientConfirms
  <2> HIDE DEF w
  <2> QED
    BY <1>1, <1>2, <1>3, <2>1, ClientKeeps, Zenon
<1> QED
  BY <1>4, <1>5, Zenon

\* A method is called, over D-Bus or by the other client.
LEMMA StartKeeps ==
  ASSUME BtInv, NEW verb \in Verbs,
         CliStarts(verb) \/ \E s \in Senders : Method(s, verb)
  PROVE  BtInv'
<1>1. /\ UNCHANGED <<service, btTale>>
      /\ \E c \in Callers, agent \in BOOLEAN :
           \/ Step(c, [NoCall EXCEPT !.pc = "call", !.verb = verb])
           \/ Step(c, [NoCall EXCEPT !.pc = "call", !.verb = verb, !.agent = agent])
  <2>1. CASE CliStarts(verb)
    BY <2>1, Zenon DEF CliStarts, hostVars, Callers
  <2>2. CASE \E s \in Senders : Method(s, verb)
    <3>1. PICK s \in Senders : Method(s, verb)
      BY <2>2, Zenon
    <3>2. (s \in bz.agents \/ bz.default # {}) \in BOOLEAN
      OBVIOUS
    <3> QED
      BY <3>1, <3>2, Zenon DEF Method, hostVars, Callers
  <2> QED
    BY <2>1, <2>2, Zenon
<1>2. PICK c \in Callers, agent \in BOOLEAN :
        \/ Step(c, [NoCall EXCEPT !.pc = "call", !.verb = verb])
        \/ Step(c, [NoCall EXCEPT !.pc = "call", !.verb = verb, !.agent = agent])
  BY <1>1, Zenon
<1>3. PICK to : /\ to \in {[NoCall EXCEPT !.pc = "call", !.verb = verb],
                           [NoCall EXCEPT !.pc = "call", !.verb = verb, !.agent = agent]}
                /\ Step(c, to)
  BY <1>2, Zenon
<1>4. to \in ClientState /\ to.pc = "call"
  <2>1. NoCall \in ClientState
    BY Zenon DEF NoCall, ClientState, Verbs
  <2>2. CASE to = [NoCall EXCEPT !.pc = "call", !.verb = verb]
    BY <2>1, <2>2, Zenon DEF ClientState
  <2>3. CASE to = [NoCall EXCEPT !.pc = "call", !.verb = verb, !.agent = agent]
    BY <2>1, <2>3, Zenon DEF ClientState
  <2> QED
    BY <1>3, <2>2, <2>3, Zenon
<1>5. ClientHonest(to, btTale.approved, btTale.won) /\ btTale.told \subseteq btTale.approved
  BY <1>4, Zenon DEF ClientHonest, BtInv, ConfirmsWhatWasShown
<1>6. service \in ServiceState /\ btTale \in BtTale /\ ServiceOwned(service, btTale.won)
  BY Zenon DEF BtInv
<1> QED
  BY <1>1, <1>2, <1>3, <1>4, <1>5, <1>6, ClientKeeps, Zenon

\* Every other step is of the guest's main loop, of its reader, of the status
\* file or of the driver.
LEMMA OthersKeep ==
  ASSUME BtInv,
         \/ Loop \/ ReaderScanned \/ ReaderDevices \/ ReaderFails \/ Driver \/ Publish
         \/ GoesStale
         \/ \E s \in Senders : \/ StartDiscovery(s) \/ StopDiscovery(s) \/ RegisterAgent(s)
                               \/ DefaultAgent(s) \/ PeerLeaves(s) \/ owner_changed(s)
  PROVE  BtInv'
<1>1. UNCHANGED <<service, clients, btTale>>
  <2>1. CASE Loop
    BY <2>1, Zenon DEF Loop, status_changed, Expiry, read_host, Refresh, Discovery, refresh, Retry,
       Reconcile, ReadFinished, Quit, hostVars
  <2>2. CASE ReaderScanned \/ ReaderDevices \/ ReaderFails \/ Driver \/ Publish \/ GoesStale
    BY <2>2, Zenon
    DEF ReaderScanned, ReaderDevices, ReaderFails, Driver, FifteenSeconds, expire_state,
       Publish, GoesStale, hostVars
  <2>3. CASE \E s \in Senders : \/ StartDiscovery(s) \/ StopDiscovery(s) \/ RegisterAgent(s)
                                \/ DefaultAgent(s) \/ PeerLeaves(s) \/ owner_changed(s)
    BY <2>3, Zenon DEF StartDiscovery, refresh, StopDiscovery, RegisterAgent, DefaultAgent,
       PeerLeaves, owner_changed, hostVars
  <2> QED
    BY <2>1, <2>2, <2>3, Zenon
<1> QED
  BY <1>1, Zenon DEF BtInv, ConfirmsWhatWasShown

\* The invariant holds at first, before any operation.
LEMMA BtStart == BtInit => BtInv
<1> SUFFICES ASSUME BtInit PROVE BtInv
  OBVIOUS
<1>1. /\ service = [operation |-> NoOperation, ids |-> 0, pairing |-> 0, pairOp |-> 0,
                    attempts |-> {}, connecting |-> 0, verb |-> "connect", scan |-> FALSE,
                    changing |-> FALSE, rev |-> 1]
      /\ clients = [c \in Callers |-> NoCall]
      /\ btTale = [needs |-> {}, approved |-> {}, told |-> {}, won |-> {}]
  BY Zenon DEF BtInit, Callers
<1>2. /\ NoOperation \in Operation /\ NoOperation.state = "none" /\ NoOperation.success = FALSE
  BY Zenon DEF NoOperation, Operation
<1>3. NoCall \in ClientState /\ NoCall.pc = "idle"
  BY Zenon DEF NoCall, ClientState, Verbs
<1>4. service \in ServiceState /\ ServiceOwned(service, btTale.won)
  BY <1>1, <1>2, Zenon DEF ServiceState, ServiceOwned, Verbs
<1>5. \A c \in Callers : clients[c] \in ClientState
                          /\ ClientHonest(clients[c], btTale.approved, btTale.won)
  BY <1>1, <1>3, Zenon DEF ClientHonest
<1> QED
  BY <1>1, <1>4, <1>5, Zenon DEF BtInv, BtTale, ConfirmsWhatWasShown

\* Every step keeps it.
LEMMA BtKept == BtInv /\ [BtNext]_btVars => BtInv'
<1> SUFFICES ASSUME BtInv, [BtNext]_btVars PROVE BtInv'
  OBVIOUS
<1>1. CASE Host
  BY <1>1, QuietHost, ConnectionEnds, AttemptAsks, AttemptEnded, Zenon DEF Host, Attempts
<1>2. CASE Loop \/ ReaderFails \/ Driver \/ Publish \/ GoesStale
  BY <1>2, OthersKeep, Zenon
<1>3. CASE Bus
  BY <1>3, OthersKeep, StartKeeps, Zenon DEF Bus, Verbs
<1>4. CASE Read
  BY <1>4, QuietHost, OthersKeep, Zenon DEF Read
<1>5. CASE \E v \in {"connect", "disconnect", "pair"} : CliStarts(v)
  BY <1>5, StartKeeps, Zenon DEF Verbs
<1>6. CASE \E c \in {"bluez", "cli"} : Turn(c)
  BY <1>6, CallsKeep, ClientWaits, AnswerKeeps, ConfirmKeeps, Zenon DEF Turn, Callers
<1>7. CASE UNCHANGED btVars
  BY <1>7, Zenon DEF btVars, BtInv, ConfirmsWhatWasShown
<1> QED
  BY <1>1, <1>2, <1>3, <1>4, <1>5, <1>6, <1>7, Zenon DEF BtNext

\* Whatever the D-Bus clients, the budgets and the order of requests, polls,
\* answers, callbacks, lost replies and deadlines: an operation of the Mac's
\* BluetoothService has one party that ends it, a pairing is confirmed only by
\* the approval of its own code, and success is reported only of what was done.
THEOREM OperationsStayApart == BtSpec => []OperationsApart
BY BtStart, BtKept, BtApart, PTL DEF BtSpec
=============================================================================
