--------------------------- MODULE Devices_proofs ---------------------------
(***************************************************************************)
(* Proofs about devices of the guest: Wi-Fi scans read in pages, the       *)
(* display helper, the battery, and the volume of the audio devices.       *)
(***************************************************************************)
EXTENDS ScanPages, Sidecar, Battery, Audio, TLAPS, FiniteSetTheorems

-----------------------------------------------------------------------------
(* Numbers and sequences *)

\* A set of naturals that is not empty has a least element.
LEMMA LeastNat ==
  ASSUME NEW T, T \subseteq Nat, T # {}
  PROVE  \E s \in T : \A t \in T : s <= t
<1> DEFINE R == OpToRel(<, Nat)
<1>1. IsWellFoundedOn(R, Nat)
  BY NatLessThanWellFounded, Zenon
<1>2. PICK s \in T : \A t \in T : ~ (<<t, s>> \in R)
  <2> HIDE DEF R
  <2> QED
    BY <1>1, WFMin, Zenon
<1>3. ASSUME NEW t \in T PROVE s <= t
  <2>1. ~ (<<t, s>> \in {ss \in Nat \X Nat : ss[1] < ss[2]})
    BY <1>2, Zenon DEF OpToRel
  <2> QED
    BY <2>1
<1> QED
  BY <1>2, <1>3, Zenon

\* The sequence s followed by t.
LEMMA Joined ==
  ASSUME NEW S, NEW s \in Seq(S), NEW t \in Seq(S)
  PROVE  /\ s \o t \in Seq(S) /\ Len(s \o t) = Len(s) + Len(t)
         /\ \A i \in 1..Len(s) + Len(t) :
              (s \o t)[i] = IF i <= Len(s) THEN s[i] ELSE t[i - Len(s)]
OBVIOUS

-----------------------------------------------------------------------------
(* Audio: whose level reaches the Mac.  The graph of the bridge follows     *)
(* PipeWire through the events on the way; the level the bridge holds for   *)
(* synchronised is that of every state of the node that no user has set.    *)

NodeSet == [level : Int, unity : BOOLEAN, by : {"session", "bridge", "user"}, id : Nat]
EventSet ==
  [kind : {"default"}] \cup [kind : {"gone"}, device : AudioDevices]
    \cup [kind : {"node"}, device : AudioDevices, node : NodeSet]

IsNodes(f) == DOMAIN f \subseteq AudioDevices /\ \A d \in DOMAIN f : f[d] \in NodeSet
Numbered(f, ids) == \A d \in DOMAIN f : f[d].id <= ids[d]

PipeType(p) ==
  /\ DOMAIN p = {"nodes", "default", "setting", "events", "dead", "ids"}
  /\ p.ids \in [AudioDevices -> Nat] /\ p.events \in Seq(EventSet)
  /\ IsNodes(p.nodes) /\ Numbered(p.nodes, p.ids)
  /\ \A i \in DOMAIN p.events :
       p.events[i].kind = "node" => p.events[i].node.id <= p.ids[p.events[i].device]

\* An event about the node of d; the last one on the way.
Concerns(e, d) == e.kind # "default" /\ e.device = d
LastOf(s, d, i) ==
  /\ i \in DOMAIN s /\ Concerns(s[i], d)
  /\ \A j \in DOMAIN s : j > i => ~Concerns(s[j], d)

\* The nodes of the graph g, brought up to date by the events, are PipeWire's.
Mirrored(p, g, d) ==
  /\ (\A i \in DOMAIN p.events : ~Concerns(p.events[i], d)) =>
       /\ d \in DOMAIN g <=> d \in DOMAIN p.nodes
       /\ d \in DOMAIN g => g[d] = p.nodes[d]
  /\ \A i \in DOMAIN p.events : LastOf(p.events, d, i) =>
       /\ p.events[i].kind = "gone" => d \notin DOMAIN p.nodes
       /\ p.events[i].kind = "node" =>
            d \in DOMAIN p.nodes /\ p.nodes[d] = p.events[i].node
Mirror(p, g) == \A d \in AudioDevices : Mirrored(p, g, d)

\* What PipeWire does on its own: a node's state stays, is a user's, or is that
\* of a new node.
Gentle(p, q) ==
  /\ \A d \in AudioDevices : p.ids[d] <= q.ids[d]
  /\ \A d \in DOMAIN q.nodes :
       \/ d \in DOMAIN p.nodes /\ q.nodes[d] = p.nodes[d]
       \/ q.nodes[d].by = "user"
       \/ q.nodes[d].id > p.ids[d]

Piped(p, g) == PipeType(p) /\ Mirror(p, g)

\* The list of a finite set that StopNodes picks has every element of it.
Listing(S) ==
  CHOOSE f \in [1..Cardinality(S) -> S] : \A i, j \in DOMAIN f : i # j => f[i] # f[j]

\* It is one.
LEMMA Listed ==
  ASSUME NEW S, IsFiniteSet(S), NEW q, q = Listing(S)
  PROVE  /\ Cardinality(S) \in Nat /\ q \in [1..Cardinality(S) -> S]
         /\ \A x \in S : \E i \in 1..Cardinality(S) : q[i] = x
<1> DEFINE n == Cardinality(S)
           OneToOne(f) == \A i, j \in DOMAIN f : i # j => f[i] # f[j]
<1>1. n \in Nat /\ ExistsBijection(1..n, S)
  BY FS_CardinalityType, Zenon
<1>2. PICK f : f \in Injection(1..n, S)
  BY <1>1, Zenon DEF ExistsBijection, Bijection
<1>3. f \in [1..n -> S] /\ OneToOne(f)
  BY <1>2, Zenon DEF Injection, IsInjective
<1>4. q \in [1..n -> S] /\ OneToOne(q)
  <2>1. q = CHOOSE h \in [1..n -> S] : OneToOne(h)
    BY Zenon DEF Listing
  <2> HIDE DEF n, OneToOne
  <2> QED
    BY <1>3, <2>1, Zenon
<1>5. q \in Injection(1..n, S)
  BY <1>4, Zenon DEF Injection, IsInjective
<1>6. Cardinality(1..n) = n
  BY <1>1, FS_Interval
<1>7. q \in Surjection(1..n, S)
  BY <1>5, <1>6, FS_Injection, Zenon
<1> QED
  BY <1>1, <1>7, Zenon DEF Surjection

\* A node that is written has its event on the way.
LEMMA ShowsPiped ==
  ASSUME NEW p, NEW g, Piped(p, g), NEW d \in DOMAIN p.nodes,
         NEW n \in NodeSet, n.id <= p.ids[d], NEW q, q = Shows(p, d, n)
  PROVE  /\ Piped(q, g) /\ q.ids = p.ids /\ DOMAIN q.nodes = DOMAIN p.nodes
         /\ \A x \in DOMAIN p.nodes \ {d} : q.nodes[x] = p.nodes[x]
         /\ q.nodes[d] \in {p.nodes[d], n} /\ q.nodes[d].level = n.level
<1>1. CASE q = p
  BY <1>1 DEF Shows
<1>2. CASE q # p
  <2> DEFINE e == [kind |-> "node", device |-> d, node |-> n]
  <2>1. q = [p EXCEPT !.nodes[d] = n, !.events = Append(@, e)]
    BY <1>2, Zenon DEF Shows
  <2>2. /\ p.events \in Seq(EventSet) /\ d \in AudioDevices /\ e \in EventSet
        /\ e.kind = "node" /\ e.device = d /\ e.node = n
        /\ p.ids \in [AudioDevices -> Nat]
    BY Zenon DEF Piped, PipeType, IsNodes, EventSet
  <2> HIDE DEF e
  <2>3. /\ DOMAIN q = DOMAIN p /\ q.ids = p.ids /\ DOMAIN q.nodes = DOMAIN p.nodes
        /\ q.events = Append(p.events, e) /\ q.nodes[d] = n
        /\ \A x \in DOMAIN p.nodes \ {d} : q.nodes[x] = p.nodes[x]
    BY <2>1 DEF Piped, PipeType
  <2>4. /\ q.events \in Seq(EventSet) /\ DOMAIN q.events = 1..(Len(p.events) + 1)
        /\ DOMAIN p.events = 1..Len(p.events) /\ Len(p.events) \in Nat
        /\ q.events[Len(p.events) + 1] = e
        /\ \A i \in DOMAIN p.events : q.events[i] = p.events[i]
    BY <2>2, <2>3
  <2>5. PipeType(q)
    <3>1. IsNodes(q.nodes) /\ Numbered(q.nodes, q.ids)
      BY <2>3, Zenon DEF Piped, PipeType, IsNodes, Numbered
    <3>2. \A i \in DOMAIN q.events : q.events[i].kind = "node" =>
             q.events[i].node.id <= q.ids[q.events[i].device]
      BY <2>2, <2>3 DEF Piped, PipeType
    <3> QED
      BY <2>3, <2>4, <3>1, <3>2, Zenon DEF Piped, PipeType
  <2>6. ASSUME NEW x \in AudioDevices PROVE Mirrored(q, g, x)
    <3>0. Mirrored(p, g, x)
      BY Zenon DEF Piped, Mirror
    <3>1. CASE x = d
      <4>1. \A i \in DOMAIN q.events : LastOf(q.events, x, i) => i = Len(p.events) + 1
        BY <2>2, <2>4, <3>1, SMTT(30) DEF LastOf, Concerns
      <4>2. Concerns(q.events[Len(p.events) + 1], x)
        BY <2>2, <2>4, <3>1, Zenon DEF Concerns
      <4> QED
        BY <2>2, <2>3, <2>4, <3>1, <4>1, <4>2, SMTT(30) DEF Mirrored
    <3>2. CASE x # d
      <4>1. ~Concerns(e, x)
        BY <2>2, <3>2, Zenon DEF Concerns
      <4>2. \A i \in DOMAIN q.events : LastOf(q.events, x, i) =>
              i \in DOMAIN p.events /\ LastOf(p.events, x, i)
        BY <2>4, <4>1 DEF LastOf
      <4>3. (\A i \in DOMAIN q.events : ~Concerns(q.events[i], x)) =>
              \A i \in DOMAIN p.events : ~Concerns(p.events[i], x)
        BY <2>4
      <4>4. x \in DOMAIN q.nodes <=> x \in DOMAIN p.nodes
        BY <2>3, Zenon
      <4>5. x \in DOMAIN p.nodes => q.nodes[x] = p.nodes[x]
        BY <2>3, <3>2, Zenon
      <4> QED
        BY <2>4, <3>0, <4>2, <4>3, <4>4, <4>5, Zenon DEF Mirrored
    <3> QED
      BY <3>1, <3>2, Zenon
  <2> QED
    BY <2>3, <2>5, <2>6, Zenon DEF Piped, Mirror
<1> QED
  BY <1>1, <1>2, Zenon

\* The nodes of ds go, each with its event.
LEMMA StopPiped ==
  ASSUME NEW p, NEW g, Piped(p, g), NEW ds, NEW q, q = StopNodes(p, ds)
  PROVE  /\ Piped(q, g) /\ q.ids = p.ids /\ DOMAIN q.nodes = DOMAIN p.nodes \ ds
         /\ \A x \in DOMAIN q.nodes : q.nodes[x] = p.nodes[x]
<1> DEFINE there == ds \cap DOMAIN p.nodes
<1>1. there \subseteq AudioDevices /\ IsFiniteSet(there)
  BY AudioAssumption, FS_Subset, Zenon DEF Piped, PipeType, IsNodes
<1>2. PICK gone : gone = Listing(there)
  OBVIOUS
<1> DEFINE k == Cardinality(there)
           s == [i \in DOMAIN gone |-> [kind |-> "gone", device |-> gone[i]]]
<1>3. /\ k \in Nat /\ gone \in [1..k -> there]
      /\ \A x \in there : \E i \in 1..k : gone[i] = x
  <2> HIDE DEF there
  <2> QED
    BY <1>1, <1>2, Listed
<1>4. q = [p EXCEPT !.nodes = [d \in DOMAIN @ \ ds |-> @[d]], !.dead = @ \ ds,
                    !.events = @ \o s]
  BY <1>2, Zenon DEF StopNodes, Listing
<1>5. /\ s \in Seq(EventSet) /\ Len(s) = k /\ DOMAIN s = 1..k
      /\ \A i \in 1..k : s[i].kind = "gone" /\ s[i].device = gone[i] /\ gone[i] \in there
  <2>1. \A i \in 1..k : [kind |-> "gone", device |-> gone[i]] \in EventSet /\ gone[i] \in there
    BY <1>1, <1>3, Zenon DEF EventSet
  <2>2. DOMAIN gone = 1..k /\ DOMAIN s = 1..k
    BY <1>3, Zenon
  <2>3. s \in [1..k -> EventSet]
    BY <2>1, <2>2, Zenon
  <2>4. s \in Seq(EventSet) /\ Len(s) = k
    <3> HIDE DEF s, k
    <3> QED
      BY <1>3, <2>3
  <2> QED
    BY <2>1, <2>2, <2>4, Zenon
<1> HIDE DEF s, k
<1>6. /\ DOMAIN q = DOMAIN p /\ q.ids = p.ids /\ DOMAIN q.nodes = DOMAIN p.nodes \ ds
      /\ q.events = p.events \o s /\ \A x \in DOMAIN q.nodes : q.nodes[x] = p.nodes[x]
  BY <1>4 DEF Piped, PipeType
<1> DEFINE m == Len(p.events)
<1>7. /\ q.events \in Seq(EventSet) /\ m \in Nat
      /\ DOMAIN p.events = 1..m /\ DOMAIN q.events = 1..(m + k)
      /\ \A i \in 1..m : q.events[i] = p.events[i]
      /\ \A i \in (m + 1)..(m + k) : q.events[i] = s[i - m]
  <2>1. p.events \in Seq(EventSet)
    BY Zenon DEF Piped, PipeType
  <2>2. m \in Nat /\ DOMAIN p.events = 1..m
    OBVIOUS
  <2>3. /\ Len(q.events) = m + k /\ q.events \in Seq(EventSet)
        /\ \A i \in 1..(m + k) :
             q.events[i] = IF i <= m THEN p.events[i] ELSE s[i - m]
    <3>0. s \in Seq(EventSet)
      BY <1>5, Zenon
    <3>1. /\ p.events \o s \in Seq(EventSet)
          /\ Len(p.events \o s) = Len(p.events) + Len(s)
          /\ \A i \in 1..(Len(p.events) + Len(s)) :
               (p.events \o s)[i] = IF i <= Len(p.events) THEN p.events[i]
                                    ELSE s[i - Len(p.events)]
      BY <2>1, <3>0, Joined, Zenon
    <3> QED
      BY <1>5, <1>6, <3>1
  <2>4. DOMAIN q.events = 1..(m + k)
    BY <2>3
  <2> HIDE DEF m
  <2> QED
    BY <1>3, <2>2, <2>3, <2>4
<1> HIDE DEF m
<1>8. PipeType(q)
  <2>1. IsNodes(q.nodes) /\ Numbered(q.nodes, q.ids)
    BY <1>6, Zenon DEF Piped, PipeType, IsNodes, Numbered
  <2>2. \A i \in DOMAIN q.events : q.events[i].kind = "node" =>
           q.events[i].node.id <= q.ids[q.events[i].device]
    <3> TAKE i \in DOMAIN q.events
    <3>1. CASE i \in 1..m
      BY <1>6, <1>7, <3>1, Zenon DEF Piped, PipeType
    <3>2. CASE i \notin 1..m
      <4>1. i \in (m + 1)..(m + k) /\ i - m \in 1..k
        BY <1>3, <1>7, <3>2
      <4> QED
        BY <1>5, <1>7, <4>1, Zenon
    <3> QED
      BY <3>1, <3>2, Zenon
  <2> QED
    BY <1>6, <1>7, <2>1, <2>2, Zenon DEF Piped, PipeType
<1>9. ASSUME NEW x \in AudioDevices PROVE Mirrored(q, g, x)
  <2>0. Mirrored(p, g, x)
    BY Zenon DEF Piped, Mirror
  <2>a. \A i \in (m + 1)..(m + k) : q.events[i].kind = "gone" /\ q.events[i].device \in there
    <3> TAKE i \in (m + 1)..(m + k)
    <3>1. i - m \in 1..k
      BY <1>3, <1>7
    <3> QED
      BY <1>5, <1>7, <3>1
  <2>1. CASE x \in there
    <3>1. PICK i \in 1..k : gone[i] = x
      BY <1>3, <2>1, Zenon
    <3>2. m + i \in (m + 1)..(m + k) /\ (m + i) - m = i
      BY <1>3, <1>7
    <3>3. Concerns(q.events[m + i], x)
      BY <1>5, <1>7, <3>1, <3>2 DEF Concerns
    <3>4. \A j \in DOMAIN q.events : LastOf(q.events, x, j) => j \in (m + 1)..(m + k)
      <4> SUFFICES ASSUME NEW j \in DOMAIN q.events, LastOf(q.events, x, j)
                   PROVE  j \in (m + 1)..(m + k)
        OBVIOUS
      <4>1. m + i \in DOMAIN q.events
        BY <1>7, <3>2
      <4>2. ~(m + i > j)
        BY <3>3, <4>1, Zenon DEF LastOf
      <4> QED
        BY <1>7, <4>2
    <3>5. m + i \in DOMAIN q.events /\ x \notin DOMAIN q.nodes
      BY <1>3, <1>6, <1>7, <2>1
    <3> QED
      BY <2>a, <3>3, <3>4, <3>5, Zenon DEF Mirrored
  <2>2. CASE x \notin there
    <3>1. \A i \in (m + 1)..(m + k) : ~Concerns(q.events[i], x)
      BY <2>a, <2>2, Zenon DEF Concerns
    <3>2. \A i \in DOMAIN q.events : LastOf(q.events, x, i) =>
            i \in DOMAIN p.events /\ LastOf(p.events, x, i)
      <4> TAKE i \in DOMAIN q.events
      <4>1. i \in 1..m \/ i \in (m + 1)..(m + k)
        BY <1>7
      <4>2. \A j \in 1..m : j \in DOMAIN q.events
        BY <1>3, <1>7
      <4> QED
        BY <1>7, <3>1, <4>1, <4>2, Zenon DEF LastOf
    <3>3. (\A i \in DOMAIN q.events : ~Concerns(q.events[i], x)) =>
            \A i \in DOMAIN p.events : ~Concerns(p.events[i], x)
      <4>1. \A j \in 1..m : j \in DOMAIN q.events
        BY <1>3, <1>7
      <4> QED
        BY <1>7, <4>1, Zenon
    <3>4. x \in DOMAIN q.nodes <=> x \in DOMAIN p.nodes
      BY <1>6, <2>2, Zenon
    <3>5. x \in DOMAIN p.nodes => q.nodes[x] = p.nodes[x]
      BY <1>6, <3>4, Zenon
    <3>6. \A i \in DOMAIN p.events : q.events[i] = p.events[i]
      BY <1>7, Zenon
    <3> QED
      BY <2>0, <3>2, <3>3, <3>4, <3>5, <3>6, Zenon DEF Mirrored
  <2> QED
    BY <2>1, <2>2, Zenon
<1> QED
  BY <1>6, <1>8, <1>9, Zenon DEF Piped, Mirror

\* The restored gain of a node is written like any level.
LEMMA FallbackPiped ==
  ASSUME NEW p, Piped(p, graph.nodes), IsNodes(graph.nodes),
         Numbered(graph.nodes, p.ids), NEW d, NEW q, q = fallback(p, d)
  PROVE  Piped(q, graph.nodes) /\ q.ids = p.ids
<1>1. CASE q = p
  BY <1>1, Zenon
<1>2. CASE q # p
  <2>1. /\ d \in DOMAIN graph.nodes /\ d \in DOMAIN p.nodes
        /\ q = Shows(p, d, [graph.nodes[d] EXCEPT !.unity = FALSE])
    BY <1>2, Zenon DEF fallback
  <2>2. PICK n : n = [graph.nodes[d] EXCEPT !.unity = FALSE]
    BY Zenon
  <2>3. n \in NodeSet /\ n.id <= p.ids[d]
    BY <2>1, <2>2, Zenon DEF IsNodes, Numbered, NodeSet
  <2>4. q = Shows(p, d, n)
    BY <2>1, <2>2, Zenon
  <2> QED
    BY <2>1, <2>3, <2>4, ShowsPiped
<1> QED
  BY <1>2, Zenon

\* So it is by the exception handler.
LEMMA LocalPiped ==
  ASSUME NEW p, Piped(p, graph.nodes), IsNodes(graph.nodes),
         Numbered(graph.nodes, p.ids), NEW q, q = Local(p)
  PROVE  Piped(q, graph.nodes) /\ q.ids = p.ids
<1>1. q = p \/ \E d : q = fallback(p, d)
  BY Zenon DEF Local
<1> QED
  BY <1>1, FallbackPiped, Zenon

-----------------------------------------------------------------------------
(* The invariant *)

\* A description of the Mac that the bridge may act on.
Known(s) == s.devices \subseteq AudioDevices /\ s.level \in [AudioDevices -> Int]
Reconciling == {"default", "volume"}

BridgeFields == {"at", "timers", "dirty", "polling", "active", "state", "original",
                 "children", "observed", "pending"}

\* The fields of the parties, as far as the argument needs them.
Shape ==
  /\ DOMAIN graph = {"ready", "nodes", "default", "dirty"}
  /\ DOMAIN bridge = BridgeFields
  /\ DOMAIN master = {"key", "host", "seen", "pending"}
  /\ DOMAIN mac = {"devices", "default", "level", "active", "news", "feed"}
  /\ DOMAIN tale = {"overtaken", "echo"} /\ tale.overtaken \in Nat
  /\ mac.devices \subseteq AudioDevices /\ mac.level \in [AudioDevices -> Int]
  /\ bridge.children \subseteq AudioDevices
  /\ bridge.at \in Reconciling \/ bridge.state # Nothing => Known(bridge.state)

\* What no user has set is at the level the bridge takes for synchronised.
Synchronised(f) ==
  \A d \in DOMAIN f :
    master.key = <<d, f[d].id>> /\ f[d].by # "user" => f[d].level = master.seen

\* A node the graph knows has been changed since by users only.
Current ==
  \A d \in DOMAIN graph.nodes \cap DOMAIN pw.nodes :
    pw.nodes[d].id = graph.nodes[d].id =>
      pw.nodes[d] = graph.nodes[d] \/ pw.nodes[d].by = "user"

Honest ==
  /\ ~tale.echo /\ Synchronised(pw.nodes)
  /\ bridge.at \in Reconciling => Current /\ Synchronised(graph.nodes)

Numbers ==
  /\ IsNodes(graph.nodes) /\ Numbered(graph.nodes, pw.ids)
  /\ \A d \in AudioDevices, i \in Nat : master.key = <<d, i>> => i <= pw.ids[d]

AudInv == Shape /\ Numbers /\ Piped(pw, graph.nodes) /\ (tale.overtaken = 0 => Honest)

-----------------------------------------------------------------------------
(* The steps *)

SameTale ==
  /\ tale'.overtaken = 0 => tale.overtaken = 0
  /\ ~tale.echo => ~tale'.echo

QuietStep ==
  /\ graph'.nodes = graph.nodes /\ Piped(pw', graph.nodes) /\ Gentle(pw, pw')
  /\ master'.key = master.key /\ master'.seen = master.seen /\ SameTale
  /\ bridge'.at \in Reconciling => bridge.at \in Reconciling

\* The bridge gives the level up.
ResetStep ==
  /\ graph'.nodes = graph.nodes /\ Piped(pw', graph.nodes) /\ pw'.ids = pw.ids
  /\ master' = NoMaster /\ bridge'.at = "idle"
  /\ tale'.overtaken = 0 => tale.overtaken = 0
  /\ tale.overtaken = 0 /\ ~tale.echo => ~tale'.echo

\* The graph hears of a change.
HearsStep ==
  /\ Piped(pw', graph'.nodes) /\ IsNodes(graph'.nodes) /\ Numbered(graph'.nodes, pw.ids)
  /\ pw'.nodes = pw.nodes /\ pw'.ids = pw.ids /\ UNCHANGED <<master, tale>>
  /\ bridge'.at = "idle"

\* A reconciliation starts, with all that PipeWire has told or late.
ReadsStep ==
  /\ graph'.nodes = graph.nodes /\ UNCHANGED <<pw, master>> /\ bridge'.at = "default"
  /\ SameTale /\ (tale'.overtaken = 0 => pw.events = <<>>)

\* The bridge takes the level of d for synchronised.
SetsStep ==
  /\ graph' = graph /\ Piped(pw', graph.nodes) /\ pw'.ids = pw.ids
  /\ bridge.at = "volume" /\ bridge'.at = "idle"
  /\ tale'.overtaken = tale.overtaken /\ (tale.overtaken = 0 /\ ~tale.echo => ~tale'.echo)
  /\ \E d \in DOMAIN graph.nodes :
       /\ master'.key = <<d, graph.nodes[d].id>>
       /\ d \in DOMAIN pw'.nodes =>
            \/ pw'.nodes[d].level = master'.seen
            \/ /\ graph.nodes[d].level = master'.seen
               /\ d \in DOMAIN pw.nodes /\ pw'.nodes[d] = pw.nodes[d]

\* A key names one node.
LEMMA KeyNames ==
  /\ \A d, i : d \in AudioDevices /\ i \in Nat => Nothing # <<d, i>>
  /\ \A d, e, i, j : <<d, i>> = <<e, j>> => d = e /\ i = j
  BY AudioAssumption

\* Each kind of step keeps the invariant.
LEMMA QuietKeeps ==
  ASSUME AudInv, QuietStep, Shape'
  PROVE  AudInv'
<1>0. /\ PipeType(pw) /\ PipeType(pw') /\ Numbers /\ Piped(pw', graph'.nodes)
      /\ \A d \in AudioDevices : pw.ids[d] \in Nat /\ pw'.ids[d] \in Nat
                                 /\ pw.ids[d] <= pw'.ids[d]
  BY Zenon DEF AudInv, Piped, QuietStep, PipeType, Gentle
<1>1. Numbers'
  <2>1. IsNodes(graph'.nodes)
    BY Zenon DEF QuietStep, AudInv, Numbers
  <2>2. Numbered(graph'.nodes, pw'.ids)
    BY <1>0 DEF QuietStep, Numbers, Numbered, IsNodes, NodeSet
  <2>3. \A d \in AudioDevices, i \in Nat : master'.key = <<d, i>> => i <= pw'.ids[d]
    BY <1>0 DEF QuietStep, Numbers
  <2> QED
    BY <2>1, <2>2, <2>3, Zenon DEF Numbers
<1>2. ASSUME tale'.overtaken = 0 PROVE Honest'
  <2>1. Honest /\ tale.overtaken = 0
    BY <1>2, Zenon DEF QuietStep, SameTale, AudInv
  <2>2. ~tale'.echo
    BY <2>1, Zenon DEF QuietStep, SameTale, Honest
  <2>3. \A d \in DOMAIN pw'.nodes :
          \/ d \in DOMAIN pw.nodes /\ pw'.nodes[d] = pw.nodes[d]
          \/ pw'.nodes[d].by = "user"
          \/ /\ pw'.nodes[d].id > pw.ids[d]
             /\ d \in AudioDevices /\ pw'.nodes[d].id \in Nat
    BY <1>0, Zenon DEF QuietStep, Gentle, PipeType, IsNodes, NodeSet
  <2>4. Synchronised(pw.nodes)'
    <3> SUFFICES ASSUME NEW d \in DOMAIN pw'.nodes, master'.key = <<d, pw'.nodes[d].id>>,
                        pw'.nodes[d].by # "user"
                 PROVE  pw'.nodes[d].level = master'.seen
      BY Zenon DEF Synchronised
    <3>1. CASE d \in DOMAIN pw.nodes /\ pw'.nodes[d] = pw.nodes[d]
      BY <2>1, <3>1, Zenon DEF Honest, Synchronised, QuietStep
    <3>2. CASE /\ pw'.nodes[d].id > pw.ids[d]
               /\ d \in AudioDevices /\ pw'.nodes[d].id \in Nat
      <4>1. pw'.nodes[d].id <= pw.ids[d]
        BY <1>0, <3>2, Zenon DEF Numbers, QuietStep
      <4> QED
        BY <1>0, <3>2, <4>1
    <3> QED
      BY <2>3, <3>1, <3>2, Zenon
  <2>5. ASSUME bridge'.at \in Reconciling PROVE Current' /\ Synchronised(graph.nodes)'
    <3>1. Current /\ Synchronised(graph.nodes)
      BY <2>1, <2>5, Zenon DEF QuietStep, Honest
    <3>2. Synchronised(graph.nodes)'
      BY <3>1, Zenon DEF QuietStep, Synchronised
    <3>3. \A d \in DOMAIN graph.nodes :
             d \in AudioDevices /\ graph.nodes[d].id \in Nat /\ graph.nodes[d].id <= pw.ids[d]
      BY <1>0, Zenon DEF Numbers, IsNodes, Numbered, NodeSet
    <3>4. ASSUME NEW d \in DOMAIN graph.nodes, d \in DOMAIN pw'.nodes,
                 pw'.nodes[d].id = graph.nodes[d].id
          PROVE  pw'.nodes[d] = graph.nodes[d] \/ pw'.nodes[d].by = "user"
      <4>1. ~(pw'.nodes[d].id > pw.ids[d])
        BY <1>0, <3>3, <3>4
      <4> QED
        BY <2>3, <3>1, <3>4, <4>1, Zenon DEF Current
    <3> QED
      BY <3>2, <3>4, Zenon DEF Current, QuietStep
  <2> QED
    BY <2>2, <2>4, <2>5, Zenon DEF Honest
<1> QED
  BY <1>0, <1>1, <1>2, Zenon DEF AudInv

\* Without a key nothing is taken for synchronised.
LEMMA ResetKeeps ==
  ASSUME AudInv, ResetStep, Shape'
  PROVE  AudInv'
<1>0. master'.key = Nothing /\ Numbers /\ PipeType(pw')
  BY Zenon DEF ResetStep, NoMaster, AudInv, Piped
<1>1. Numbers'
  BY <1>0, KeyNames, Zenon DEF Numbers, ResetStep
<1>2. ASSUME tale'.overtaken = 0 PROVE Honest'
  <2>1. ~tale'.echo
    BY <1>2, Zenon DEF ResetStep, AudInv, Honest
  <2>2. \A d \in DOMAIN pw'.nodes : master'.key # <<d, pw'.nodes[d].id>>
    BY <1>0, KeyNames, Zenon DEF PipeType, IsNodes, NodeSet
  <2> QED
    BY <2>1, <2>2, Zenon DEF Honest, Synchronised, Reconciling, ResetStep
<1> QED
  BY <1>1, <1>2, Zenon DEF AudInv, ResetStep

\* The graph alone moves, between reconciliations.
LEMMA HearsKeeps ==
  ASSUME AudInv, HearsStep, Shape'
  PROVE  AudInv'
<1>1. Numbers'
  BY Zenon DEF AudInv, Numbers, HearsStep
<1>2. tale'.overtaken = 0 => Honest'
  BY Zenon DEF AudInv, HearsStep, Honest, Synchronised, Reconciling
<1> QED
  BY <1>1, <1>2, Zenon DEF AudInv, HearsStep

\* With no event on the way the graph is PipeWire's.
LEMMA ReadsKeeps ==
  ASSUME AudInv, ReadsStep, Shape'
  PROVE  AudInv'
<1>1. Numbers' /\ Piped(pw', graph'.nodes)
  BY Zenon DEF AudInv, Numbers, ReadsStep
<1>2. ASSUME tale'.overtaken = 0 PROVE Honest'
  <2>1. Honest /\ pw.events = <<>>
    BY <1>2, Zenon DEF ReadsStep, SameTale, AudInv
  <2>2. \A d \in DOMAIN graph.nodes : d \in DOMAIN pw.nodes /\ graph.nodes[d] = pw.nodes[d]
    <3> TAKE d \in DOMAIN graph.nodes
    <3>1. d \in AudioDevices /\ Mirrored(pw, graph.nodes, d)
      BY Zenon DEF AudInv, Numbers, IsNodes, Piped, Mirror
    <3>2. \A i \in DOMAIN pw.events : ~Concerns(pw.events[i], d)
      BY <2>1
    <3> QED
      BY <3>1, <3>2, Zenon DEF Mirrored
  <2>3. Current' /\ Synchronised(graph.nodes)' /\ Synchronised(pw.nodes)'
    BY <2>1, <2>2 DEF Current, Synchronised, Honest, ReadsStep
  <2> QED
    BY <2>1, <2>3, Zenon DEF Honest, ReadsStep, SameTale
<1> QED
  BY <1>1, <1>2, Zenon DEF AudInv

\* The level taken for synchronised is that of the graph's node, or written.
LEMMA SetsKeeps ==
  ASSUME AudInv, SetsStep, Shape'
  PROVE  AudInv'
<1>1. PICK d \in DOMAIN graph.nodes :
       /\ master'.key = <<d, graph.nodes[d].id>>
       /\ d \in DOMAIN pw'.nodes =>
            \/ pw'.nodes[d].level = master'.seen
            \/ /\ graph.nodes[d].level = master'.seen
               /\ d \in DOMAIN pw.nodes /\ pw'.nodes[d] = pw.nodes[d]
  BY Zenon DEF SetsStep
<1>2. Numbers'
  <2>1. \A e \in AudioDevices, i \in Nat : master'.key = <<e, i>> => i <= pw'.ids[e]
    BY DEF AudInv, Numbers, Numbered, SetsStep
  <2> QED
    BY <2>1, Zenon DEF AudInv, Numbers, SetsStep
<1>3. ASSUME tale'.overtaken = 0 PROVE Honest'
  <2>1. Honest /\ ~tale'.echo
    BY <1>3, Zenon DEF SetsStep, AudInv, Honest
  <2>2. Current
    BY <2>1, Zenon DEF SetsStep, Honest, Reconciling
  <2>3. ASSUME NEW e \in DOMAIN pw'.nodes, master'.key = <<e, pw'.nodes[e].id>>,
               pw'.nodes[e].by # "user"
        PROVE  pw'.nodes[e].level = master'.seen
    <3>1. e = d /\ pw'.nodes[d].id = graph.nodes[d].id
      BY <1>1, <2>3
    <3> QED
      BY <1>1, <2>2, <2>3 DEF Current
  <2> QED
    BY <2>1, <2>3, Zenon DEF Honest, Synchronised, SetsStep, Reconciling
<1> QED
  BY <1>2, <1>3, Zenon DEF AudInv, SetsStep

\* The bridge goes on as it is, but for timers and flags.
Alike(b, c) ==
  DOMAIN c = BridgeFields /\ c.at = b.at /\ c.children = b.children /\ c.state = b.state

\* Timers are all that the events of the main loop change.
LEMMA TimersAlike ==
  ASSUME NEW b, DOMAIN b = BridgeFields, NEW names
  PROVE  /\ Alike(b, later(b, names)) /\ Alike(b, notify(b)) /\ Alike(b, retry(b))
         /\ Alike(b, refresh_host(b))
<1>1. \A c, x : DOMAIN c = BridgeFields => Alike(c, later(c, x))
  BY Zenon DEF later, Alike, BridgeFields
<1>2. \A c : DOMAIN c = BridgeFields => Alike(c, notify(c))
  BY <1>1, Zenon DEF notify
<1>3. Alike(b, [b EXCEPT !.dirty = TRUE])
  BY Zenon DEF Alike, BridgeFields
<1>4. Alike(b, refresh_host(b))
  BY <1>2, <1>3, Zenon DEF refresh_host, Alike
<1>5. Alike(b, retry(b))
  BY <1>1, Zenon DEF retry, Alike
<1> QED
  BY <1>1, <1>2, <1>4, <1>5, Zenon

\* PipeWire is left alone, and so are the nodes of the graph and the level.
LEMMA StillQuiet ==
  ASSUME AudInv, UNCHANGED <<pw, tale>>, graph'.nodes = graph.nodes,
         master'.key = master.key, master'.seen = master.seen, bridge'.at = bridge.at
  PROVE  QuietStep
<1>1. Gentle(pw, pw')
  BY DEF AudInv, Piped, PipeType, Gentle
<1> QED
  BY <1>1, Zenon DEF AudInv, QuietStep, SameTale

\* The sources and timers that leave PipeWire alone.
LEMMA IdleSteps ==
  ASSUME AudInv,
         \/ StatusRead \/ GraphReady \/ Retries \/ Deadlines
         \/ MacLevel \/ MacDefault \/ MacPlug \/ MacSwitch \/ Feed
  PROVE  Shape' /\ QuietStep
<1>0. Shape /\ DOMAIN bridge = BridgeFields
  BY Zenon DEF AudInv, Shape
<1>s. ASSUME UNCHANGED <<graph, master, tale>>, Alike(bridge, bridge'),
             DOMAIN mac' = DOMAIN mac, mac'.devices \subseteq AudioDevices,
             mac'.level \in [AudioDevices -> Int]
      PROVE  Shape'
  BY <1>0, <1>s, Zenon DEF Shape, Alike
<1>1. CASE StatusRead
  <2>1. Alike(bridge, bridge')
    <3>1. PICK b : b = [bridge EXCEPT !.timers = @ \ {"fallback"}, !.polling = FALSE,
                                      !.active = mac.active]
      OBVIOUS
    <3>2. Alike(bridge, b)
      BY <1>0, <3>1, Zenon DEF Alike, BridgeFields
    <3>3. Alike(bridge, refresh_host(b))
      BY <3>2, TimersAlike, Zenon DEF Alike
    <3>4. Alike(bridge, [later(bridge, {"fallback"}) EXCEPT !.polling = TRUE])
      BY <1>0, TimersAlike DEF Alike, BridgeFields
    <3> QED
      BY <1>1, <3>1, <3>3, <3>4, Zenon DEF StatusRead, read_host
  <2>2. mac' = [mac EXCEPT !.news = FALSE]
    BY <1>1, Zenon DEF StatusRead
  <2>3. Shape'
    BY <1>0, <1>1, <1>s, <2>1, Zenon DEF StatusRead, Shape
  <2> QED
    BY <1>1, <2>1, <2>3, StillQuiet, Zenon DEF StatusRead, Alike
<1>2. CASE GraphReady
  <2>1. Alike(bridge, bridge')
    BY <1>0, <1>2, TimersAlike, Zenon DEF GraphReady
  <2>2. DOMAIN graph' = DOMAIN graph /\ graph'.nodes = graph.nodes
    BY <1>2 DEF GraphReady, Shape
  <2>3. Shape'
    BY <1>0, <1>2, <2>1, Zenon DEF GraphReady, Shape, Alike
  <2> QED
    BY <1>2, <2>1, <2>3, StillQuiet DEF GraphReady, Alike
<1>3. ASSUME NEW t \in {"retry", "fallback", "defaults-deadline", "volume-deadline"},
             Fire(t)
      PROVE  Shape' /\ QuietStep
  <2>0. PICK b : b = [bridge EXCEPT !.timers = @ \ {t}]
    BY Zenon
  <2>1. Alike(bridge, b)
    BY <1>0, <2>0, Zenon DEF Alike, BridgeFields
  <2>2. Alike(bridge, bridge')
    <3>1. Alike(bridge, refresh_host(b)) /\ Alike(bridge, later(refresh_host(b), {"fallback"}))
          /\ Alike(bridge, notify(b))
      BY <2>1, TimersAlike DEF Alike
    <3>2. \A x : Alike(bridge, notify([b EXCEPT !.pending = x]))
      <4> TAKE x
      <4>1. Alike(bridge, [b EXCEPT !.pending = x])
        BY <2>1, Zenon DEF Alike, BridgeFields
      <4> QED
        BY <4>1, TimersAlike, Zenon DEF Alike
    <3> QED
      BY <1>3, <2>0, <3>1, <3>2, Zenon DEF Fire
  <2>3. DOMAIN master' = DOMAIN master /\ master'.key = master.key /\ master'.seen = master.seen
    BY <1>3 DEF Fire, Shape
  <2>4. Shape'
    BY <1>0, <1>3, <2>2, Zenon DEF Fire, Shape, Alike
  <2> QED
    BY <1>3, <2>2, <2>4, StillQuiet DEF Fire, Alike
<1>4. ASSUME NEW m, MacChanges(m), DOMAIN m = DOMAIN mac, m.devices \subseteq AudioDevices,
             m.level \in [AudioDevices -> Int]
      PROVE  Shape' /\ QuietStep
  <2>1. UNCHANGED <<pw, graph, bridge, master, tale>> /\ mac' = [m EXCEPT !.news = TRUE]
    BY <1>4, Zenon DEF MacChanges
  <2>2. DOMAIN mac' = DOMAIN mac /\ mac'.devices = m.devices /\ mac'.level = m.level
    BY <1>4, <2>1 DEF Shape
  <2>3. Alike(bridge, bridge')
    BY <1>0, <2>1, Zenon DEF Alike
  <2>4. Shape'
    BY <1>4, <1>s, <2>1, <2>3
  <2> QED
    BY <2>1, <2>4, StillQuiet, Zenon
<1>5. CASE MacLevel
  <2>1. PICK v \in MacLevels : MacChanges([mac EXCEPT !.level[mac.default] = v])
    BY <1>5, Zenon DEF MacLevel
  <2>2. PICK m : m = [mac EXCEPT !.level[mac.default] = v]
    BY Zenon
  <2>3. /\ DOMAIN m = DOMAIN mac /\ m.devices = mac.devices
        /\ m.level = [mac.level EXCEPT ![mac.default] = v]
    BY <2>2 DEF Shape
  <2>4. m.level \in [AudioDevices -> Int]
    <3>1. v \in Int /\ mac.level \in [AudioDevices -> Int]
      BY <1>0 DEF Shape, MacLevels
    <3>2. \A f, x : f \in [AudioDevices -> Int] => [f EXCEPT ![x] = v] \in [AudioDevices -> Int]
      BY <3>1, Zenon
    <3> QED
      BY <2>3, <3>1, Zenon
  <2> QED
    BY <1>0, <1>4, <2>1, <2>3, <2>4, Zenon DEF Shape
<1>6. CASE MacDefault
  <2>1. PICK d : MacChanges([mac EXCEPT !.default = d])
    BY <1>6, Zenon DEF MacDefault
  <2>2. PICK m : m = [mac EXCEPT !.default = d]
    BY Zenon
  <2>3. DOMAIN m = DOMAIN mac /\ m.devices = mac.devices /\ m.level = mac.level
    BY <2>2 DEF Shape
  <2> QED
    BY <1>0, <1>4, <2>1, Zenon DEF Shape
<1>7. CASE MacPlug
  <2>1. PICK there, x : /\ there \subseteq AudioDevices
                        /\ MacChanges([mac EXCEPT !.devices = there, !.default = x])
    <3>1. PICK d \in AudioDevices :
            LET there == IF d \in mac.devices THEN mac.devices \ {d} ELSE mac.devices \cup {d}
            IN MacChanges([mac EXCEPT !.devices = there,
                 !.default = IF @ \in there THEN @ ELSE CHOOSE x \in there : TRUE])
      BY <1>7, Zenon DEF MacPlug
    <3>2. mac.devices \ {d} \subseteq AudioDevices /\ mac.devices \cup {d} \subseteq AudioDevices
      BY <1>0, Zenon DEF Shape
    <3> QED
      BY <3>1, <3>2, Zenon
  <2>2. PICK m : m = [mac EXCEPT !.devices = there, !.default = x]
    OBVIOUS
  <2>3. DOMAIN m = DOMAIN mac /\ m.devices = there /\ m.level = mac.level
    BY <2>2 DEF Shape
  <2> QED
    BY <1>0, <1>4, <2>1, Zenon DEF Shape
<1>8. CASE MacSwitch
  <2>1. PICK m : m = [mac EXCEPT !.active = ~@]
    BY Zenon
  <2>2. DOMAIN m = DOMAIN mac /\ m.devices = mac.devices /\ m.level = mac.level
    BY <2>1 DEF Shape
  <2> QED
    BY <1>0, <1>4, <1>8, Zenon DEF Shape, MacSwitch
<1>9. CASE Feed
  <2>1. UNCHANGED <<pw, graph, bridge, master, tale>> /\ mac' = [mac EXCEPT !.feed = ~@]
    BY <1>9, Zenon DEF Feed
  <2>2. DOMAIN mac' = DOMAIN mac /\ mac'.devices = mac.devices /\ mac'.level = mac.level
    BY <2>1 DEF Shape
  <2>3. Shape'
    BY <1>0, <2>1, Zenon DEF Alike, Shape
  <2> QED
    BY <2>1, <2>3, StillQuiet, Zenon
<1> QED
  BY <1>1, <1>2, <1>3, <1>5, <1>6, <1>7, <1>8, <1>9, Zenon DEF Retries, Deadlines

\* The graph takes the first of the events.
LEMMA HearsSteps ==
  ASSUME AudInv, GraphEvent
  PROVE  Shape' /\ HearsStep
<1>0. /\ Shape /\ Piped(pw, graph.nodes) /\ IsNodes(graph.nodes)
      /\ Numbered(graph.nodes, pw.ids) /\ PipeType(pw)
  BY Zenon DEF AudInv, Numbers, Piped
<1>1. PICK e : e = Head(pw.events)
  OBVIOUS
<1> DEFINE s == pw.events
<1>2. /\ s \in Seq(EventSet) /\ s # <<>> /\ Len(s) \in Nat \ {0} /\ DOMAIN s = 1..Len(s)
      /\ e \in EventSet /\ e = s[1] /\ Tail(s) \in Seq(EventSet)
      /\ DOMAIN Tail(s) = 1..(Len(s) - 1)
      /\ \A i \in 1..(Len(s) - 1) : Tail(s)[i] = s[i + 1]
  <2>1. s \in Seq(EventSet) /\ s # <<>>
    BY <1>0, Zenon DEF PipeType, GraphEvent
  <2>2. Len(s) \in Nat \ {0} /\ DOMAIN s = 1..Len(s) /\ e = s[1] /\ e \in EventSet
    BY <1>1, <2>1
  <2>3. /\ Tail(s) \in Seq(EventSet) /\ DOMAIN Tail(s) = 1..(Len(s) - 1)
        /\ \A i \in 1..(Len(s) - 1) : Tail(s)[i] = s[i + 1]
    BY <2>1
  <2> QED
    BY <2>2, <2>3
<1>3. /\ pw'.events = Tail(s) /\ pw'.nodes = pw.nodes /\ pw'.ids = pw.ids
      /\ DOMAIN pw' = DOMAIN pw
  BY DEF GraphEvent, PipeType
<1>4. /\ DOMAIN graph' = DOMAIN graph
      /\ e.kind = "default" => graph'.nodes = graph.nodes
      /\ e.kind = "gone" => graph'.nodes = [d \in DOMAIN graph.nodes \ {e.device} |-> graph.nodes[d]]
      /\ e.kind = "node" => graph'.nodes = [d \in DOMAIN graph.nodes \cup {e.device} |->
                                IF d = e.device THEN e.node ELSE graph.nodes[d]]
  BY <1>1 DEF GraphEvent, Shape
<1>5. /\ e.kind \in {"default", "gone", "node"}
      /\ e.kind # "default" => e.device \in AudioDevices
      /\ e.kind = "node" => e.node \in NodeSet /\ e.node.id <= pw.ids[e.device]
  <2>1. e.kind = "node" => e.node.id <= pw.ids[e.device]
    BY <1>0, <1>2 DEF PipeType
  <2> QED
    BY <1>2, <2>1, Zenon DEF EventSet
<1>6. /\ \A d \in AudioDevices : ~Concerns(e, d) =>
            /\ d \in DOMAIN graph'.nodes <=> d \in DOMAIN graph.nodes
            /\ d \in DOMAIN graph.nodes => graph'.nodes[d] = graph.nodes[d]
      /\ e.kind = "gone" => e.device \notin DOMAIN graph'.nodes
      /\ e.kind = "node" => e.device \in DOMAIN graph'.nodes /\ graph'.nodes[e.device] = e.node
  BY <1>4, <1>5, Zenon DEF Concerns
<1>7. IsNodes(graph'.nodes) /\ Numbered(graph'.nodes, pw.ids)
  BY <1>0, <1>4, <1>5 DEF IsNodes, Numbered
<1>8. PipeType(pw')
  <2>1. \A i \in DOMAIN pw'.events : i + 1 \in DOMAIN s /\ pw'.events[i] = s[i + 1]
    BY <1>2, <1>3
  <2>2. /\ \A i \in DOMAIN s : s[i].kind = "node" => s[i].node.id <= pw.ids[s[i].device]
        /\ DOMAIN pw = {"nodes", "default", "setting", "events", "dead", "ids"}
        /\ pw.ids \in [AudioDevices -> Nat] /\ IsNodes(pw.nodes) /\ Numbered(pw.nodes, pw.ids)
    BY <1>0, Zenon DEF PipeType
  <2>3. \A i \in DOMAIN pw'.events :
          pw'.events[i].kind = "node" => pw'.events[i].node.id <= pw.ids[pw'.events[i].device]
    BY <2>1, <2>2, Zenon
  <2> QED
    BY <1>2, <1>3, <2>2, <2>3, Zenon DEF PipeType
<1>9. ASSUME NEW d \in AudioDevices PROVE Mirrored(pw', graph'.nodes, d)
  <2>0. Mirrored(pw, graph.nodes, d)
    BY <1>0, Zenon DEF Piped, Mirror
  <2>1. \A i \in DOMAIN pw'.events : i + 1 \in DOMAIN s /\ pw'.events[i] = s[i + 1]
                                     /\ i \in Nat
    BY <1>2, <1>3
  <2>2. \A j \in DOMAIN s : j # 1 => j - 1 \in DOMAIN pw'.events /\ pw'.events[j - 1] = s[j]
                                     /\ j \in Nat
    BY <1>2, <1>3, SMTT(30)
  <2>3. ASSUME NEW i \in DOMAIN pw'.events, LastOf(pw'.events, d, i)
        PROVE  LastOf(s, d, i + 1) /\ pw'.events[i] = s[i + 1] /\ i + 1 \in DOMAIN s
    <3>1. \A j \in DOMAIN s : j > i + 1 => ~Concerns(s[j], d)
      <4> TAKE j \in DOMAIN s
      <4>1. j > i + 1 => j # 1 /\ j - 1 > i
        BY <2>1, <1>2
      <4> QED
        BY <2>2, <2>3, <4>1, Zenon DEF LastOf
    <3> QED
      BY <2>1, <2>3, <3>1, Zenon DEF LastOf
  <2>4. ASSUME \A i \in DOMAIN pw'.events : ~Concerns(pw'.events[i], d)
        PROVE  /\ d \in DOMAIN graph'.nodes <=> d \in DOMAIN pw.nodes
               /\ d \in DOMAIN graph'.nodes => graph'.nodes[d] = pw.nodes[d]
    <3>1. \A j \in DOMAIN s : j # 1 => ~Concerns(s[j], d)
      BY <2>2, <2>4, Zenon
    <3>2. CASE ~Concerns(e, d)
      <4>1. \A j \in DOMAIN s : ~Concerns(s[j], d)
        BY <1>2, <3>1, <3>2, Zenon
      <4> QED
        BY <1>6, <2>0, <3>2, <4>1, Zenon DEF Mirrored
    <3>3. CASE Concerns(e, d)
      <4>1. 1 \in DOMAIN s /\ LastOf(s, d, 1)
        BY <1>2, <3>1, <3>3 DEF LastOf
      <4>2. /\ e.kind = "gone" => d \notin DOMAIN pw.nodes
            /\ e.kind = "node" => d \in DOMAIN pw.nodes /\ pw.nodes[d] = e.node
        BY <1>2, <2>0, <4>1, Zenon DEF Mirrored
      <4>3. e.device = d /\ e.kind \in {"gone", "node"}
        BY <1>5, <3>3, Zenon DEF Concerns
      <4> QED
        BY <1>6, <4>2, <4>3, Zenon
    <3> QED
      BY <3>2, <3>3, Zenon
  <2>5. \A i \in DOMAIN pw'.events : LastOf(pw'.events, d, i) =>
          /\ pw'.events[i].kind = "gone" => d \notin DOMAIN pw.nodes
          /\ pw'.events[i].kind = "node" =>
               d \in DOMAIN pw.nodes /\ pw.nodes[d] = pw'.events[i].node
    BY <2>0, <2>3, Zenon DEF Mirrored
  <2> QED
    BY <1>3, <2>4, <2>5, Zenon DEF Mirrored
<1>10. Alike(bridge, bridge') /\ bridge.at = "idle"
  <2>1. Alike(bridge, bridge)
    BY <1>0, Zenon DEF Shape, Alike
  <2>2. bridge' = notify(bridge) \/ bridge' = bridge
    BY Zenon DEF GraphEvent
  <2> QED
    BY <1>0, <2>1, TimersAlike, Zenon DEF Shape, GraphEvent, Idle
<1>11. Shape'
  <2>1. UNCHANGED <<mac, master, tale>>
    BY Zenon DEF GraphEvent
  <2> QED
    BY <1>0, <1>4, <1>10, <2>1, Zenon DEF Shape, Alike
<1>12. HearsStep
  <2>1. UNCHANGED <<master, tale>>
    BY Zenon DEF GraphEvent
  <2> QED
    BY <1>3, <1>7, <1>8, <1>9, <1>10, <2>1, Zenon DEF HearsStep, Piped, Mirror, Alike
<1> QED
  BY <1>11, <1>12, Zenon

\* An event that is not about a node, and what else PipeWire keeps.
LEMMA OtherPiped ==
  ASSUME NEW p, NEW g, Piped(p, g), NEW q, DOMAIN q = DOMAIN p, q.nodes = p.nodes,
         q.ids = p.ids, q.events = p.events \/ q.events = Append(p.events, [kind |-> "default"])
  PROVE  Piped(q, g) /\ Gentle(p, q)
<1>1. Gentle(p, q)
  BY DEF Gentle, Piped, PipeType
<1>2. CASE q.events = p.events
  BY <1>1, <1>2 DEF Piped, PipeType, Mirror, Mirrored
<1>3. CASE q.events = Append(p.events, [kind |-> "default"])
  <2>1. PICK e : e = [kind |-> "default"]
    OBVIOUS
  <2>2. e \in EventSet /\ e.kind = "default" /\ p.events \in Seq(EventSet)
    BY <2>1, Zenon DEF EventSet, Piped, PipeType
  <2>3. /\ q.events \in Seq(EventSet) /\ DOMAIN q.events = 1..(Len(p.events) + 1)
        /\ DOMAIN p.events = 1..Len(p.events) /\ Len(p.events) \in Nat
        /\ q.events[Len(p.events) + 1] = e
        /\ \A i \in DOMAIN p.events : i \in DOMAIN q.events /\ q.events[i] = p.events[i]
    BY <1>3, <2>1, <2>2
  <2>4. \A i \in DOMAIN q.events :
          i \in DOMAIN p.events \/ q.events[i].kind = "default"
    OBVIOUS
  <2>5. PipeType(q)
    BY <2>3, <2>4, Zenon DEF Piped, PipeType
  <2>6. ASSUME NEW x \in AudioDevices PROVE Mirrored(q, g, x)
    <3>1. \A i \in DOMAIN q.events : LastOf(q.events, x, i) =>
            i \in DOMAIN p.events /\ LastOf(p.events, x, i)
      BY <2>3, <2>4, Zenon DEF LastOf, Concerns
    <3>2. (\A i \in DOMAIN q.events : ~Concerns(q.events[i], x)) =>
            \A i \in DOMAIN p.events : ~Concerns(p.events[i], x)
      BY <2>3, Zenon
    <3> QED
      BY <2>3, <3>1, <3>2 DEF Mirrored, Piped, Mirror
  <2> QED
    BY <1>1, <2>5, <2>6, Zenon DEF Piped, Mirror
<1> QED
  BY <1>2, <1>3, Zenon

\* The node of d appears.
LEMMA NewPiped ==
  ASSUME NEW p, NEW g, Piped(p, g), NEW d \in AudioDevices, d \notin DOMAIN p.nodes,
         NEW n, n = NewNode(p.ids[d] + 1), NEW q,
         q = [p EXCEPT !.ids[d] = @ + 1,
                !.nodes = [x \in DOMAIN @ \cup {d} |-> IF x = d THEN n ELSE @[x]],
                !.events = Append(@, [kind |-> "node", device |-> d, node |-> n])]
  PROVE  Piped(q, g) /\ Gentle(p, q)
<1>0. PipeType(p) /\ p.ids \in [AudioDevices -> Nat] /\ p.events \in Seq(EventSet)
  BY Zenon DEF Piped, PipeType
<1>1. PICK e : e = [kind |-> "node", device |-> d, node |-> n]
  BY Zenon
<1>2. n \in NodeSet /\ n.id = p.ids[d] + 1
  BY <1>0 DEF NewNode, NodeSet
<1>3. e \in EventSet /\ e.kind = "node" /\ e.device = d /\ e.node = n
  BY <1>1, <1>2, Zenon DEF EventSet
<1>4. /\ DOMAIN q = DOMAIN p /\ q.ids = [p.ids EXCEPT ![d] = @ + 1]
      /\ q.nodes = [x \in DOMAIN p.nodes \cup {d} |-> IF x = d THEN n ELSE p.nodes[x]]
      /\ q.events = Append(p.events, e)
  BY <1>1 DEF PipeType
<1>5. /\ q.events \in Seq(EventSet) /\ DOMAIN q.events = 1..(Len(p.events) + 1)
      /\ DOMAIN p.events = 1..Len(p.events) /\ Len(p.events) \in Nat
      /\ q.events[Len(p.events) + 1] = e
      /\ \A i \in DOMAIN p.events : i \in DOMAIN q.events /\ q.events[i] = p.events[i]
      /\ \A i \in DOMAIN p.events : p.events[i] \in EventSet
  BY <1>0, <1>3, <1>4
<1>6. /\ q.ids \in [AudioDevices -> Nat] /\ q.ids[d] = n.id
      /\ \A x \in AudioDevices : p.ids[x] <= q.ids[x] /\ p.ids[x] \in Nat /\ q.ids[x] \in Nat
  BY <1>0, <1>2
<1>7. /\ DOMAIN q.nodes = DOMAIN p.nodes \cup {d} /\ q.nodes[d] = n
      /\ \A x \in DOMAIN p.nodes : q.nodes[x] = p.nodes[x]
  OBVIOUS
<1>8. PipeType(q)
  <2>1. IsNodes(q.nodes) /\ Numbered(q.nodes, q.ids)
    <3>1. \A x \in DOMAIN p.nodes : /\ x \in AudioDevices /\ p.nodes[x] \in NodeSet
                                    /\ p.nodes[x].id \in Nat /\ p.nodes[x].id <= p.ids[x]
      BY <1>0, Zenon DEF PipeType, IsNodes, Numbered, NodeSet
    <3> QED
      BY <1>2, <1>6, <3>1 DEF IsNodes, Numbered
  <2>2. \A i \in DOMAIN q.events : q.events[i].kind = "node" =>
           q.events[i].node.id <= q.ids[q.events[i].device]
    <3> SUFFICES ASSUME NEW i \in DOMAIN q.events, q.events[i].kind = "node"
                 PROVE  q.events[i].node.id <= q.ids[q.events[i].device]
      OBVIOUS
    <3>1. CASE i \in DOMAIN p.events
      <4>1. PICK f : f = p.events[i]
        OBVIOUS
      <4>2. f.kind = "node" /\ f.node.id <= p.ids[f.device] /\ f \in EventSet
        BY <1>0, <3>1, <4>1 DEF PipeType
      <4>3. f.device \in AudioDevices /\ f.node.id \in Nat
        BY <4>2, Zenon DEF EventSet, NodeSet
      <4> QED
        BY <1>5, <1>6, <3>1, <4>1, <4>2, <4>3, SMTT(30)
    <3>2. CASE i \notin DOMAIN p.events
      <4>1. i = Len(p.events) + 1
        BY <3>2
      <4> QED
        BY <1>6, <4>1
    <3> QED
      BY <3>1, <3>2, Zenon
  <2> QED
    BY <1>0, <1>5, <2>1, <2>2 DEF PipeType
<1>9. ASSUME NEW x \in AudioDevices PROVE Mirrored(q, g, x)
  <2>0. Mirrored(p, g, x)
    BY Zenon DEF Piped, Mirror
  <2>1. CASE x = d
    <3>1. Concerns(q.events[Len(p.events) + 1], x)
      BY <2>1 DEF Concerns
    <3>2. \A i \in DOMAIN q.events : LastOf(q.events, x, i) => i = Len(p.events) + 1
      BY <3>1 DEF LastOf
    <3> QED
      BY <2>1, <3>1, <3>2 DEF Mirrored
  <2>2. CASE x # d
    <3>1. ~Concerns(e, x)
      BY <1>3, <2>2, Zenon DEF Concerns
    <3>2. \A i \in DOMAIN q.events : LastOf(q.events, x, i) =>
            i \in DOMAIN p.events /\ LastOf(p.events, x, i)
      BY <1>5, <3>1 DEF LastOf
    <3>3. (\A i \in DOMAIN q.events : ~Concerns(q.events[i], x)) =>
            \A i \in DOMAIN p.events : ~Concerns(p.events[i], x)
      BY <1>5, Zenon
    <3>4. /\ x \in DOMAIN q.nodes <=> x \in DOMAIN p.nodes
          /\ x \in DOMAIN p.nodes => q.nodes[x] = p.nodes[x]
      BY <2>2
    <3> QED
      BY <2>0, <3>2, <3>3, <3>4 DEF Mirrored
  <2> QED
    BY <2>1, <2>2, Zenon
<1>10. Gentle(p, q)
  BY <1>6 DEF Gentle
<1> QED
  BY <1>8, <1>9, <1>10, Zenon DEF Piped, Mirror

\* Stopping nodes sets no level.
LEMMA StopGentle ==
  ASSUME NEW p, NEW g, Piped(p, g), NEW ds, NEW q, q = StopNodes(p, ds)
  PROVE  Piped(q, g) /\ Gentle(p, q) /\ q.ids = p.ids
<1>1. /\ Piped(q, g) /\ q.ids = p.ids /\ DOMAIN q.nodes = DOMAIN p.nodes \ ds
      /\ \A x \in DOMAIN q.nodes : q.nodes[x] = p.nodes[x]
  BY StopPiped
<1> QED
  BY <1>1 DEF Gentle, Piped, PipeType

\* PipeWire moves, and the bridge at most arms a timer.
LEMMA PipeQuiet ==
  ASSUME AudInv, Piped(pw', graph.nodes), Gentle(pw, pw'), UNCHANGED <<mac, graph, master, tale>>,
         DOMAIN bridge' = BridgeFields, bridge'.children \subseteq AudioDevices,
         bridge'.state = bridge.state, bridge'.at \in {bridge.at, "closed"}
  PROVE  Shape' /\ QuietStep
<1>1. bridge'.at \in Reconciling => bridge.at \in Reconciling
  BY Zenon DEF Reconciling
<1>2. Shape'
  BY <1>1, Zenon DEF AudInv, Shape
<1>3. QuietStep
  BY <1>1, Zenon DEF QuietStep, SameTale
<1> QED
  BY <1>2, <1>3, Zenon

\* PipeWire, its users, the loopback children and the end of the bridge.
LEMMA PipeSteps ==
  ASSUME AudInv,
         \/ NodeAppears \/ DefaultLands \/ ChildDies \/ child_exited
         \/ UserLevel \/ UserDefault \/ Quit
  PROVE  Shape' /\ QuietStep
<1>0. /\ Shape /\ Piped(pw, graph.nodes) /\ PipeType(pw) /\ DOMAIN bridge = BridgeFields
      /\ bridge.children \subseteq AudioDevices
  BY Zenon DEF AudInv, Shape, Piped
<1>s. ASSUME Piped(pw', graph.nodes), Gentle(pw, pw'),
             UNCHANGED <<mac, graph, bridge, master, tale>>
      PROVE  Shape' /\ QuietStep
  BY <1>0, <1>s, PipeQuiet, Zenon
<1>1. CASE NodeAppears
  <2>1. PICK d \in bridge.children \ (pw.dead \cup DOMAIN pw.nodes) :
          LET n == NewNode(pw.ids[d] + 1)
          IN pw' = [pw EXCEPT !.ids[d] = @ + 1,
                   !.nodes = [x \in DOMAIN @ \cup {d} |-> IF x = d THEN n ELSE @[x]],
                   !.events = Append(@, [kind |-> "node", device |-> d, node |-> n])]
    BY <1>1, Zenon DEF NodeAppears
  <2>2. PICK n : n = NewNode(pw.ids[d] + 1)
    OBVIOUS
  <2>3. d \in AudioDevices /\ d \notin DOMAIN pw.nodes
    BY <1>0, Zenon
  <2>4. PICK q : q = pw'
    OBVIOUS
  <2>5. Piped(q, graph.nodes) /\ Gentle(pw, q)
    BY <1>0, <2>1, <2>4, NewPiped, Zenon
  <2> QED
    BY <1>1, <1>s, <2>4, <2>5, Zenon DEF NodeAppears
<1>2. CASE DefaultLands
  <2>1. /\ DOMAIN pw' = DOMAIN pw /\ pw'.nodes = pw.nodes /\ pw'.ids = pw.ids
        /\ pw'.events = Append(pw.events, [kind |-> "default"])
    BY <1>2 DEF DefaultLands, PipeType
  <2> QED
    BY <1>0, <1>2, <1>s, <2>1, OtherPiped, Zenon DEF DefaultLands
<1>3. CASE UserDefault
  <2>1. /\ DOMAIN pw' = DOMAIN pw /\ pw'.nodes = pw.nodes /\ pw'.ids = pw.ids
        /\ pw'.events = Append(pw.events, [kind |-> "default"])
    BY <1>0, <1>3, Zenon DEF UserDefault, PipeType
  <2> QED
    BY <1>0, <1>3, <1>s, <2>1, OtherPiped, Zenon DEF UserDefault
<1>4. CASE ChildDies
  <2>1. PICK d : pw' = [StopNodes(pw, {d}) EXCEPT !.dead = @ \cup {d}]
    BY <1>4, Zenon DEF ChildDies
  <2>2. PICK q : q = StopNodes(pw, {d})
    OBVIOUS
  <2>3. Piped(q, graph.nodes) /\ Gentle(pw, q) /\ q.ids = pw.ids
    BY <1>0, <2>2, StopGentle, Zenon
  <2>4. /\ DOMAIN pw' = DOMAIN q /\ pw'.nodes = q.nodes /\ pw'.ids = q.ids
        /\ pw'.events = q.events
    BY <2>1, <2>2 DEF Piped, PipeType
  <2>5. Piped(pw', graph.nodes)
    BY <2>3, <2>4, OtherPiped, Zenon
  <2>6. Gentle(pw, pw')
    BY <2>3, <2>4, Zenon DEF Gentle
  <2> QED
    BY <1>4, <1>s, <2>5, <2>6, Zenon DEF ChildDies
<1>5. CASE child_exited
  <2>1. PICK d : /\ pw' = [pw EXCEPT !.dead = @ \ {d}]
                 /\ bridge' = retry([bridge EXCEPT !.children = @ \ {d}])
    BY <1>5, Zenon DEF child_exited
  <2>2. DOMAIN pw' = DOMAIN pw /\ pw'.nodes = pw.nodes /\ pw'.ids = pw.ids /\ pw'.events = pw.events
    BY <2>1 DEF PipeType
  <2>3. Piped(pw', graph.nodes) /\ Gentle(pw, pw')
    BY <1>0, <2>2, OtherPiped, Zenon
  <2>4. PICK b : b = [bridge EXCEPT !.children = @ \ {d}]
    BY Zenon
  <2>5. /\ DOMAIN b = BridgeFields /\ b.children = bridge.children \ {d}
        /\ b.at = bridge.at /\ b.state = bridge.state
    BY <1>0, <2>4, Zenon DEF BridgeFields
  <2>6. Alike(b, bridge')
    BY <2>1, <2>4, <2>5, TimersAlike, Zenon
  <2>7. UNCHANGED <<mac, graph, master, tale>>
    BY <1>5, Zenon DEF child_exited
  <2> QED
    BY <1>0, <2>3, <2>5, <2>6, <2>7, PipeQuiet, Zenon DEF Alike
<1>6. CASE UserLevel
  <2>1. PICK d \in DOMAIN pw.nodes, l \in GuestLevels :
          pw' = Shows(pw, d, [pw.nodes[d] EXCEPT !.level = l, !.unity = FALSE, !.by = "user"])
    BY <1>6, Zenon DEF UserLevel
  <2>2. PICK n : n = [pw.nodes[d] EXCEPT !.level = l, !.unity = FALSE, !.by = "user"]
    OBVIOUS
  <2>3. /\ n \in NodeSet /\ n.id <= pw.ids[d] /\ n.by = "user"
    <3>1. pw.nodes[d] \in NodeSet /\ pw.nodes[d].id <= pw.ids[d] /\ l \in Int
      BY <1>0 DEF PipeType, IsNodes, Numbered, GuestLevels
    <3> QED
      BY <2>2, <3>1, Zenon DEF NodeSet
  <2>4. PICK q : q = pw'
    OBVIOUS
  <2>5. q = Shows(pw, d, n)
    BY <2>1, <2>2, <2>4, Zenon
  <2>6. /\ Piped(q, graph.nodes) /\ q.ids = pw.ids /\ DOMAIN q.nodes = DOMAIN pw.nodes
        /\ \A x \in DOMAIN pw.nodes \ {d} : q.nodes[x] = pw.nodes[x]
        /\ q.nodes[d] \in {pw.nodes[d], n}
    BY <1>0, <2>3, <2>5, ShowsPiped
  <2>7. Gentle(pw, q)
    BY <1>0, <2>3, <2>6 DEF Gentle, PipeType
  <2> QED
    BY <1>6, <1>s, <2>4, <2>6, <2>7, Zenon DEF UserLevel
<1>7. CASE Quit
  <2>1. PICK x : pw' = StopNodes([pw EXCEPT !.default = x], AudioDevices)
    BY <1>7, Zenon DEF Quit
  <2>2. PICK p : p = [pw EXCEPT !.default = x]
    BY Zenon
  <2>3. DOMAIN p = DOMAIN pw /\ p.nodes = pw.nodes /\ p.ids = pw.ids /\ p.events = pw.events
    BY <2>2 DEF PipeType
  <2>4. Piped(p, graph.nodes)
    BY <1>0, <2>3, OtherPiped, Zenon
  <2>5. PICK q : q = pw'
    OBVIOUS
  <2>6. Piped(q, graph.nodes) /\ Gentle(p, q)
    BY <2>1, <2>2, <2>4, <2>5, StopGentle, Zenon
  <2>7. Gentle(pw, q)
    BY <2>3, <2>6, Zenon DEF Gentle
  <2>8. bridge' = [bridge EXCEPT !.at = "closed", !.timers = {}, !.children = {}]
        /\ UNCHANGED <<mac, graph, master, tale>>
    BY <1>7, Zenon DEF Quit
  <2>9. /\ DOMAIN bridge' = BridgeFields /\ bridge'.children = {}
        /\ bridge'.state = bridge.state /\ bridge'.at = "closed"
    BY <1>0, <2>8, Zenon DEF BridgeFields
  <2> QED
    BY <2>5, <2>6, <2>7, <2>8, <2>9, PipeQuiet, Zenon
<1> QED
  BY <1>1, <1>2, <1>3, <1>4, <1>5, <1>6, <1>7, Zenon

\* The exception handler gives the level up.
LEMMA FailedResets ==
  ASSUME AudInv, NEW b, DOMAIN b = BridgeFields, NEW p, Piped(p, graph.nodes),
         p.ids = pw.ids, Failed(b, p)
  PROVE  /\ Piped(pw', graph.nodes) /\ pw'.ids = pw.ids /\ master' = NoMaster
         /\ DOMAIN bridge' = BridgeFields /\ bridge'.at = "idle"
         /\ bridge'.children = b.children /\ bridge'.state = Nothing
<1>1. PICK q : q = Local(p)
  OBVIOUS
<1>2. Piped(q, graph.nodes) /\ q.ids = p.ids
  BY <1>1, LocalPiped, Zenon DEF AudInv, Numbers
<1>3. PICK c : c = [b EXCEPT !.at = "idle", !.state = Nothing]
  OBVIOUS
<1>4. DOMAIN c = BridgeFields /\ c.at = "idle" /\ c.state = Nothing /\ c.children = b.children
  BY <1>3, Zenon DEF BridgeFields
<1>5. Alike(c, retry(c))
  BY <1>4, TimersAlike, Zenon
<1>6. pw' = q /\ bridge' = retry(c) /\ master' = NoMaster
  BY <1>1, <1>3, Zenon DEF Failed
<1> QED
  BY <1>2, <1>4, <1>5, <1>6, Zenon DEF Alike

\* What remains to be shown of a step that fails.
LEMMA ResetShape ==
  ASSUME AudInv, DOMAIN graph' = DOMAIN graph, master' = NoMaster,
         DOMAIN bridge' = BridgeFields, bridge'.at = "idle", bridge'.state = Nothing,
         bridge'.children \subseteq AudioDevices,
         DOMAIN mac' = DOMAIN mac, mac'.devices = mac.devices,
         mac'.level \in [AudioDevices -> Int],
         DOMAIN tale' = DOMAIN tale, tale'.overtaken \in Nat
  PROVE  Shape'
<1>1. DOMAIN master' = {"key", "host", "seen", "pending"}
  BY Zenon DEF NoMaster
<1> QED
  BY <1>1, Zenon DEF AudInv, Shape, Reconciling

\* The first part of a reconciliation.
LEMMA ReadSteps ==
  ASSUME AudInv, ReconcileRead
  PROVE  Shape' /\ (QuietStep \/ ResetStep \/ ReadsStep)
<1>0. /\ Shape /\ Piped(pw, graph.nodes) /\ PipeType(pw) /\ DOMAIN bridge = BridgeFields
      /\ bridge.children \subseteq AudioDevices /\ bridge.at = "idle"
  BY Zenon DEF AudInv, Shape, Piped, ReconcileRead, Idle
<1>1. /\ SameTale /\ DOMAIN tale' = DOMAIN tale /\ tale'.overtaken \in Nat
      /\ tale'.overtaken = 0 => pw.events = <<>>
  <2>1. CASE Overtakes
    <3>1. tale' = [tale EXCEPT !.overtaken = @ + 1]
      BY <2>1, Zenon DEF ReconcileRead
    <3>2. /\ DOMAIN tale' = DOMAIN tale /\ tale'.overtaken = tale.overtaken + 1
          /\ tale'.echo = tale.echo
      BY <3>1 DEF Shape
    <3> QED
      BY <1>0, <3>2 DEF Shape, SameTale
  <2>2. CASE ~Overtakes
    BY <1>0 DEF ReconcileRead, Overtakes, Shape, SameTale
  <2> QED
    BY <2>1, <2>2, Zenon
<1> DEFINE known == IF graph.dirty THEN pw.default ELSE graph.default
<1>2. PICK b : b = [bridge EXCEPT !.timers = @ \ {"reconcile"}]
  BY Zenon
<1>3. PICK read : read = [b EXCEPT !.original = IF @ = Nothing THEN known ELSE @]
  BY Zenon
<1>4. Alike(bridge, b) /\ Alike(bridge, read)
  BY <1>0, <1>2, <1>3, Zenon DEF Alike, BridgeFields
<1>5. CASE ~graph.ready
  <2>1. bridge' = b /\ UNCHANGED <<pw, graph, master, mac>>
    BY <1>2, <1>5, Zenon DEF ReconcileRead
  <2>2. Gentle(pw, pw')
    BY <1>0, <2>1 DEF PipeType, Gentle
  <2>3. QuietStep
    BY <1>0, <1>1, <1>4, <2>1, <2>2, Zenon DEF QuietStep, Alike
  <2>4. Shape'
    BY <1>0, <1>1, <1>4, <2>1, Zenon DEF Shape, Alike
  <2> QED
    BY <2>3, <2>4, Zenon
<1>6. CASE graph.ready
  <2>1. graph' = [graph EXCEPT !.default = known, !.dirty = FALSE] /\ UNCHANGED mac
    BY <1>6, Zenon DEF ReconcileRead
  <2>2. DOMAIN graph' = DOMAIN graph /\ graph'.nodes = graph.nodes
    BY <2>1 DEF Shape
  <2>3. CASE Fetches /\ ~mac.active
    <3>1. Failed(read, pw)
      BY <1>2, <1>3, <1>6, <2>3, Zenon DEF ReconcileRead
    <3>2. /\ Piped(pw', graph.nodes) /\ pw'.ids = pw.ids /\ master' = NoMaster
          /\ DOMAIN bridge' = BridgeFields /\ bridge'.at = "idle"
          /\ bridge'.children = read.children /\ bridge'.state = Nothing
      BY <1>0, <1>4, <3>1, FailedResets, Zenon DEF Alike
    <3>3. Shape'
      BY <1>0, <1>1, <1>4, <2>1, <3>2, ResetShape, Zenon DEF Alike, Shape
    <3>4. ResetStep
      BY <1>1, <2>2, <3>2, Zenon DEF ResetStep, SameTale
    <3> QED
      BY <3>3, <3>4, Zenon
  <2>4. CASE ~(Fetches /\ ~mac.active)
    <3>1. PICK st : st = IF Fetches THEN Told(mac) ELSE bridge.state
      OBVIOUS
    <3>2. /\ bridge' = [read EXCEPT !.at = "default", !.dirty = FALSE,
                                     !.state = IF Fetches THEN Told(mac) ELSE @]
          /\ UNCHANGED <<pw, master>>
      BY <1>2, <1>3, <1>6, <2>4 DEF ReconcileRead
    <3>3. /\ DOMAIN bridge' = BridgeFields /\ bridge'.at = "default" /\ bridge'.state = st
          /\ bridge'.children = bridge.children
      BY <1>4, <3>1, <3>2, Zenon DEF Alike, BridgeFields
    <3>4. Known(st)
      BY <1>0, <3>1, Zenon DEF Known, Told, Fetches, Shape
    <3>5. Shape'
      BY <1>0, <1>1, <2>1, <3>2, <3>3, <3>4, Zenon DEF Shape
    <3>6. ReadsStep
      BY <1>1, <2>2, <3>2 DEF ReadsStep
    <3> QED
      BY <3>5, <3>6, Zenon
  <2> QED
    BY <2>3, <2>4, Zenon
<1> QED
  BY <1>5, <1>6, Zenon

\* The second part: children come and go, no level is touched.
LEMMA DefaultSteps ==
  ASSUME AudInv, ReconcileDefault
  PROVE  Shape' /\ (QuietStep \/ ResetStep)
<1>0. /\ Shape /\ Piped(pw, graph.nodes) /\ PipeType(pw) /\ DOMAIN bridge = BridgeFields
      /\ bridge.at = "default" /\ Known(bridge.state) /\ UNCHANGED tale
  BY Zenon DEF AudInv, Shape, Piped, ReconcileDefault, Reconciling, Failed
<1> DEFINE st == bridge.state
           sel == graph.default
           p == bridge.pending
           picks == bridge.observed \notin {Nothing, sel} /\ sel \in st.devices
           now == IF picks THEN [Told(mac) EXCEPT !.default = sel] ELSE st
           set == sel # now.default /\ now.default \in DOMAIN graph.nodes
<1>1. PICK b : b = [bridge EXCEPT !.children = st.devices]
  BY Zenon
<1>2. PICK rest : rest = StopNodes(pw, AudioDevices \ st.devices)
  OBVIOUS
<1>3. /\ DOMAIN b = BridgeFields /\ b.at = "default" /\ b.state = bridge.state
      /\ b.children = st.devices /\ st.devices \subseteq AudioDevices
  BY <1>0, <1>1, Zenon DEF BridgeFields, Known
<1>4. Piped(rest, graph.nodes) /\ Gentle(pw, rest) /\ rest.ids = pw.ids /\ PipeType(rest)
  BY <1>0, <1>2, StopGentle DEF Piped
<1>5. Known(now)
  BY <1>0, Zenon DEF Known, Told, Shape
<1>6. CASE p # Nothing /\ sel = p.before /\ ~p.late
  <2>1. /\ bridge' = [b EXCEPT !.at = "idle"] /\ pw' = rest
        /\ UNCHANGED <<mac, graph, master, tale>>
    BY <1>1, <1>2, <1>6, Zenon DEF ReconcileDefault
  <2>2. /\ DOMAIN bridge' = BridgeFields /\ bridge'.at = "idle"
        /\ bridge'.state = bridge.state /\ bridge'.children = st.devices
    BY <1>3, <2>1, Zenon DEF BridgeFields
  <2>3. Shape'
    BY <1>0, <1>3, <2>1 DEF Shape
  <2>4. QuietStep
    BY <1>4, <2>1 DEF QuietStep, SameTale, Reconciling
  <2> QED
    BY <2>3, <2>4, Zenon
<1>7. CASE /\ ~(p # Nothing /\ sel = p.before /\ ~p.late)
           /\ \/ picks /\ (~mac.active \/ sel \notin mac.devices)
              \/ set /\ now.default \notin DOMAIN rest.nodes
  <2>1. /\ Failed([b EXCEPT !.pending = Nothing], rest)
        /\ mac' = IF picks /\ mac.active /\ sel \in mac.devices
                  THEN [mac EXCEPT !.default = sel, !.news = TRUE] ELSE mac
        /\ UNCHANGED <<graph, tale>>
    BY <1>1, <1>2, <1>7, Zenon DEF ReconcileDefault
  <2>2. PICK c : c = [b EXCEPT !.pending = Nothing]
    BY Zenon
  <2>3. DOMAIN c = BridgeFields /\ c.children = st.devices
    BY <1>3, <2>2, Zenon DEF BridgeFields
  <2>4. /\ Piped(pw', graph.nodes) /\ pw'.ids = pw.ids /\ master' = NoMaster
        /\ DOMAIN bridge' = BridgeFields /\ bridge'.at = "idle"
        /\ bridge'.children = c.children /\ bridge'.state = Nothing
    BY <1>4, <2>1, <2>2, <2>3, FailedResets, Zenon
  <2>5. DOMAIN mac' = DOMAIN mac /\ mac'.devices = mac.devices /\ mac'.level = mac.level
    BY <2>1 DEF Shape
  <2>6. Shape'
    BY <1>0, <1>3, <2>1, <2>3, <2>4, ResetShape, Zenon DEF Shape
  <2>7. ResetStep
    BY <2>1, <2>4, Zenon DEF ResetStep
  <2> QED
    BY <2>6, <2>7, Zenon
<1>8. CASE /\ ~(p # Nothing /\ sel = p.before /\ ~p.late)
           /\ ~ \/ picks /\ (~mac.active \/ sel \notin mac.devices)
                \/ set /\ now.default \notin DOMAIN rest.nodes
  <2>1. /\ mac' = IF picks /\ mac.default # sel
                  THEN [mac EXCEPT !.default = sel, !.news = TRUE] ELSE mac
        /\ pw' = IF set THEN [rest EXCEPT !.setting = now.default] ELSE rest
        /\ graph' = [graph EXCEPT !.dirty = @ \/ set]
        /\ UNCHANGED <<master, tale>>
    BY <1>2, <1>8, Zenon DEF ReconcileDefault
  <2>2. \E names, o, x : bridge' = [later(b, names) EXCEPT
                !.at = "volume", !.state = now, !.observed = o, !.pending = x]
    <3>1. bridge' = [later(b, IF set THEN {"reconcile", "defaults-deadline"} ELSE {}) EXCEPT
                  !.at = "volume", !.state = now,
                  !.observed = IF set THEN now.default ELSE sel,
                  !.pending = IF ~set THEN Nothing ELSE
                    [before |-> sel, late |-> FALSE,
                     own |-> "defaults-deadline" \notin b.timers]]
      BY <1>1, <1>2, <1>8, Zenon DEF ReconcileDefault
    <3> HIDE DEF now, set
    <3> QED
      BY <3>1, Zenon
  <2> HIDE DEF now, picks, set
  <2>3. /\ DOMAIN bridge' = BridgeFields /\ bridge'.at = "volume" /\ bridge'.state = now
        /\ bridge'.children = st.devices
    <3>1. PICK names, o, x : bridge' = [later(b, names) EXCEPT
                !.at = "volume", !.state = now, !.observed = o, !.pending = x]
      BY <2>2, Zenon
    <3>2. PICK c : c = later(b, names)
      OBVIOUS
    <3>3. Alike(b, c)
      BY <1>3, <3>2, TimersAlike, Zenon
    <3> QED
      BY <1>3, <3>1, <3>2, <3>3, Zenon DEF Alike, BridgeFields
  <2>4. DOMAIN mac' = DOMAIN mac /\ mac'.devices = mac.devices /\ mac'.level = mac.level
    BY <2>1 DEF Shape
  <2>5. DOMAIN graph' = DOMAIN graph /\ graph'.nodes = graph.nodes
    BY <2>1 DEF Shape
  <2>6. /\ DOMAIN pw' = DOMAIN rest /\ pw'.nodes = rest.nodes /\ pw'.ids = rest.ids
        /\ pw'.events = rest.events
    BY <2>1 DEF PipeType
  <2>7. Piped(pw', graph.nodes) /\ Gentle(pw, pw')
    <3>1. Piped(pw', graph.nodes)
      BY <1>4, <2>6, OtherPiped, Zenon
    <3>2. Gentle(pw, pw')
      BY <1>4, <2>6, Zenon DEF Gentle
    <3> QED
      BY <3>1, <3>2, Zenon
  <2>8. Shape'
    BY <1>0, <1>3, <1>5, <2>1, <2>3, Zenon DEF Shape
  <2>9. QuietStep
    BY <1>0, <2>1, <2>7 DEF QuietStep, SameTale, Reconciling
  <2> QED
    BY <2>8, <2>9, Zenon
<1> QED
  BY <1>6, <1>7, <1>8, Zenon

\* The third part: a level goes to the Mac only if the node's state is a user's.
LEMMA VolumeSteps ==
  ASSUME AudInv, ReconcileVolume
  PROVE  Shape' /\ (QuietStep \/ ResetStep \/ SetsStep)
<1>0. /\ Shape /\ Piped(pw, graph.nodes) /\ PipeType(pw) /\ DOMAIN bridge = BridgeFields
      /\ bridge.at = "volume" /\ Known(bridge.state) /\ UNCHANGED graph
      /\ bridge.children \subseteq AudioDevices
      /\ IsNodes(graph.nodes) /\ Numbered(graph.nodes, pw.ids)
  BY Zenon DEF AudInv, Shape, Piped, ReconcileVolume, Reconciling, Numbers
<1> DEFINE st == bridge.state
           d == st.default
           b == [bridge EXCEPT !.at = "idle"]
           n == graph.nodes[d]
           chosen == Chosen(n, d, st.level[d])
           taken == chosen /\ Accepts(d, st.level[d])
           after == IF taken THEN [mac EXCEPT !.level[d] = Root(n.level), !.news = TRUE]
                    ELSE mac
           host == IF chosen THEN after.level[d] ELSE st.level[d]
           moved == chosen /\ mac.default # d
           writes == n.level # Cube(host) \/ ~n.unity
           shown == [n EXCEPT !.level = Cube(host), !.unity = TRUE, !.by = "bridge"]
<1>c. ASSUME d = bridge.observed, d \in DOMAIN graph.nodes, d \notin FixedLevel,
             ~(Unchanged(n, d) /\ st.level[d] = master.host /\ ~master.pending.late)
      PROVE
         IF \/ chosen /\ ~mac.active
            \/ (moved \/ writes) /\ ~Alive(d, n.id)
         THEN /\ Failed(b, pw) /\ mac' = after
              /\ tale' = [tale EXCEPT !.echo = @ \/ (taken /\ n.by # "user")]
         ELSE /\ mac' = after
              /\ tale' = [tale EXCEPT !.echo = @ \/ (taken /\ n.by # "user")]
              /\ IF moved
                 THEN /\ master' = NoMaster /\ pw' = fallback(pw, d)
                      /\ bridge' = [b EXCEPT !.state = Told(after)]
                 ELSE /\ master' = [key |-> <<d, n.id>>, host |-> host,
                           seen |-> Seen(n, host),
                           pending |-> IF writes
                             THEN [before |-> n.level, wanted |-> Cube(host),
                                   late |-> FALSE,
                                   own |-> "volume-deadline" \notin b.timers]
                             ELSE Nothing]
                      /\ pw' = IF writes THEN Shows(pw, d, shown) ELSE pw
                      /\ bridge' = later([b EXCEPT !.state =
                                            IF chosen THEN Told(after) ELSE @],
                                     IF writes THEN {"volume-deadline"} ELSE {})
  BY <1>c, Zenon DEF ReconcileVolume
<1> HIDE DEF st, d, b, n, chosen, taken, after, host, moved, writes, shown
<1>1. st = bridge.state
  BY Zenon DEF st
<1>2. d = st.default
  BY Zenon DEF d
<1>3. b = [bridge EXCEPT !.at = "idle"]
  BY Zenon DEF b
<1>4. /\ DOMAIN b = BridgeFields /\ b.at = "idle" /\ b.state = bridge.state
      /\ b.children = bridge.children
  BY <1>0, <1>3, Zenon DEF BridgeFields
<1>f. PICK f : f = fallback(pw, d)
  OBVIOUS
<1>g. Piped(f, graph.nodes) /\ f.ids = pw.ids
  BY <1>0, <1>f, FallbackPiped, Zenon
<1>q. ASSUME bridge' = b, UNCHANGED <<mac, pw, master, tale>> PROVE Shape' /\ QuietStep
  <2>1. Gentle(pw, pw')
    BY <1>0, <1>q DEF PipeType, Gentle
  <2>2. QuietStep
    BY <1>0, <1>q, <2>1, Zenon DEF QuietStep, SameTale, Reconciling
  <2>3. Shape'
    BY <1>0, <1>4, <1>q, Zenon DEF Shape, Reconciling
  <2> QED
    BY <2>2, <2>3, Zenon
<1>x. ASSUME Failed(b, pw), DOMAIN mac' = DOMAIN mac, mac'.devices = mac.devices,
             mac'.level \in [AudioDevices -> Int], DOMAIN tale' = DOMAIN tale,
             tale'.overtaken = tale.overtaken,
             tale.overtaken = 0 /\ ~tale.echo => ~tale'.echo
      PROVE  Shape' /\ ResetStep
  <2>1. /\ Piped(pw', graph.nodes) /\ pw'.ids = pw.ids /\ master' = NoMaster
        /\ DOMAIN bridge' = BridgeFields /\ bridge'.at = "idle"
        /\ bridge'.children = b.children /\ bridge'.state = Nothing
    BY <1>0, <1>4, <1>x, FailedResets, Zenon
  <2>2. Shape'
    BY <1>0, <1>4, <1>x, <2>1, ResetShape, Zenon DEF Shape
  <2>3. ResetStep
    BY <1>0, <1>x, <2>1, Zenon DEF ResetStep
  <2> QED
    BY <2>2, <2>3, Zenon
<1>5. CASE d # bridge.observed \/ d \notin DOMAIN graph.nodes
  <2>1. bridge' = b /\ UNCHANGED <<mac, pw, master, tale>>
    BY <1>1, <1>2, <1>3, <1>5, Zenon DEF ReconcileVolume
  <2> QED
    BY <1>q, <2>1, Zenon
<1>6. CASE ~(d # bridge.observed \/ d \notin DOMAIN graph.nodes) /\ d \in FixedLevel
  <2>1. /\ \/ Failed(b, pw)
           \/ bridge' = b /\ master' = NoMaster /\ pw' = f
        /\ UNCHANGED <<mac, tale>>
    BY <1>1, <1>2, <1>3, <1>6, <1>f, Zenon DEF ReconcileVolume
  <2>2. CASE Failed(b, pw)
    BY <1>0, <1>x, <2>1, <2>2, Zenon DEF Shape
  <2>3. CASE bridge' = b /\ master' = NoMaster /\ pw' = f
    <3>1. Shape'
      <4>1. DOMAIN master' = {"key", "host", "seen", "pending"}
        BY <2>3, Zenon DEF NoMaster
      <4> QED
        BY <1>0, <1>4, <2>1, <2>3, <4>1, Zenon DEF Shape, Reconciling
    <3>2. ResetStep
      BY <1>0, <1>4, <1>g, <2>1, <2>3, Zenon DEF ResetStep
    <3> QED
      BY <3>1, <3>2, Zenon
  <2> QED
    BY <2>1, <2>2, <2>3, Zenon
<1>7. CASE ~(d # bridge.observed \/ d \notin DOMAIN graph.nodes) /\ d \notin FixedLevel
  <2>1. n = graph.nodes[d]
    BY Zenon DEF n
  <2>2. chosen \in BOOLEAN /\ chosen = Chosen(n, d, st.level[d])
    BY Zenon DEF chosen, Chosen
  <2>3. taken \in BOOLEAN /\ taken = (chosen /\ Accepts(d, st.level[d]))
    BY Zenon DEF taken
  <2>4. after = IF taken THEN [mac EXCEPT !.level[d] = Root(n.level), !.news = TRUE]
                ELSE mac
    BY Zenon DEF after
  <2>5. host = IF chosen THEN after.level[d] ELSE st.level[d]
    BY Zenon DEF host
  <2>6. moved \in BOOLEAN
    BY Zenon DEF moved
  <2>7. writes \in BOOLEAN /\ writes = (n.level # Cube(host) \/ ~n.unity)
    BY Zenon DEF writes
  <2>8. shown = [n EXCEPT !.level = Cube(host), !.unity = TRUE, !.by = "bridge"]
    BY Zenon DEF shown
  <2>9. d \in AudioDevices /\ d \in DOMAIN graph.nodes /\ n \in NodeSet /\ n.id <= pw.ids[d]
    BY <1>0, <1>7, <2>1, Zenon DEF IsNodes, Numbered
  <2>10. /\ DOMAIN after = DOMAIN mac /\ after.devices = mac.devices
         /\ after.level \in [AudioDevices -> Int]
    <3>1. Root(n.level) \in Int
      BY DEF Root
    <3>2. CASE taken
      <4>1. after = [mac EXCEPT !.level[d] = Root(n.level), !.news = TRUE]
        BY <2>4, <3>2, Zenon
      <4>2. /\ DOMAIN after = DOMAIN mac /\ after.devices = mac.devices
            /\ after.level = [mac.level EXCEPT ![d] = Root(n.level)]
        BY <4>1 DEF Shape
      <4>3. [mac.level EXCEPT ![d] = Root(n.level)] \in [AudioDevices -> Int]
        BY <1>0, <3>1, Zenon DEF Shape
      <4> QED
        BY <4>2, <4>3, Zenon
    <3>3. CASE ~taken
      BY <1>0, <2>4, <3>3, Zenon DEF Shape
    <3> QED
      BY <3>2, <3>3, Zenon
  <2>11. host \in Int /\ Cube(host) \in Int
    <3>1. st.level[d] \in Int /\ after.level[d] \in Int
      BY <1>0, <1>1, <2>9, <2>10, Zenon DEF Known
    <3>2. host \in Int
      BY <2>5, <3>1, Zenon
    <3> QED
      BY <3>2 DEF Cube
  <2>12. shown \in NodeSet /\ shown.id = n.id /\ shown.level = Cube(host)
    BY <2>8, <2>9, <2>11, Zenon DEF NodeSet
  <2>13. ASSUME tale' = [tale EXCEPT !.echo = @ \/ (taken /\ n.by # "user")]
         PROVE  /\ DOMAIN tale' = DOMAIN tale /\ tale'.overtaken = tale.overtaken
                /\ tale.overtaken = 0 /\ ~tale.echo => ~tale'.echo
    <3>1. /\ DOMAIN tale' = DOMAIN tale /\ tale'.overtaken = tale.overtaken
          /\ tale'.echo = (tale.echo \/ (taken /\ n.by # "user"))
      BY <2>13 DEF Shape
    <3>2. ASSUME tale.overtaken = 0, taken PROVE n.by = "user"
      <4>1. Synchronised(graph.nodes)
        BY <1>0, <3>2, Zenon DEF AudInv, Honest, Reconciling
      <4>2. master.key = <<d, n.id>> /\ n.level # master.seen
        BY <2>2, <2>3, <3>2, Zenon DEF Chosen
      <4> QED
        BY <2>1, <2>9, <4>1, <4>2, Zenon DEF Synchronised
    <3> QED
      BY <3>1, <3>2, Zenon
  <2>b. CASE /\ Unchanged(n, d) /\ st.level[d] = master.host /\ ~master.pending.late
    <3>1. bridge' = b /\ UNCHANGED <<mac, pw, master, tale>>
      BY <1>1, <1>3, <1>7, <2>1, <2>b, Zenon DEF ReconcileVolume
    <3> QED
      BY <1>q, <3>1, Zenon
  <2>d. Known(Told(after)) /\ Known(st)
    BY <1>0, <1>1, <2>10, Zenon DEF Known, Told, Shape
  <2>e. CASE /\ ~(Unchanged(n, d) /\ st.level[d] = master.host /\ ~master.pending.late)
             /\ \/ chosen /\ ~mac.active
                \/ (moved \/ writes) /\ ~Alive(d, n.id)
    <3>1. /\ Failed(b, pw) /\ mac' = after
          /\ tale' = [tale EXCEPT !.echo = @ \/ (taken /\ n.by # "user")]
      BY <1>7, <1>c, <2>e, Zenon
    <3> QED
      BY <1>x, <2>10, <2>13, <3>1, Zenon
  <2>k. CASE /\ ~(Unchanged(n, d) /\ st.level[d] = master.host /\ ~master.pending.late)
             /\ ~ \/ chosen /\ ~mac.active
                  \/ (moved \/ writes) /\ ~Alive(d, n.id)
    <3>1. /\ mac' = after /\ tale' = [tale EXCEPT !.echo = @ \/ (taken /\ n.by # "user")]
      BY <1>7, <1>c, <2>k, Zenon
    <3>2. /\ DOMAIN tale' = DOMAIN tale /\ tale'.overtaken = tale.overtaken
          /\ tale.overtaken = 0 /\ ~tale.echo => ~tale'.echo
      BY <2>13, <3>1, Zenon
    <3>s. ASSUME DOMAIN bridge' = BridgeFields, bridge'.at = "idle", Known(bridge'.state),
                 bridge'.children = b.children,
                 DOMAIN master' = {"key", "host", "seen", "pending"}
          PROVE  Shape'
      BY <1>0, <1>4, <2>10, <3>1, <3>s, Zenon DEF Shape
    <3>3. CASE moved
      <4>1. /\ master' = NoMaster /\ pw' = f /\ bridge' = [b EXCEPT !.state = Told(after)]
        BY <1>f, <1>7, <1>c, <2>k, <3>3, Zenon
      <4>2. /\ DOMAIN bridge' = BridgeFields /\ bridge'.at = "idle"
            /\ bridge'.state = Told(after) /\ bridge'.children = b.children
        BY <1>4, <4>1, Zenon DEF BridgeFields
      <4>3. DOMAIN master' = {"key", "host", "seen", "pending"}
        BY <4>1, Zenon DEF NoMaster
      <4>4. Shape'
        BY <2>d, <3>s, <4>2, <4>3, Zenon
      <4>5. ResetStep
        BY <1>0, <1>g, <3>2, <4>1, <4>2, Zenon DEF ResetStep
      <4> QED
        BY <4>4, <4>5, Zenon
    <3>4. CASE ~moved
      <4>0. /\ master' = [key |-> <<d, n.id>>, host |-> host,
                          seen |-> Seen(n, host),
                          pending |-> IF writes
                             THEN [before |-> n.level, wanted |-> Cube(host),
                                   late |-> FALSE,
                                   own |-> "volume-deadline" \notin b.timers]
                             ELSE Nothing]
            /\ pw' = IF writes THEN Shows(pw, d, shown) ELSE pw
            /\ bridge' = later([b EXCEPT !.state = IF chosen THEN Told(after) ELSE @],
                               IF writes THEN {"volume-deadline"} ELSE {})
        BY <1>7, <1>c, <2>k, <3>4, Zenon
      <4>1. /\ DOMAIN master' = {"key", "host", "seen", "pending"}
            /\ master'.key = <<d, n.id>> /\ master'.seen = Cube(host)
        BY <4>0, Zenon DEF Seen
      <4>2. /\ DOMAIN bridge' = BridgeFields /\ bridge'.at = "idle"
            /\ bridge'.children = b.children /\ Known(bridge'.state)
        <5>1. PICK s2 : s2 = IF chosen THEN Told(after) ELSE b.state
          OBVIOUS
        <5>2. PICK c : c = [b EXCEPT !.state = IF chosen THEN Told(after) ELSE @]
          BY Zenon
        <5>3. DOMAIN c = BridgeFields /\ c.at = "idle" /\ c.children = b.children /\ c.state = s2
          BY <1>4, <5>1, <5>2, Zenon DEF BridgeFields
        <5>4. Known(s2)
          BY <1>1, <1>4, <2>d, <5>1, Zenon
        <5>5. Alike(c, bridge')
          BY <4>0, <5>2, <5>3, TimersAlike, Zenon
        <5> QED
          BY <5>3, <5>4, <5>5, Zenon DEF Alike
      <4>3. Shape'
        BY <3>s, <4>1, <4>2, Zenon
      <4>4. CASE writes
        <5>1. d \in DOMAIN pw.nodes
          BY <2>k, <4>4, Zenon DEF Alive
        <5>2. PICK q : q = pw'
          OBVIOUS
        <5>3. q = Shows(pw, d, shown)
          BY <4>0, <4>4, <5>2, Zenon
        <5>4. Piped(q, graph.nodes) /\ q.ids = pw.ids /\ q.nodes[d].level = shown.level
          BY <1>0, <2>9, <2>12, <5>1, <5>3, ShowsPiped, SMTT(30)
        <5> QED
          BY <1>0, <2>1, <2>9, <2>12, <3>2, <4>1, <4>2, <4>3, <5>2, <5>4, ZenonT(40)
          DEF SetsStep
      <4>5. CASE ~writes
        <5>1. pw' = pw /\ n.level = Cube(host)
          BY <2>7, <4>0, <4>5, Zenon
        <5> QED
          BY <1>0, <2>1, <2>9, <3>2, <4>1, <4>2, <4>3, <5>1, ZenonT(40) DEF SetsStep
      <4> QED
        BY <4>4, <4>5, Zenon
    <3> QED
      BY <3>3, <3>4, Zenon
  <2> QED
    BY <2>b, <2>e, <2>k, Zenon
<1> QED
  BY <1>5, <1>6, <1>7, Zenon

\* It holds when the bridge starts.
LEMMA AudInitially == AudInit => AudInv
<1> SUFFICES ASSUME AudInit PROVE AudInv
  OBVIOUS
<1>1. pw.nodes = <<>> /\ pw.events = <<>> /\ graph.nodes = <<>> /\ DOMAIN pw.nodes = {}
      /\ DOMAIN graph.nodes = {} /\ DOMAIN pw.events = {}
  BY DEF AudInit
<1>2. Piped(pw, graph.nodes)
  <2>1. pw.ids \in [AudioDevices -> Nat]
    BY Zenon DEF AudInit
  <2>2. PipeType(pw)
    BY DEF AudInit, PipeType, IsNodes, Numbered
  <2> QED
    BY <1>1, <2>2, Zenon DEF Piped, Mirror, Mirrored, LastOf
<1>3. master.key = Nothing
  BY Zenon DEF AudInit, NoMaster
<1>4. Numbers
  BY <1>1, <1>3, KeyNames, Zenon DEF Numbers, IsNodes, Numbered
<1>5. mac.devices \subseteq AudioDevices /\ mac.level \in [AudioDevices -> Int]
  <2>1. audLeft.there \subseteq AudioDevices
    BY AudioAssumption, Zenon DEF AudInit
  <2> QED
    BY <2>1 DEF AudInit
<1>6. Shape
  BY <1>5, Zenon DEF AudInit, Shape, NoMaster, BridgeFields, Reconciling
<1>7. Honest
  BY <1>1, Zenon DEF AudInit, Honest, Synchronised, Reconciling
<1> QED
  BY <1>2, <1>4, <1>6, <1>7, Zenon DEF AudInv

\* Every step keeps it.
LEMMA AudKept == AudInv /\ [AudNext]_audVars => AudInv'
<1> SUFFICES ASSUME AudInv, [AudNext]_audVars PROVE AudInv'
  OBVIOUS
<1>1. CASE UNCHANGED audVars
  BY <1>1, Zenon DEF audVars, AudInv, Shape, Numbers, Honest, Synchronised, Current
<1>2. CASE AudNext
  BY <1>2, IdleSteps, HearsSteps, PipeSteps, ReadSteps, DefaultSteps, VolumeSteps,
     QuietKeeps, ResetKeeps, HearsKeeps, ReadsKeeps, SetsKeeps, Zenon
  DEF AudNext, Sources, Reconcile
<1> QED
  BY <1>1, <1>2, Zenon

\* As long as every reconciliation starts with all that PipeWire has told, a level
\* that AudioBridge sends to the Mac is one a user chose in the guest, whatever the
\* users, PipeWire and the Mac do while it runs.
THEOREM EchoesAreLate == AudSpec => []EchoNeedsLateEvent
<1>1. AudInv => EchoNeedsLateEvent
  BY DEF AudInv, Shape, Honest, EchoNeedsLateEvent
<1> QED
  BY <1>1, AudInitially, AudKept, PTL DEF AudSpec

-----------------------------------------------------------------------------
(* Wi-Fi scans: any readers, snapshots, networks and scans *)

-----------------------------------------------------------------------------
(* Pages *)

\* The first n networks of a scan.
First(id, n) == [i \in 1..n |-> <<id, i>>]

\* What follows the first n networks extends them.
LEMMA FirstExtends ==
  ASSUME NEW id \in Nat, NEW n \in Nat, NEW m \in Nat
  PROVE  /\ Len(First(id, n)) = n
         /\ First(id, n) \o [i \in 1..m |-> <<id, n + i>>] = First(id, n + m)
<1> DEFINE s == First(id, n)
           t == [i \in 1..m |-> <<id, n + i>>]
           u == s \o t
<1>1. s \in Seq(Nat \X Nat) /\ t \in Seq(Nat \X Nat) /\ Len(s) = n /\ Len(t) = m
  BY DEF First
<1>2. /\ u \in Seq(Nat \X Nat) /\ Len(u) = n + m
      /\ \A i \in 1..n + m : u[i] = IF i <= n THEN s[i] ELSE t[i - n]
  <2> HIDE DEF s, t
  <2> QED
    BY <1>1, Joined, Zenon
<1>3. \A i \in 1..n + m : u[i] = First(id, n + m)[i]
  <2> SUFFICES ASSUME NEW i \in 1..n + m PROVE u[i] = First(id, n + m)[i]
    BY Zenon
  <2>1. i <= n => s[i] = <<id, i>>
    BY DEF First
  <2>2. i > n => t[i - n] = <<id, i>>
    BY DEF First
  <2>3. First(id, n + m)[i] = <<id, i>>
    BY Zenon DEF First
  <2> HIDE DEF s, t, u
  <2>4. u[i] = IF i <= n THEN s[i] ELSE t[i - n]
    BY <1>2, Zenon
  <2>5. CASE i <= n
    BY <2>1, <2>3, <2>4, <2>5, Zenon
  <2>6. CASE i > n
    BY <2>2, <2>3, <2>4, <2>6
  <2> QED
    BY <2>5, <2>6
<1>4. First(id, n + m) \in Seq(Nat \X Nat) /\ Len(First(id, n + m)) = n + m
  BY DEF First
<1> HIDE DEF s, t, u
<1>5. u = First(id, n + m)
  BY <1>2, <1>3, <1>4
<1> QED
  BY <1>1, <1>5, Zenon DEF s, t, u

\* A page continues where the reader stands, and a reader that has as many
\* networks as the scan found is done.
LEMMA TakenInOrder ==
  ASSUME NEW r, NEW id \in Nat, NEW total \in Nat, NEW n \in Nat,
         r.records = First(id, n)
  PROVE  LET to == Taken(r, id, total)
         IN /\ to.id = id /\ to.total = total
            /\ to \in [pc : {"whole", "failed", "paging"}, id : Nat, total : Nat,
                       records : {to.records}]
            /\ \E k \in Nat : to.records = First(id, k) /\ (to.pc = "whole" => k = total)
<1> DEFINE page == Page(id, total, n)
           all == First(id, n) \o page.entries
           to == Taken(r, id, total)
           start == IF n < total THEN n ELSE total
           end == IF start + 2 < total THEN start + 2 ELSE total
           m == end - start
<1>1. Len(First(id, n)) = n
  BY FirstExtends, Zenon
<1>2. to = [pc |-> IF page.next = -1
                   THEN IF Len(all) = total THEN "whole" ELSE "failed"
                   ELSE IF page.next = Len(all) /\ page.entries # <<>> THEN "paging" ELSE "failed",
            id |-> id, total |-> total, records |-> all]
  BY <1>1, Zenon DEF Taken
<1>3. m \in Nat /\ page.entries = [i \in 1..m |-> <<id, start + i>>]
  BY DEF Page
<1>4. all = First(id, n + m)
  <2>1. CASE n < total
    <3>1. page.entries = [i \in 1..m |-> <<id, n + i>>]
      BY <1>3, <2>1, Zenon
    <3> HIDE DEF page, m
    <3>2. First(id, n) \o [i \in 1..m |-> <<id, n + i>>] = First(id, n + m)
      BY <1>3, FirstExtends, ZenonT(40)
    <3> QED
      BY <3>1, <3>2, Zenon
  <2>2. CASE ~(n < total)
    <3>1. m = 0
      BY <2>2
    <3>2. page.entries = [i \in 1..0 |-> <<id, n + i>>]
      BY <1>3, <3>1
    <3> HIDE DEF page, m
    <3> QED
      BY <3>1, <3>2, FirstExtends
  <2> QED
    BY <2>1, <2>2, Zenon
<1>5. Len(all) = n + m
  <2> HIDE DEF all, m
  <2> QED
    BY <1>3, <1>4, FirstExtends
<1> HIDE DEF all, m, page, to
<1>6. to.id = id /\ to.total = total /\ to.records = all
  BY <1>2, Zenon
<1>7. to.pc \in {"whole", "failed", "paging"} /\ (to.pc = "whole" => Len(all) = total)
  BY <1>2, Zenon
<1>8. to \in [pc : {"whole", "failed", "paging"}, id : Nat, total : Nat, records : {to.records}]
  BY <1>2, <1>6, <1>7, Zenon
<1> QED
  BY <1>3, <1>4, <1>5, <1>6, <1>7, <1>8 DEF to
-----------------------------------------------------------------------------
(* Snapshots and readers *)

\* The snapshots kept are few and of scans that were made; any other scan is
\* 60 seconds old or has been followed by as many as are kept.
KeptInv ==
  /\ scans \in [count : Nat, expired : SUBSET Nat]
  /\ DOMAIN kept \subseteq 1..scans.count
  /\ \A s \in DOMAIN kept : kept[s] \in Nat
  /\ IsFiniteSet(DOMAIN kept) /\ SnapshotsBounded
  /\ \A s \in 1..scans.count :
       s \notin DOMAIN kept => s \in scans.expired \/ scans.count - s >= Snapshots

\* A reader holds the first networks of one scan; all of them once it is done.
ReaderHolds(me, count, expired) ==
  /\ me = [pc |-> me.pc, id |-> me.id, total |-> me.total, records |-> me.records]
  /\ me.id \in 0..count
  /\ \E n \in Nat : me.records = First(me.id, n) /\ (me.pc = "whole" => n = me.total)
  /\ me.pc = "paging" => me.id # 0
  /\ me.pc = "stale" => me.id \in expired \/ count - me.id >= Snapshots

\* Both together, for every reader.
PagesInv ==
  /\ KeptInv
  /\ DOMAIN scanner = Readers /\ scanner = [r \in Readers |-> scanner[r]]
  /\ \A r \in Readers : ReaderHolds(scanner[r], scans.count, scans.expired)

\* A reader that does not move keeps what it has: scans and expiries add up.
LEMMA ReaderWaits ==
  ASSUME NEW me, NEW c \in Nat, NEW d \in Nat, c <= d, NEW e, NEW f, e \subseteq f,
         ReaderHolds(me, c, e)
  PROVE  ReaderHolds(me, d, f)
  BY ScanAssumption DEF ReaderHolds

\* An idle reader holds nothing.
LEMMA IdleHolds ==
  ASSUME NEW c \in Nat, NEW e
  PROVE  ReaderHolds(NoScan, c, e)
<1>1. NoScan.records = First(0, 0)
  BY DEF NoScan, First
<1> QED
  BY <1>1 DEF NoScan, ReaderHolds

\* One reader moves, the others wait.
LEMMA OneReader ==
  ASSUME PagesInv, KeptInv', NEW r \in Readers, NEW me,
         scanner' = [scanner EXCEPT ![r] = me],
         scans'.count >= scans.count, scans.expired \subseteq scans'.expired,
         ReaderHolds(me, scans'.count, scans'.expired)
  PROVE  PagesInv'
<1>1. scans.count \in Nat /\ scans'.count \in Nat
  BY Zenon DEF PagesInv, KeptInv
<1>2. ASSUME NEW q \in Readers
      PROVE  ReaderHolds(scanner'[q], scans'.count, scans'.expired)
  <2>1. CASE q = r
    BY <2>1, Zenon DEF PagesInv
  <2>2. CASE q # r
    <3>1. scanner'[q] = scanner[q] /\ ReaderHolds(scanner[q], scans.count, scans.expired)
      BY <2>2, Zenon DEF PagesInv
    <3> QED
      BY <1>1, <3>1, ReaderWaits
  <2> QED
    BY <2>1, <2>2, Zenon
<1> QED
  BY <1>2, Zenon DEF PagesInv

\* The eviction drops the oldest snapshot, which is then as old as it must be.
LEMMA EvictsOldest ==
  ASSUME KeptInv, Full
  PROVE  \E s \in DOMAIN kept :
           /\ Evicted = Without(s)
           /\ scans.count + 1 - s >= Snapshots
           /\ Cardinality(DOMAIN kept \ {s}) < Snapshots
<1> DEFINE s == CHOOSE t \in DOMAIN kept : \A u \in DOMAIN kept : t <= u
<1>1. Snapshots \in Nat /\ Snapshots > 0 /\ scans.count \in Nat
  BY ScanAssumption DEF KeptInv
<1>2. Cardinality(DOMAIN kept) \in Nat
  BY FS_CardinalityType, Zenon DEF KeptInv
<1>3. DOMAIN kept # {} /\ DOMAIN kept \subseteq Nat
  <2>1. Cardinality(DOMAIN kept) # 0
    BY <1>1, <1>2 DEF Full
  <2> QED
    BY <2>1, FS_EmptySet DEF KeptInv
<1>4. s \in DOMAIN kept /\ \A u \in DOMAIN kept : s <= u
  BY <1>3, LeastNat, Zenon
<1> HIDE DEF s
<1>5. s \in 1..scans.count /\ DOMAIN kept \subseteq s..scans.count
  BY <1>4 DEF KeptInv
<1>6. /\ IsFiniteSet(s..scans.count)
      /\ Cardinality(s..scans.count) = scans.count - s + 1
  BY <1>5, FS_Interval DEF KeptInv
<1>7. Cardinality(DOMAIN kept) <= scans.count - s + 1
  BY <1>5, <1>6, FS_Subset, ZenonT(40)
<1>8. Cardinality(DOMAIN kept \ {s}) = Cardinality(DOMAIN kept) - 1
  BY <1>4, FS_RemoveElement, Zenon DEF KeptInv
<1>9. scans.count + 1 - s >= Snapshots
  BY <1>1, <1>2, <1>5, <1>7 DEF Full
<1>10. Cardinality(DOMAIN kept \ {s}) < Snapshots
  BY <1>1, <1>2, <1>8 DEF KeptInv, SnapshotsBounded
<1>11. Evicted = Without(s)
  BY Zenon DEF Evicted, s
<1> QED
  BY <1>4, <1>9, <1>10, <1>11, Zenon
\* A scan makes room, keeps its snapshot and gives its reader the first page.
LEMMA ScanKeeps ==
  ASSUME PagesInv, NEW r \in Readers, Scan(r)
  PROVE  PagesInv'
<1> DEFINE id == scans.count + 1
           room == IF Full THEN Evicted ELSE kept
<1>0. scans.count \in Nat /\ Snapshots \in Nat /\ Snapshots > 0
  BY ScanAssumption DEF PagesInv, KeptInv
<1>1. PICK total \in Totals :
        /\ kept' = [s \in DOMAIN room \cup {id} |-> IF s = id THEN total ELSE room[s]]
        /\ scans' = [scans EXCEPT !.count = id]
        /\ scanner' = [scanner EXCEPT ![r] = Taken(NoScan, id, total)]
  BY Zenon DEF Scan
<1>2. total \in Nat /\ id \in Nat
  BY <1>0, ScanAssumption
<1>3. /\ DOMAIN room \subseteq DOMAIN kept
      /\ \A s \in DOMAIN room : room[s] = kept[s]
      /\ IsFiniteSet(DOMAIN room) /\ Cardinality(DOMAIN room) < Snapshots
      /\ \A s \in DOMAIN kept \ DOMAIN room : id - s >= Snapshots
  <2>1. CASE Full
    <3>1. PICK s \in DOMAIN kept :
            /\ Evicted = Without(s)
            /\ scans.count + 1 - s >= Snapshots
            /\ Cardinality(DOMAIN kept \ {s}) < Snapshots
      BY <2>1, EvictsOldest, Zenon DEF PagesInv
    <3>2. room = [t \in DOMAIN kept \ {s} |-> kept[t]]
      BY <2>1, <3>1, Zenon DEF Without
    <3>3. IsFiniteSet(DOMAIN kept \ {s})
      BY FS_RemoveElement, Zenon DEF PagesInv, KeptInv
    <3> HIDE DEF room
    <3>4. DOMAIN room = DOMAIN kept \ {s} /\ \A t \in DOMAIN room : room[t] = kept[t]
      BY <3>2, Zenon
    <3>5. \A t \in DOMAIN kept \ DOMAIN room : t = s
      BY <3>4, Zenon
    <3>6. IsFiniteSet(DOMAIN room) /\ Cardinality(DOMAIN room) < Snapshots
      BY <3>1, <3>3, <3>4, Zenon
    <3>7. \A t \in DOMAIN kept \ DOMAIN room : id - t >= Snapshots
      <4> SUFFICES ASSUME NEW t \in DOMAIN kept \ DOMAIN room PROVE id - t >= Snapshots
        OBVIOUS
      <4>1. t = s /\ s \in Nat
        BY <3>5 DEF PagesInv, KeptInv
      <4> QED
        BY <1>0, <3>1, <4>1
    <3> QED
      BY <3>4, <3>6, <3>7, Zenon
  <2>2. CASE ~Full
    <3>1. Cardinality(DOMAIN kept) \in Nat
      BY FS_CardinalityType, Zenon DEF PagesInv, KeptInv
    <3> QED
      BY <1>0, <2>2, <3>1 DEF Full, PagesInv, KeptInv
  <2> QED
    BY <2>1, <2>2, Zenon
<1> HIDE DEF room
<1>4. /\ scans' \in [count : Nat, expired : SUBSET Nat]
      /\ scans'.count = id /\ scans'.expired = scans.expired
  BY <1>1, <1>2, Zenon DEF PagesInv, KeptInv
<1>5. DOMAIN kept' = DOMAIN room \cup {id} /\ id \notin DOMAIN room
  BY <1>0, <1>1, <1>3 DEF PagesInv, KeptInv
<1>6. IsFiniteSet(DOMAIN kept') /\ Cardinality(DOMAIN kept') <= Snapshots
  <2>1. Cardinality(DOMAIN room) \in Nat
    BY <1>3, FS_CardinalityType, Zenon
  <2>2. /\ IsFiniteSet(DOMAIN room \cup {id})
        /\ Cardinality(DOMAIN room \cup {id}) = Cardinality(DOMAIN room) + 1
    BY <1>3, <1>5, FS_AddElement, Zenon
  <2> QED
    BY <1>0, <1>3, <1>5, <2>1, <2>2
<1>7. ASSUME NEW s \in DOMAIN kept' PROVE s \in 1..id /\ kept'[s] \in Nat
  <2>1. CASE s = id
    BY <1>0, <1>1, <1>2, <2>1
  <2>2. CASE s # id
    BY <1>0, <1>1, <1>3, <1>5, <2>2 DEF PagesInv, KeptInv
  <2> QED
    BY <2>1, <2>2, Zenon
<1>8. ASSUME NEW s \in 1..id, s \notin DOMAIN kept'
      PROVE  s \in scans.expired \/ id - s >= Snapshots
  <2>1. s \in 1..scans.count
    BY <1>0, <1>5, <1>8
  <2>2. CASE s \in DOMAIN kept
    BY <1>3, <1>5, <1>8, <2>2, Zenon
  <2>3. CASE s \notin DOMAIN kept
    BY <1>0, <2>1, <2>3 DEF PagesInv, KeptInv
  <2> QED
    BY <2>2, <2>3, Zenon
<1>9. KeptInv'
  BY <1>4, <1>6, <1>7, <1>8, Zenon DEF KeptInv, SnapshotsBounded
<1>10. ReaderHolds(Taken(NoScan, id, total), id, scans.expired)
  <2>1. NoScan.records = First(id, 0)
    BY DEF NoScan, First
  <2>2. PICK k \in Nat : /\ Taken(NoScan, id, total).records = First(id, k)
                         /\ Taken(NoScan, id, total).pc = "whole" => k = total
    BY <1>2, <2>1, TakenInOrder
  <2>3. /\ Taken(NoScan, id, total).id = id /\ Taken(NoScan, id, total).total = total
        /\ Taken(NoScan, id, total).pc \in {"whole", "failed", "paging"}
        /\ Taken(NoScan, id, total) = [pc |-> Taken(NoScan, id, total).pc, id |-> id,
              total |-> total, records |-> Taken(NoScan, id, total).records]
    BY Zenon DEF Taken
  <2> QED
    BY <1>0, <2>2, <2>3 DEF ReaderHolds
<1>11. scans'.count >= scans.count /\ scans.expired \subseteq scans'.expired
  BY <1>0, <1>4
<1>12. ReaderHolds(Taken(NoScan, id, total), scans'.count, scans'.expired)
  BY <1>4, <1>10, Zenon
<1> HIDE DEF id
<1> QED
  BY <1>1, <1>9, <1>11, <1>12, OneReader, Zenon

\* Every step keeps the invariant.
LEMMA PagesStep == PagesInv /\ [ScanNext]_scanVars => PagesInv'
<1> SUFFICES ASSUME PagesInv, [ScanNext]_scanVars PROVE PagesInv'
  OBVIOUS
<1>1. CASE Expires
  <2>1. PICK s \in DOMAIN kept : /\ kept' = Without(s)
                                 /\ scans' = [scans EXCEPT !.expired = @ \cup {s}]
                                 /\ scanner' = scanner
    BY <1>1, Zenon DEF Expires
  <2>2. /\ scans' \in [count : Nat, expired : SUBSET Nat]
        /\ scans'.count = scans.count /\ scans'.expired = scans.expired \cup {s}
        /\ scans.count \in Nat
    BY <2>1 DEF PagesInv, KeptInv
  <2>3. DOMAIN kept' = DOMAIN kept \ {s} /\ \A t \in DOMAIN kept' : kept'[t] = kept[t]
    BY <2>1, Zenon DEF Without
  <2>4. IsFiniteSet(DOMAIN kept') /\ Cardinality(DOMAIN kept') <= Snapshots
    <3>1. Cardinality(DOMAIN kept) \in Nat /\ Snapshots \in Nat
      BY ScanAssumption, FS_CardinalityType, Zenon DEF PagesInv, KeptInv
    <3>2. /\ IsFiniteSet(DOMAIN kept \ {s})
          /\ Cardinality(DOMAIN kept \ {s}) = Cardinality(DOMAIN kept) - 1
      BY FS_RemoveElement, Zenon DEF PagesInv, KeptInv
    <3> QED
      BY <2>3, <3>1, <3>2 DEF PagesInv, KeptInv, SnapshotsBounded
  <2>5. KeptInv'
    BY <2>2, <2>3, <2>4, Zenon DEF PagesInv, KeptInv, SnapshotsBounded
  <2>6. ASSUME NEW r \in Readers
        PROVE  ReaderHolds(scanner[r], scans'.count, scans'.expired)
    BY <2>2, ReaderWaits DEF PagesInv
  <2> QED
    BY <2>1, <2>5, <2>6, Zenon DEF PagesInv
<1>2. ASSUME NEW r \in Readers, Scan(r) PROVE PagesInv'
  BY <1>2, ScanKeeps, Zenon
<1>3. ASSUME NEW r \in Readers, NextPage(r) PROVE PagesInv'
  <2> DEFINE me == scanner[r]
  <2>1. UNCHANGED <<kept, scans>> /\ KeptInv' /\ me.pc = "paging"
    BY <1>3, Zenon DEF NextPage, PagesInv, KeptInv, SnapshotsBounded
  <2>2. scans.count \in Nat /\ Snapshots \in Nat /\ me.id \in 1..scans.count
    BY <2>1, ScanAssumption DEF PagesInv, KeptInv, ReaderHolds
  <2>3. PICK n \in Nat : me.records = First(me.id, n)
    BY Zenon DEF PagesInv, ReaderHolds
  <2>6. scans'.count >= scans.count /\ scans.expired \subseteq scans'.expired
    BY <2>1, <2>2
  <2>4. CASE me.id \in DOMAIN kept
    <3> DEFINE to == Taken(me, me.id, kept[me.id])
    <3>1. kept[me.id] \in Nat
      BY <2>4, Zenon DEF PagesInv, KeptInv
    <3>2. PICK k \in Nat : to.records = First(me.id, k) /\ (to.pc = "whole" => k = kept[me.id])
      BY <2>2, <2>3, <3>1, TakenInOrder
    <3>3. /\ to.id = me.id /\ to.total = kept[me.id]
          /\ to.pc \in {"whole", "failed", "paging"}
          /\ to = [pc |-> to.pc, id |-> to.id, total |-> to.total, records |-> to.records]
      BY Zenon DEF Taken
    <3>4. scanner' = [scanner EXCEPT ![r] = to]
      BY <1>3, <2>4, Zenon DEF NextPage
    <3> HIDE DEF to
    <3>5. ReaderHolds(to, scans.count, scans.expired)
      BY <2>2, <3>2, <3>3 DEF ReaderHolds
    <3>6. ReaderHolds(to, scans'.count, scans'.expired)
      BY <2>1, <3>5, Zenon
    <3> QED
      BY <2>1, <2>6, <3>4, <3>6, OneReader, Zenon
  <2>5. CASE me.id \notin DOMAIN kept
    <3> DEFINE to == [me EXCEPT !.pc = "stale"]
    <3>1. to = [pc |-> "stale", id |-> me.id, total |-> me.total, records |-> me.records]
      BY DEF PagesInv, ReaderHolds
    <3>2. scanner' = [scanner EXCEPT ![r] = to]
      BY <1>3, <2>5, Zenon DEF NextPage
    <3> HIDE DEF to
    <3>3. me.id \in scans.expired \/ scans.count - me.id >= Snapshots
      BY <2>2, <2>5, Zenon DEF PagesInv, KeptInv
    <3>4. ReaderHolds(to, scans.count, scans.expired)
      BY <2>2, <2>3, <3>1, <3>3 DEF ReaderHolds
    <3>5. ReaderHolds(to, scans'.count, scans'.expired)
      BY <2>1, <3>4, Zenon
    <3> QED
      BY <2>1, <2>6, <3>2, <3>5, OneReader, Zenon
  <2> QED
    BY <2>4, <2>5, Zenon
<1>4. ASSUME NEW r \in Readers, ReaderDone(r) PROVE PagesInv'
  <2>1. UNCHANGED <<kept, scans>> /\ KeptInv' /\ scans.count \in Nat
    BY <1>4, Zenon DEF ReaderDone, PagesInv, KeptInv, SnapshotsBounded
  <2>2. scanner' = [scanner EXCEPT ![r] = NoScan]
    BY <1>4, Zenon DEF ReaderDone
  <2>3. ReaderHolds(NoScan, scans'.count, scans'.expired)
    BY <2>1, IdleHolds, Zenon
  <2>4. scans'.count >= scans.count /\ scans.expired \subseteq scans'.expired
    BY <2>1
  <2> QED
    BY <2>1, <2>2, <2>3, <2>4, OneReader, Zenon
<1>5. CASE UNCHANGED scanVars
  BY <1>5, Zenon DEF scanVars, PagesInv, KeptInv, SnapshotsBounded
<1> QED
  BY <1>1, <1>2, <1>3, <1>4, <1>5, Zenon DEF ScanNext

\* scan of wifi_scan.py against the snapshots of WiFiBackend: however many
\* readers scan at once, each gets every network of one scan in order or an
\* error, a snapshot is lost only to age or to as many newer ones as are kept,
\* and no more than those are.
THEOREM ScansStayApart == ScanSpec => []ScansApart
<1>1. ScanInit => PagesInv
  <2> SUFFICES ASSUME ScanInit PROVE PagesInv
    OBVIOUS
  <2>1. DOMAIN kept = {} /\ scans = [count |-> 0, expired |-> {}]
    BY DEF ScanInit
  <2>2. IsFiniteSet(DOMAIN kept) /\ Cardinality(DOMAIN kept) = 0
    BY <2>1, FS_EmptySet, Zenon
  <2>3. KeptInv
    BY <2>1, <2>2, ScanAssumption DEF KeptInv, SnapshotsBounded
  <2>4. ReaderHolds(NoScan, 0, {})
    BY IdleHolds, Zenon
  <2> QED
    BY <2>1, <2>3, <2>4 DEF ScanInit, PagesInv
<1>2. PagesInv => ScansApart
  <2> SUFFICES ASSUME PagesInv PROVE ScansApart
    OBVIOUS
  <2>1. ScanWhole
    BY Zenon DEF PagesInv, ReaderHolds, First, ScanWhole
  <2>2. StaleOnlyWhenOld
    BY Zenon DEF PagesInv, ReaderHolds, StaleOnlyWhenOld
  <2> QED
    BY <2>1, <2>2, Zenon DEF PagesInv, KeptInv, ScansApart
<1> QED
  BY <1>1, <1>2, PagesStep, PTL DEF ScanSpec

-----------------------------------------------------------------------------
(* The display helper: any number of requests *)

\* The requests that are over: all but the open one.
ClosedRequests == (1..sidecar.count) \ {sidecar.process}

\* Every closed request has been answered, by its own child and no other;
\* only the open request's child runs, and not once its result is queued.
SideInv ==
  /\ sidecar \in [process : Nat, count : Nat]
  /\ sidecar.process \in 0..sidecar.count
  /\ children \in [running : SUBSET (Nat \ {0}), killed : SUBSET (Nat \ {0})]
  /\ blocks \in [deadlines : SUBSET Nat, reads : SUBSET Nat, results : SUBSET Nat]
  /\ blocks.results \subseteq (1..sidecar.count) \ children.running
  /\ OneHelper
  /\ replies = {<<c, c>> : c \in ClosedRequests}
  /\ IsFiniteSet(replies)
  /\ Cardinality(replies) = sidecar.count - (IF sidecar.process = 0 THEN 0 ELSE 1)

\* The steps that answer the open request: the count of answers grows by one.
LEMMA FinishCounts ==
  ASSUME SideInv, sidecar.process # 0, finish(sidecar.process)
  PROVE  /\ sidecar' \in [process : Nat, count : Nat]
         /\ sidecar'.process = 0 /\ sidecar'.count = sidecar.count
         /\ replies' = {<<c, c>> : c \in ClosedRequests'}
         /\ IsFiniteSet(replies')
         /\ Cardinality(replies') = sidecar'.count
<1> DEFINE p == sidecar.process
<1>1. /\ sidecar' \in [process : Nat, count : Nat]
      /\ sidecar'.process = 0 /\ sidecar'.count = sidecar.count
  BY Zenon DEF SideInv, finish
<1>2. p \in 1..sidecar.count
  BY DEF SideInv
<1>3. replies' = replies \cup {<<p, p>>}
  BY Zenon DEF finish
<1>4. ClosedRequests' = ClosedRequests \cup {p}
  BY <1>1, <1>2 DEF ClosedRequests
<1>5. replies' = {<<c, c>> : c \in ClosedRequests'}
  BY <1>3, <1>4, Zenon DEF SideInv
<1>6. <<p, p>> \notin replies
  BY Zenon DEF SideInv, ClosedRequests
<1>7. IsFiniteSet(replies') /\ Cardinality(replies') = Cardinality(replies) + 1
  BY <1>3, <1>6, FS_AddElement, Zenon DEF SideInv
<1>8. Cardinality(replies') = sidecar'.count
  BY <1>1, <1>7 DEF SideInv
<1> QED
  BY <1>1, <1>5, <1>7, <1>8, Zenon

\* cancel answers the open request and kills its child.
LEMMA CancelKeeps ==
  ASSUME SideInv, sidecar.process # 0, cancel,
         blocks' \in [deadlines : SUBSET Nat, reads : SUBSET Nat, results : SUBSET Nat],
         blocks'.results = blocks.results
  PROVE  SideInv'
<1>1. finish(sidecar.process)
  BY Zenon DEF cancel
<1>2. children' \in [running : SUBSET (Nat \ {0}), killed : SUBSET (Nat \ {0})] /\ children'.running = {}
  BY Zenon DEF SideInv, OneHelper, cancel
<1>3. sidecar'.process \in 0..sidecar'.count
  BY <1>1, FinishCounts DEF SideInv
<1> QED
  BY <1>1, <1>2, <1>3, FinishCounts DEF SideInv, OneHelper

\* Every step keeps the invariant.
LEMMA SideStep == SideInv /\ [SideNext]_sideVars => SideInv'
<1> SUFFICES ASSUME SideInv, [SideNext]_sideVars PROVE SideInv'
  OBVIOUS
<1>1. CASE SidecarRequest
  <2> DEFINE n == sidecar.count + 1
  <2>1. /\ sidecar' \in [process : Nat, count : Nat]
        /\ sidecar'.process = n /\ sidecar'.count = n
        /\ sidecar'.process \in 0..sidecar'.count
    BY <1>1 DEF SideInv, SidecarRequest
  <2>2. children' \in [running : SUBSET (Nat \ {0}), killed : SUBSET (Nat \ {0})] /\ OneHelper'
    <3>1. children.running = {} \/ children.running = {0}
      BY <1>1, Zenon DEF SidecarRequest, SideInv, OneHelper
    <3> QED
      BY <1>1, <2>1 DEF SideInv, SidecarRequest, OneHelper
  <2>3. /\ blocks' \in [deadlines : SUBSET Nat, reads : SUBSET Nat, results : SUBSET Nat]
        /\ blocks'.results = blocks.results
    <3>1. n \in Nat
      BY DEF SideInv
    <3>2. blocks' = [deadlines |-> blocks.deadlines \cup {n},
                     reads |-> blocks.reads \cup {n}, results |-> blocks.results]
      BY <1>1, Zenon DEF SideInv, SidecarRequest
    <3> QED
      BY <3>1, <3>2, Zenon DEF SideInv
  <2>6. blocks'.results \subseteq (1..sidecar'.count) \ children'.running
    <3>1. children'.running = children.running \cup {n}
      BY <1>1, Zenon DEF SideInv, SidecarRequest
    <3> QED
      BY <2>1, <2>3, <3>1 DEF SideInv
  <2>4. ClosedRequests' = ClosedRequests
    BY <1>1, <2>1 DEF SideInv, SidecarRequest, ClosedRequests
  <2>5. replies' = replies
    BY <1>1, Zenon DEF SidecarRequest
  <2> QED
    BY <1>1, <2>1, <2>2, <2>3, <2>4, <2>5, <2>6 DEF SideInv, SidecarRequest
<1>2. CASE CancelAll
  <2>1. /\ blocks' \in [deadlines : SUBSET Nat, reads : SUBSET Nat, results : SUBSET Nat]
        /\ blocks'.results = blocks.results
    BY <1>2, Zenon DEF CancelAll, SideInv
  <2> QED
    BY <1>2, <2>1, CancelKeeps, Zenon DEF CancelAll
<1>3. ASSUME NEW c \in 1..sidecar.count, SideChild(c) PROVE SideInv'
  <2>1. CASE Deadline(c)
    <3>3. /\ blocks' \in [deadlines : SUBSET Nat, reads : SUBSET Nat, results : SUBSET Nat]
          /\ blocks'.results = blocks.results
      BY <2>1, Zenon DEF Deadline, SideInv
    <3>1. CASE OwnBlock(c)
      BY <2>1, <3>1, <3>3, CancelKeeps DEF Deadline, OwnBlock
    <3>2. CASE ~OwnBlock(c)
      BY <2>1, <3>2, <3>3, Zenon DEF Deadline, SideInv, OneHelper, ClosedRequests
    <3> QED
      BY <3>1, <3>2, Zenon
  <2>2. CASE HelperEnds(c)
    BY <2>2, Zenon DEF HelperEnds, SideInv, OneHelper, ClosedRequests
  <2>3. CASE ReadOverflow(c)
    BY <2>3, Zenon DEF ReadOverflow, SideInv, OneHelper, ClosedRequests
  <2>4. CASE ReadEnds(c)
    BY <2>4, Zenon DEF ReadEnds, SideInv, OneHelper, ClosedRequests
  <2>5. CASE Result(c)
    <3>1. CASE OwnBlock(c)
      <4>1. finish(sidecar.process) /\ c = sidecar.process /\ sidecar.process # 0
        BY <2>5, <3>1 DEF Result, OwnBlock
      <4>2. children.running = {} /\ children' = children
        BY <2>5, <4>1 DEF Result, SideInv, OneHelper
      <4>3. /\ blocks' \in [deadlines : SUBSET Nat, reads : SUBSET Nat, results : SUBSET Nat]
            /\ blocks'.results \subseteq blocks.results
        <5>1. blocks' = [deadlines |-> blocks.deadlines \ {c}, reads |-> blocks.reads,
                         results |-> blocks.results \ {c}]
          BY <2>5, <3>1, Zenon DEF Result, SideInv
        <5> QED
          BY <5>1, Zenon DEF SideInv
      <4> QED
        BY <4>1, <4>2, <4>3, FinishCounts DEF SideInv, OneHelper
    <3>2. CASE ~OwnBlock(c)
      <4>1. UNCHANGED <<sidecar, children, replies>>
        BY <2>5, <3>2, Zenon DEF Result
      <4>2. blocks' = [deadlines |-> blocks.deadlines, reads |-> blocks.reads,
                       results |-> blocks.results \ {c}]
        BY <2>5, <3>2, Zenon DEF Result, SideInv
      <4> QED
        BY <4>1, <4>2, Zenon DEF SideInv, OneHelper, ClosedRequests
    <3> QED
      BY <3>1, <3>2, Zenon
  <2> QED
    BY <1>3, <2>1, <2>2, <2>3, <2>4, <2>5, Zenon DEF SideChild
<1>4. CASE UNCHANGED sideVars
  BY <1>4, Zenon DEF sideVars, SideInv, OneHelper, ClosedRequests
<1> QED
  BY <1>1, <1>2, <1>3, <1>4, Zenon DEF SideNext

\* SidecarService answers every request but the open one exactly once, with
\* the result of that request's own child, and never has two helpers running,
\* in whatever order deadlines, results and the ends of children are handled.
THEOREM HelpersStayApart == SideSpec => []HelpersApart
<1>1. SideInit => SideInv
  <2> SUFFICES ASSUME SideInit PROVE SideInv
    OBVIOUS
  <2>1. ClosedRequests = {} /\ replies = {}
    BY DEF SideInit, ClosedRequests
  <2>2. IsFiniteSet(replies) /\ Cardinality(replies) = 0
    BY <2>1, FS_EmptySet, Zenon
  <2> QED
    BY <2>1, <2>2 DEF SideInit, SideInv, OneHelper
<1>2. SideInv => HelpersApart
  BY DEF SideInv, HelpersApart, AnsweredByItsOwn
<1> QED
  BY <1>1, <1>2, SideStep, PTL DEF SideSpec

-----------------------------------------------------------------------------
(* The battery: any status files and replaced directories *)

BatType ==
  /\ status \in [number : Nat, age : 0..Old, valid : BOOLEAN]
  /\ watch \in [armed : BOOLEAN, event : BOOLEAN, lost : BOOLEAN]
  /\ feed \in [pc : {"install", "publish", "wait"}, read : Nat]
  /\ supply \in [present : BOOLEAN, updated : 0..Old, shown : 0..Old, due : BOOLEAN]
  /\ batLeft \in [statuses : 0..Statuses, removals : 0..Removals]

\* The watch is installed before the first read, so it sees every file that
\* comes after it.
WatchFirst == feed.pc # "install" => watch.armed

\* What is shown is older than its last write by at most the age a file may
\* have, and the write no older than the watchdog lets it get: a round more,
\* between the end of the five seconds and the driver's work.
AgeBound ==
  supply.present =>
    /\ supply.shown <= supply.updated + Fresh
    /\ supply.updated <= Watchdog + 1
    /\ supply.updated = Watchdog + 1 => supply.due

BatInv == BatType /\ UpdateNotLost /\ WatchFirst /\ AgeBound

\* An age is counted up to Old, where it stays.
LEMMA AgeCounts ==
  ASSUME NEW a \in 0..Old
  PROVE  Min({Old, a + 1}) = IF a = Old THEN Old ELSE a + 1
<1> DEFINE m == IF a = Old THEN Old ELSE a + 1
<1>1. Old = 12
  BY DEF Old, Fresh, Watchdog
<1>2. m \in {Old, a + 1} /\ \A y \in {Old, a + 1} : m <= y
  BY <1>1
<1>3. \A x \in {Old, a + 1} : (\A y \in {Old, a + 1} : x <= y) => x = m
  BY <1>1, <1>2
<1> QED
  BY <1>2, <1>3, Zenon DEF Min

\* A file that is published is at most as old as one may be when read, and
\* the feed has read the file there is.
LEMMA PublishKeeps ==
  ASSUME BatInv, Publishes, UNCHANGED status
  PROVE  /\ supply' \in [present : BOOLEAN, updated : 0..Old, shown : 0..Old, due : BOOLEAN]
         /\ feed' \in [pc : {"install", "publish", "wait"}, read : Nat]
         /\ feed'.pc = "wait" /\ feed'.read = status'.number
         /\ AgeBound'
<1>1. CASE publish
  BY <1>1 DEF BatInv, BatType, AgeBound, Publishes, publish, Old, Fresh, Watchdog
<1>2. CASE ~publish
  BY <1>2, Zenon DEF BatInv, BatType, AgeBound, Publishes
<1> QED
  BY <1>1, <1>2, Zenon

\* Every step keeps the invariant.
LEMMA BatStep == BatInv /\ [BatNext]_batVars => BatInv'
<1> SUFFICES ASSUME BatInv, [BatNext]_batVars PROVE BatInv'
  OBVIOUS
<1> USE BatteryAssumption
<1>1. CASE Install
  BY <1>1, Zenon DEF Install, NoWatch, BatInv, BatType, UpdateNotLost, WatchFirst, AgeBound
<1>2. CASE FirstPublish
  <2>1. BatType' /\ AgeBound'
    BY <1>2, PublishKeeps, Zenon DEF FirstPublish, BatInv, BatType
  <2>2. UpdateNotLost' /\ WatchFirst'
    BY <1>2, PublishKeeps, Zenon DEF FirstPublish, BatInv, UpdateNotLost, WatchFirst
  <2> QED
    BY <2>1, <2>2, Zenon DEF BatInv
<1>3. CASE Wait
  <2>1. CASE watch.event /\ ~watch.lost /\ Publishes /\ watch' = [watch EXCEPT !.event = FALSE]
    <3>1. BatType' /\ AgeBound'
      BY <1>3, <2>1, PublishKeeps, Zenon DEF Wait, BatInv, BatType
    <3>2. UpdateNotLost' /\ WatchFirst'
      BY <1>3, <2>1, PublishKeeps, Zenon
      DEF Wait, BatInv, BatType, UpdateNotLost, WatchFirst
    <3> QED
      BY <3>1, <3>2, Zenon DEF BatInv
  <2>2. CASE watch.lost /\ watch' = NoWatch /\ feed' = [feed EXCEPT !.pc = "install"] /\ UNCHANGED supply
    BY <1>3, <2>2, Zenon
    DEF Wait, NoWatch, BatInv, BatType, UpdateNotLost, WatchFirst, AgeBound
  <2> QED
    BY <1>3, <2>1, <2>2, Zenon DEF Wait
<1>4. CASE AgentWrites
  <2>1. batLeft' \in [statuses : 0..Statuses, removals : 0..Removals]
    BY <1>4 DEF AgentWrites, BatInv, BatType
  <2>2. status' \in [number : Nat, age : 0..Old, valid : BOOLEAN]
    BY <1>4 DEF AgentWrites, BatInv, BatType, Old, Fresh, Watchdog
  <2>3. /\ watch' \in [armed : BOOLEAN, event : BOOLEAN, lost : BOOLEAN]
        /\ watch'.armed = watch.armed /\ watch'.lost = watch.lost
        /\ watch.armed => watch'.event \/ watch'.lost
    BY <1>4, Zenon DEF AgentWrites, BatInv, BatType
  <2>4. UNCHANGED <<feed, supply>>
    BY <1>4, Zenon DEF AgentWrites
  <2> QED
    BY <2>1, <2>2, <2>3, <2>4, Zenon
    DEF BatInv, BatType, UpdateNotLost, WatchFirst, AgeBound
<1>5. CASE DirectoryReplaced
  BY <1>5 DEF DirectoryReplaced, BatInv, BatType, UpdateNotLost, WatchFirst, AgeBound, Old, Fresh, Watchdog
<1>6. CASE expire
  <2>1. supply' = [present |-> supply.present /\ supply.updated <= Watchdog,
                   updated |-> supply.updated, shown |-> supply.shown, due |-> FALSE]
    BY <1>6, Zenon DEF expire, BatInv, BatType
  <2>2. supply' \in [present : BOOLEAN, updated : 0..Old, shown : 0..Old, due : BOOLEAN]
    BY <2>1, Zenon DEF BatInv, BatType
  <2>3. AgeBound'
    <3>1. /\ supply'.present => supply.present
          /\ supply'.present => supply.updated <= Watchdog
          /\ supply'.updated = supply.updated /\ supply'.shown = supply.shown
      BY <2>1, Zenon
    <3> QED
      BY <3>1 DEF BatInv, BatType, AgeBound, Watchdog, Fresh, Old
  <2> QED
    BY <1>6, <2>2, <2>3, Zenon DEF expire, BatInv, BatType, UpdateNotLost, WatchFirst
<1>7. CASE FiveSeconds
  <2>1. /\ Min({Old, status.age + 1}) = IF status.age = Old THEN Old ELSE status.age + 1
        /\ Min({Old, supply.updated + 1}) = IF supply.updated = Old THEN Old ELSE supply.updated + 1
        /\ Min({Old, supply.shown + 1}) = IF supply.shown = Old THEN Old ELSE supply.shown + 1
    BY AgeCounts, Zenon DEF BatInv, BatType
  <2>2. Old = 12 /\ Fresh = 4 /\ Watchdog = 6
    BY DEF Old, Fresh, Watchdog
  <2>3. /\ status'.number = status.number
        /\ status' \in [number : Nat, age : 0..Old, valid : BOOLEAN]
    BY <1>7, <2>1, <2>2 DEF FiveSeconds, BatInv, BatType
  <2>4. /\ supply' = [present |-> supply.present, due |-> TRUE,
                      updated |-> IF supply.updated = Old THEN Old ELSE supply.updated + 1,
                      shown |-> IF supply.shown = Old THEN Old ELSE supply.shown + 1]
        /\ ~supply.due
    BY <1>7, <2>1, Zenon DEF FiveSeconds, BatInv, BatType
  <2>5. supply' \in [present : BOOLEAN, updated : 0..Old, shown : 0..Old, due : BOOLEAN] /\ AgeBound'
    BY <2>2, <2>4 DEF BatInv, BatType, AgeBound
  <2> QED
    BY <1>7, <2>3, <2>5, Zenon DEF FiveSeconds, BatInv, BatType, UpdateNotLost, WatchFirst
<1>8. CASE UNCHANGED batVars
  BY <1>8, Zenon DEF batVars, BatInv, BatType, UpdateNotLost, WatchFirst, AgeBound
<1> QED
  BY <1>1, <1>2, <1>3, <1>4, <1>5, <1>6, <1>7, <1>8, Zenon DEF BatNext

\* The battery the guest shows is the Mac's: StatusWatch loses no file,
\* whatever is replaced and when, and the driver of linuxhost_battery.c shows
\* nothing older than its watchdog and the age publish accepts allow.
THEOREM BatteryStaysTrue == BatSpec => []BatteryShown
<1>1. BatInit => BatInv
  BY BatteryAssumption DEF BatInit, NoWatch, BatInv, BatType, UpdateNotLost, WatchFirst, AgeBound, Old, Fresh, Watchdog
<1>2. BatInv => BatteryShown
  BY DEF BatInv, BatType, BatteryShown, ShownIsRecent, AgeBound, Old, Fresh, Watchdog
<1> QED
  BY <1>1, <1>2, BatStep, PTL DEF BatSpec
=============================================================================
