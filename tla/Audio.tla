------------------------------- MODULE Audio --------------------------------
(***************************************************************************)
(* Output selection and volume: the guest bridge of src/guest/devices/     *)
(* audio_pipewire.py with its events (audio_events.py) and its master      *)
(* volume (audio_volume.py), between PipeWire in the guest and the Mac's   *)
(* audio devices (src/host/devices/AudioBackend.swift).  Users change the  *)
(* default device and its level on both sides; the bridge follows.  One    *)
(* direction is modelled, output, which has the volume as well.            *)
(*                                                                         *)
(* A level of the Mac is 1 or 2, full scale;    PipeWire's linear volume is*)
(* its cube, and may exceed full scale.  Mute is one more level, and the   *)
(* balance of the channels is left out.                                    *)
(***************************************************************************)
EXTENDS Integers, Sequences, FiniteSets

CONSTANTS
  AudioDevices,  \* the Mac's output devices
  Nothing,       \* no value
  FixedLevel,    \* those with no master volume to write (HDMI)
  AudioBudgets   \* bounds, one record per instance explored: the devices
                 \* there at the start, changes by the guest's user (guest),
                 \* by the Mac's (host), device hotplug (plugs), session
                 \* changes (switches), deaths of a loopback child (deaths),
                 \* reconciliations that overtake an event (lags), losses and
                 \* returns of the status feed (losses), ends (quits)

ASSUME AudioAssumption ==
  /\ IsFiniteSet(AudioDevices) /\ FixedLevel \subseteq AudioDevices
  /\ Nothing \notin AudioDevices \cup AudioDevices \X Nat
  /\ AudioBudgets \subseteq [there : SUBSET AudioDevices \ {{}},
       guest : Nat, host : Nat, plugs : Nat, switches : Nat, deaths : Nat,
       lags : Nat, losses : Nat, quits : Nat]

VARIABLES
  mac,     \* devices, default, levels, whether the session is active
  pw,      \* PipeWire: nodes, configured default, events not yet delivered
  graph,   \* Graph: nodes and default as the bridge knows them
  bridge,  \* AudioBridge and AudioEvents
  master,  \* OutputVolume
  tale,    \* history: events overtaken, a level of the bridge's own sent to the Mac
  audLeft  \* what is left of the budget

audVars == <<mac, pw, graph, bridge, master, tale, audLeft>>

AudSpend(kind) ==
  /\ audLeft[kind] > 0
  /\ audLeft' = [audLeft EXCEPT ![kind] = @ - 1]

Transport == "transport"  \* the default before the bridge: the HDA sink
Cube(v) == v * v * v
MacLevels == 1..2
GuestLevels == {1, 8, 27}
Root(l) == IF l >= 8 THEN 2 ELSE 1  \* at most full scale

NewNode(id) == [level |-> 8, unity |-> FALSE, by |-> "session", id |-> id]

NoMaster == [key |-> Nothing, host |-> 0, seen |-> 0, pending |-> Nothing]

AudInit ==
  /\ audLeft \in AudioBudgets
  /\ mac = [devices |-> audLeft.there, default |-> CHOOSE d \in audLeft.there : TRUE,
            level |-> [d \in AudioDevices |-> 1], active |-> TRUE,
            news |-> FALSE, feed |-> TRUE]
  /\ pw = [nodes |-> <<>>, default |-> Transport, setting |-> Nothing,
           events |-> <<>>, dead |-> {}, ids |-> [d \in AudioDevices |-> 0]]
  /\ graph = [ready |-> FALSE, nodes |-> <<>>, default |-> Transport,
              dirty |-> TRUE]
  /\ bridge = [at |-> "idle", timers |-> {}, dirty |-> TRUE, polling |-> FALSE,
               active |-> TRUE, state |-> Nothing, original |-> Nothing,
               children |-> {}, observed |-> Nothing, pending |-> Nothing]
  /\ master = NoMaster
  /\ tale = [overtaken |-> 0, echo |-> FALSE]

-----------------------------------------------------------------------------
(* AudioEvents: timers by name; a name already armed is left as it is. *)

later(b, names) == [b EXCEPT !.timers = @ \cup names]
notify(b) == later(b, {"reconcile"})

\* As refresh_host, but the device list is not fetched again.
refresh_host_lazy(b) == notify(b)

refresh_host(b) == notify([b EXCEPT !.dirty = TRUE])

\* An inactive host will announce its return.
retry(b) == IF ~b.polling /\ ~b.active THEN b ELSE later(b, {"retry"})

\* A fresh status gives the revision and the session: whatever differs from
\* the last one refreshes.  Without it the host is polled every second.
read_host ==
  bridge' =
    IF mac.feed
    THEN LET b == [bridge EXCEPT !.timers = @ \ {"fallback"}, !.polling = FALSE,
                                 !.active = mac.active]
         IN IF mac.news \/ bridge.polling THEN refresh_host(b) ELSE b
    ELSE [later(bridge, {"fallback"}) EXCEPT !.polling = TRUE]

Running == bridge.at # "closed"
Idle == bridge.at = "idle"

StatusRead ==
  /\ Idle /\ (IF mac.feed THEN mac.news \/ bridge.polling ELSE ~bridge.polling)
  /\ read_host
  /\ mac' = [mac EXCEPT !.news = FALSE]
  /\ UNCHANGED <<pw, graph, master, tale, audLeft>>

\* The timers other than reconcile.  A deadline's write is late by then,
\* unless the timer was armed for an earlier one.
Fire(t) ==
  /\ Idle /\ t \in bridge.timers \ {"reconcile"}
  /\ LET b == [bridge EXCEPT !.timers = @ \ {t}]
         Late(p) == IF p # Nothing /\ p.own THEN [p EXCEPT !.late = TRUE] ELSE p
     IN /\ bridge' =
             CASE t = "retry" -> refresh_host(b)
               [] t = "fallback" -> later(refresh_host(b), {"fallback"})
               [] t = "defaults-deadline" -> notify([b EXCEPT !.pending = Late(@)])
               [] t = "volume-deadline" -> notify(b)
        /\ master' = IF t = "volume-deadline"
                     THEN [master EXCEPT !.pending = Late(@)] ELSE master
  /\ UNCHANGED <<mac, pw, graph, tale, audLeft>>

\* receive and Graph.update: the next event of pw-dump.
GraphEvent ==
  /\ Idle /\ pw.events # <<>>
  /\ LET e == Head(pw.events)
     IN graph' = CASE e.kind = "default" -> [graph EXCEPT !.dirty = TRUE]
                   [] e.kind = "gone" -> [graph EXCEPT !.nodes =
                        [d \in DOMAIN @ \ {e.device} |-> @[d]]]
                   [] OTHER -> [graph EXCEPT !.nodes =
                        [d \in DOMAIN @ \cup {e.device} |->
                           IF d = e.device THEN e.node ELSE @[d]]]
  /\ pw' = [pw EXCEPT !.events = Tail(@)]
  /\ bridge' = IF Head(pw.events).kind = "default" \/ graph' # graph
               THEN notify(bridge) ELSE bridge
  /\ UNCHANGED <<mac, master, tale, audLeft>>

\* The first, complete dump.
GraphReady ==
  /\ Idle /\ ~graph.ready
  /\ graph' = [graph EXCEPT !.ready = TRUE]
  /\ bridge' = notify(bridge)
  /\ UNCHANGED <<mac, pw, master, tale, audLeft>>

-----------------------------------------------------------------------------
(* AudioBridge.reconcile in three parts: what it reads, the default, the   *)
(* volume.  No other callback runs meanwhile, but PipeWire and the Mac do. *)

Told(m) == [devices |-> m.devices, default |-> m.default, level |-> m.level]

\* A node of PipeWire's is written: if that changes it, its event is on the
\* way.
Shows(p, d, n) ==
  IF p.nodes[d].level = n.level /\ p.nodes[d].unity = n.unity THEN p
  ELSE [p EXCEPT !.nodes[d] = n, !.events = Append(@,
          [kind |-> "node", device |-> d, node |-> n])]

Alive(d, id) == d \in DOMAIN pw.nodes /\ pw.nodes[d].id = id

\* OutputVolume.fallback: if the level was the bridge's, the node applies its
\* own gain again, at the level the bridge last heard of.
fallback(p, d) ==
  IF /\ master.key # Nothing /\ d \in DOMAIN graph.nodes \cap DOMAIN p.nodes
     /\ p.nodes[d].id = graph.nodes[d].id
  THEN Shows(p, d, [graph.nodes[d] EXCEPT !.unity = FALSE]) ELSE p

\* The fallback of the exception handler, for the node last synchronised; a
\* node the bridge has not heard of, or that is gone, is left alone.
Local(p) ==
  LET mine == {d \in DOMAIN graph.nodes : master.key = <<d, graph.nodes[d].id>>}
  IN IF mine = {} THEN p ELSE fallback(p, CHOOSE d \in mine : TRUE)

\* stop_child for the nodes of some devices.
StopNodes(p, ds) ==
  LET there == ds \cap DOMAIN p.nodes
      gone == CHOOSE q \in [1..Cardinality(there) -> there] :
                \A i, j \in DOMAIN q : i # j => q[i] # q[j]
  IN [p EXCEPT !.nodes = [d \in DOMAIN @ \ ds |-> @[d]], !.dead = @ \ ds,
               !.events = @ \o [i \in DOMAIN gone |->
                                  [kind |-> "gone", device |-> gone[i]]]]

\* The exception handler: the local gain is restored, the state is stale.
Failed(b, p) ==
  /\ bridge' = retry([b EXCEPT !.at = "idle", !.state = Nothing])
  /\ master' = NoMaster
  /\ pw' = Local(p)

\* What PipeWire has told is not read yet: the reconciliation overtakes it.
Overtakes == pw.events # <<>>

Fetches == bridge.dirty \/ bridge.state = Nothing

ReconcileRead ==
  /\ Idle /\ "reconcile" \in bridge.timers
  /\ IF Overtakes THEN AudSpend("lags") ELSE UNCHANGED audLeft
  /\ tale' = IF Overtakes THEN [tale EXCEPT !.overtaken = @ + 1] ELSE tale
  /\ LET b == [bridge EXCEPT !.timers = @ \ {"reconcile"}]
         known == IF graph.dirty THEN pw.default ELSE graph.default
         read == [b EXCEPT !.original = IF @ = Nothing THEN known ELSE @]
     IN IF ~graph.ready
        THEN bridge' = b /\ UNCHANGED <<pw, graph, master>>
        ELSE /\ graph' = [graph EXCEPT !.default = known, !.dirty = FALSE]
             /\ IF Fetches /\ ~mac.active
                THEN Failed(read, pw)
                ELSE /\ bridge' = [read EXCEPT !.at = "default", !.dirty = FALSE,
                          !.state = IF Fetches THEN Told(mac) ELSE @]
                     /\ UNCHANGED <<pw, master>>
  /\ UNCHANGED mac

\* The default: children follow the device list; a choice of the guest's
\* user goes to the Mac, the Mac's own choice comes back.
ReconcileDefault ==
  /\ bridge.at = "default"
  /\ LET st == bridge.state
         sel == graph.default
         p == bridge.pending
         b == [bridge EXCEPT !.children = st.devices]
         kept == StopNodes(pw, AudioDevices \ st.devices)
         picks == bridge.observed \notin {Nothing, sel} /\ sel \in st.devices
         now == IF picks THEN [Told(mac) EXCEPT !.default = sel] ELSE st
         set == sel # now.default /\ now.default \in DOMAIN graph.nodes
     IN IF p # Nothing /\ sel = p.before /\ ~p.late
        THEN /\ bridge' = [b EXCEPT !.at = "idle"] /\ pw' = kept
             /\ UNCHANGED <<mac, graph, master, tale>>
        ELSE IF \/ picks /\ (~mac.active \/ sel \notin mac.devices)
                \/ set /\ now.default \notin DOMAIN kept.nodes
        THEN /\ Failed([b EXCEPT !.pending = Nothing], kept)
             /\ mac' = IF picks /\ mac.active /\ sel \in mac.devices
                       THEN [mac EXCEPT !.default = sel, !.news = TRUE] ELSE mac
             /\ UNCHANGED <<graph, tale>>
        ELSE /\ mac' = IF picks /\ mac.default # sel
                       THEN [mac EXCEPT !.default = sel, !.news = TRUE] ELSE mac
             /\ pw' = IF set THEN [kept EXCEPT !.setting = now.default] ELSE kept
             /\ graph' = [graph EXCEPT !.dirty = @ \/ set]
             /\ bridge' = [later(b, IF set THEN {"reconcile", "defaults-deadline"}
                                    ELSE {}) EXCEPT
                  !.at = "volume", !.state = now,
                  !.observed = IF set THEN now.default ELSE sel,
                  !.pending = IF ~set THEN Nothing ELSE
                    [before |-> sel, late |-> FALSE,
                     own |-> "defaults-deadline" \notin b.timers]]
             /\ UNCHANGED <<master, tale>>
  /\ UNCHANGED audLeft

\* OutputVolume.reconcile for the node n of device d and the host's level:
\* what the pending write, if any, says about the level now shown.
Own(n, d) == master.key = <<d, n.id>> /\ master.pending # Nothing
Echo(n, d) == Own(n, d) /\ n.level = master.pending.wanted
Unchanged(n, d) == Own(n, d) /\ ~Echo(n, d) /\ n.level = master.pending.before

\* The level shown is the user's choice.
Chosen(n, d, host) ==
  /\ master.key = <<d, n.id>> /\ ~Unchanged(n, d)
  /\ host = master.host /\ n.level # master.seen

\* As Seen, but what was shown before the write.
Seen_before(n, host) == n.level

\* What the bridge takes as already synchronised.
Seen(n, host) == Cube(host)

\* setOutputVolume: a fresh read must match what the guest expected.
Accepts(d, host) == mac.active /\ mac.default = d /\ mac.level[d] = host

ReconcileVolume ==
  /\ bridge.at = "volume"
  /\ UNCHANGED <<graph, audLeft>>
  /\ LET st == bridge.state
         d == st.default
         b == [bridge EXCEPT !.at = "idle"]
     IN IF d # bridge.observed \/ d \notin DOMAIN graph.nodes
        THEN bridge' = b /\ UNCHANGED <<mac, pw, master, tale>>
        ELSE IF d \in FixedLevel
        THEN /\ IF master.key # Nothing /\ ~Alive(d, graph.nodes[d].id)
                THEN Failed(b, pw)
                ELSE bridge' = b /\ master' = NoMaster /\ pw' = fallback(pw, d)
             /\ UNCHANGED <<mac, tale>>
        ELSE
        LET n == graph.nodes[d]
            chosen == Chosen(n, d, st.level[d])
            taken == chosen /\ Accepts(d, st.level[d])
            after == IF taken THEN [mac EXCEPT !.level[d] = Root(n.level),
                                               !.news = TRUE] ELSE mac
            host == IF chosen THEN after.level[d] ELSE st.level[d]
            moved == chosen /\ mac.default # d
            writes == n.level # Cube(host) \/ ~n.unity
            shown == [n EXCEPT !.level = Cube(host), !.unity = TRUE,
                               !.by = "bridge"]
        IN IF /\ Unchanged(n, d) /\ st.level[d] = master.host
              /\ ~master.pending.late
           THEN bridge' = b /\ UNCHANGED <<mac, pw, master, tale>>
           ELSE IF \/ chosen /\ ~mac.active
                   \/ (moved \/ writes) /\ ~Alive(d, n.id)
           THEN /\ Failed(b, pw) /\ mac' = after
                /\ tale' = [tale EXCEPT !.echo = @ \/ (taken /\ n.by # "user")]
           ELSE /\ mac' = after
                /\ tale' = [tale EXCEPT !.echo = @ \/ (taken /\ n.by # "user")]
                /\ IF moved
                   THEN /\ master' = NoMaster /\ pw' = fallback(pw, d)
                        /\ bridge' = [b EXCEPT !.state = Told(after)]
                   ELSE /\ master' = [key |-> <<d, n.id>>, host |-> host,
                             seen |-> Seen(n, host),
                             pending |-> IF writes
                               THEN [before |-> n.level, wanted |-> Cube(host),
                                     late |-> FALSE,
                                     own |-> "volume-deadline" \notin b.timers]
                               ELSE Nothing]
                        /\ pw' = IF writes THEN Shows(pw, d, shown) ELSE pw
                        /\ bridge' = later([b EXCEPT !.state =
                                              IF chosen THEN Told(after) ELSE @],
                                       IF writes THEN {"volume-deadline"} ELSE {})

\* run: the default found at the start comes back before the nodes go.
Quit ==
  /\ Idle /\ pw.setting = Nothing /\ AudSpend("quits")
  /\ LET back == IF bridge.original = Nothing THEN Transport ELSE bridge.original
         there == back = Transport \/ back \in DOMAIN pw.nodes
     IN pw' = StopNodes([pw EXCEPT !.default =
                IF bridge.original # Nothing /\ @ \in AudioDevices /\ there
                THEN back ELSE @], AudioDevices)
  /\ bridge' = [bridge EXCEPT !.at = "closed", !.timers = {}, !.children = {}]
  /\ UNCHANGED <<mac, graph, master, tale>>

-----------------------------------------------------------------------------
(* PipeWire and the two users *)

NodeAppears ==
  /\ \E d \in bridge.children \ (pw.dead \cup DOMAIN pw.nodes) :
       LET n == NewNode(pw.ids[d] + 1)
       IN pw' = [pw EXCEPT !.ids[d] = @ + 1,
                   !.nodes = [x \in DOMAIN @ \cup {d} |->
                                IF x = d THEN n ELSE @[x]],
                   !.events = Append(@, [kind |-> "node", device |-> d,
                                         node |-> n])]
  /\ UNCHANGED <<mac, graph, bridge, master, tale, audLeft>>

\* wpctl's write of the default lands.
DefaultLands ==
  /\ pw.setting # Nothing
  /\ pw' = [pw EXCEPT !.default = pw.setting, !.setting = Nothing,
                      !.events = Append(@, [kind |-> "default"])]
  /\ UNCHANGED <<mac, graph, bridge, master, tale, audLeft>>

\* A loopback process ends and its node with it; child_exited comes later.
ChildDies ==
  /\ AudSpend("deaths")
  /\ \E d \in DOMAIN pw.nodes :
       pw' = [StopNodes(pw, {d}) EXCEPT !.dead = @ \cup {d}]
  /\ UNCHANGED <<mac, graph, bridge, master, tale>>

child_exited ==
  /\ Idle
  /\ \E d \in pw.dead :
       /\ pw' = [pw EXCEPT !.dead = @ \ {d}]
       /\ bridge' = retry([bridge EXCEPT !.children = @ \ {d}])
  /\ UNCHANGED <<mac, graph, master, tale, audLeft>>

UserLevel ==
  /\ AudSpend("guest")
  /\ \E d \in DOMAIN pw.nodes, l \in GuestLevels :
       /\ l # pw.nodes[d].level
       /\ pw' = Shows(pw, d, [pw.nodes[d] EXCEPT !.level = l, !.unity = FALSE,
                                                 !.by = "user"])
  /\ UNCHANGED <<mac, graph, bridge, master, tale>>

UserDefault ==
  /\ AudSpend("guest")
  /\ \E x \in DOMAIN pw.nodes \cup {Transport} :
       /\ x # pw.default
       /\ pw' = [pw EXCEPT !.default = x, !.events = Append(@, [kind |-> "default"])]
  /\ UNCHANGED <<mac, graph, bridge, master, tale>>

\* CoreAudio tells; the status feed carries the new revision.
MacChanges(m) ==
  /\ mac' = [m EXCEPT !.news = TRUE]
  /\ UNCHANGED <<pw, graph, bridge, master, tale>>

MacLevel ==
  /\ AudSpend("host")
  /\ \E v \in MacLevels : v # mac.level[mac.default]
                     /\ MacChanges([mac EXCEPT !.level[mac.default] = v])

MacDefault ==
  /\ AudSpend("host")
  /\ \E d \in mac.devices \ {mac.default} :
       MacChanges([mac EXCEPT !.default = d])

\* A device other than the last one comes or goes.
MacPlug ==
  /\ AudSpend("plugs")
  /\ \E d \in AudioDevices :
       /\ mac.devices # {d}
       /\ LET there == IF d \in mac.devices THEN mac.devices \ {d}
                       ELSE mac.devices \cup {d}
          IN MacChanges([mac EXCEPT !.devices = there,
               !.default = IF @ \in there THEN @ ELSE CHOOSE x \in there : TRUE])

MacSwitch == AudSpend("switches") /\ MacChanges([mac EXCEPT !.active = ~@])

\* The status is lost, or older than 25 seconds; or it comes again.
Feed ==
  /\ AudSpend("losses")
  /\ mac' = [mac EXCEPT !.feed = ~@]
  /\ UNCHANGED <<pw, graph, bridge, master, tale>>

Sources == StatusRead \/ GraphEvent \/ GraphReady \/ child_exited
Reconcile == ReconcileRead \/ ReconcileDefault \/ ReconcileVolume
Retries == Fire("retry") \/ Fire("fallback")
Deadlines == Fire("defaults-deadline") \/ Fire("volume-deadline")

AudNext ==
  \/ Sources \/ Reconcile \/ Retries \/ Deadlines \/ Quit
  \/ NodeAppears \/ DefaultLands \/ ChildDies \/ UserLevel \/ UserDefault
  \/ MacLevel \/ MacDefault \/ MacPlug \/ MacSwitch \/ Feed

AudSpec == AudInit /\ [][AudNext]_audVars

\* The main loop serves its sources and timers in turn, and PipeWire carries
\* out what it is told.
AudFairness ==
  /\ WF_audVars(Sources) /\ WF_audVars(Reconcile)
  /\ WF_audVars(Retries) /\ WF_audVars(Deadlines)
  /\ WF_audVars(NodeAppears) /\ WF_audVars(DefaultLands)

-----------------------------------------------------------------------------
(* Properties *)

\* As long as every reconciliation starts with all that PipeWire has told,
\* only levels a user chose reach the Mac, whatever happens while it runs.
EchoNeedsLateEvent == tale.echo => tale.overtaken > 0

Synced ==
  /\ pw.default = mac.default /\ mac.default \in DOMAIN pw.nodes
  /\ LET n == pw.nodes[mac.default]
     IN IF mac.default \in FixedLevel THEN ~n.unity
        ELSE n.unity /\ n.level = Cube(mac.level[mac.default])

\* Once both users leave it alone, the guest shows the Mac's default output
\* at the Mac's level, with the gain applied once: whatever was lost,
\* overtaken or restarted on the way.
AudioSettles == []<>(~Running \/ ~mac.active \/ Synced)

\* A write that no timer guards: the name of its deadline was still armed
\* for an earlier one.
Unguarded ==
  \/ bridge.pending # Nothing /\ ~bridge.pending.own
  \/ master.pending # Nothing /\ ~master.pending.own

\* Synchronised, or waiting for a write that no deadline guards.
Settled == ~Running \/ ~mac.active \/ Synced \/ Unguarded
=============================================================================
