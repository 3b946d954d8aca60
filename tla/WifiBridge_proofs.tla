-------------------------- MODULE WifiBridge_proofs --------------------------
(***************************************************************************)
(* Proofs about the cfg80211 driver and about the bridge and the Mac       *)
(* composed with it, for any networks, access points, readers, request-    *)
(* number width and bounds. The driver's sections strengthen each          *)
(* property of interest to an inductive invariant and show that every      *)
(* step of the driver, whatever the bridge, preserves it. The composition  *)
(* then implements the driver's own specification, so what is proved of    *)
(* the driver holds of it.  Last come the promises of the bridge itself,   *)
(* for every number of failures, crashes, roams and access points: a       *)
(* confirmed disconnect, a complete scan, a link that is the Mac's,        *)
(* requests that are performed once, and losses that happened.             *)
(***************************************************************************)
EXTENDS WifiBridge, TLAPS

-----------------------------------------------------------------------------
(* Types                                                                   *)

\* Arming, firing and cancelling delayed work keep its times within the timeout.
LEMMA TimesType ==
    ASSUME NEW ticks \in Nat \ {0}, NEW t \in Times(ticks)
    PROVE  /\ Armed(t, ticks) \in Times(ticks)
           /\ Later(t) \in Times(ticks)
           /\ Fired(t) \in Times(ticks)
           /\ Returned(t) \in Times(ticks)
           /\ Rearmed(t) \in Times(ticks)
           /\ Cancelled(t) \in Times(ticks)
<1>1. Armed(t, ticks) \in Times(ticks)
  BY DEF Armed, Times
<1>2. Later(t) \in Times(ticks)
  BY DEF Later, Sooner, Times
<1>3. Fired(t) \in Times(ticks)
  BY DEF Fired, Times
<1>4. Returned(t) \in Times(ticks)
  BY Zenon DEF Returned, Times
<1>5. Rearmed(t) \in Times(ticks)
  BY DEF Rearmed, Times
<1>6. Cancelled(t) \in Times(ticks)
  BY DEF Cancelled, Times
<1> QED
  BY <1>1, <1>2, <1>3, <1>4, <1>5, <1>6, Zenon

\* begin_connection and start_scan never issue request number zero.
LEMMA NextSequenceType ==
    ASSUME NEW n \in 0 .. SeqMod - 1
    PROVE  NextSequence(n) \in 1 .. SeqMod - 1
  BY ConstantsAssumption DEF NextSequence

\* A wakeup changes nothing of a reader but its woken flag.
LEMMA WokenType ==
    ASSUME reader \in [Reader -> Readers]
    PROVE  Woken \in [Reader -> Readers]
  BY Zenon DEF Woken, Readers

\* The steps of poll() change a reader's poll state and woken flag only.
LEMMA PollType ==
    ASSUME reader \in [Reader -> Readers], NEW r \in Reader,
           NEW p \in {"idle", "registered", "asleep"}, NEW w \in BOOLEAN
    PROVE  [reader EXCEPT ![r].poll = p, ![r].woken = w] \in [Reader -> Readers]
<1>1. reader[r] \in Readers
  OBVIOUS
<1>2. [reader[r] EXCEPT !.poll = p, !.woken = w] \in Readers
  BY <1>1, Zenon DEF Readers
<1> QED
  BY <1>2, Zenon

\* finish_connection leaves well-formed fields behind, however it is called.
LEMMA FinishType ==
    ASSUME conn \in Connections, link \in Links,
           NEW status, NEW b \in BSSID \cup {NoAP},
           cfg \in CfgStates
    PROVE  /\ NoConnection \in Connections
           /\ NoLink \in Links
           /\ FinishedLink(status, b) \in Links
           /\ FinishedCfg(status) \in CfgStates
  BY ConstantsAssumption DEF NoConnection, Connections, NoLink, Links,
     FinishedLink, FinishedCfg, Idle, CfgStates

\* Every step of the driver keeps the types.
LEMMA TypeStep == TypeOK /\ Next => TypeOK'
<1> SUFFICES ASSUME TypeOK, Step, overlap' \in BOOLEAN PROVE TypeOK'
  BY Zenon DEF Next, RecordOverlap, TypeOK
<1> USE ConstantsAssumption DEF TypeOK, linkVars, lockVars, deviceVars, unlockedVars
<1>1. ASSUME NEW s \in SSID, NEW b \in BSSID \cup {NoAP}, NEW k \in BOOLEAN,
             connect_network(s, b, k)
      PROVE TypeOK'
  BY <1>1, TimesType, NextSequenceType, WokenType DEF connect_network,
     begin_connection, Connections, Connect, Requests, Usage, CfgStates
<1>2. CASE disconnect_network
  <2>1. link' \in Links /\ cfg' \in CfgStates /\ wiphy' \in WiphyStates
    BY <1>2, FinishType DEF disconnect_network, WiphyStates
  <2>2. signal' \in Signals
    BY <1>2, Zenon DEF disconnect_network, Signals
  <2>3. conn' \in Connections /\ connection_sequence' \in 0 .. SeqMod - 1
    BY <1>2, NextSequenceType
       DEF disconnect_network, begin_connection, Connections, Disconnect
  <2>4. connTime' \in Times(ConnTicks) /\ used' \in Usage
    BY <1>2, TimesType DEF disconnect_network, begin_connection, Usage
  <2> QED
    BY <1>2, <2>1, <2>2, <2>3, <2>4, WokenType, Zenon DEF disconnect_network
<1>3. CASE start_scan
  BY <1>3, TimesType, NextSequenceType, WokenType DEF start_scan, Scans, Usage
<1>4. CASE abort_scan
  BY <1>4, Zenon DEF abort_scan, finish_scan, Scans
<1>5. CASE OpenDevice
  BY <1>5, Zenon DEF OpenDevice
<1>6. CASE stop_device
  BY <1>6, FinishType, Zenon DEF stop_device, Links, Scans, Signals, RtnlStates, CfgStates
<1>7. CASE CancelWork
  BY <1>7, TimesType, Zenon DEF CancelWork, RtnlStates
<1>8. CASE DecideCarrier
  BY <1>8, Zenon DEF DecideCarrier, WiphyStates
<1>9. CASE SetCarrier
  BY <1>9, Zenon DEF SetCarrier, WiphyStates
<1>10. CASE FireConnectionTimer
  BY <1>10, TimesType, Zenon DEF FireConnectionTimer
<1>11. CASE FireScanTimer
  BY <1>11, TimesType, Zenon DEF FireScanTimer
<1>12. CASE connection_timeout
  <2>1. signal' \in Signals
    BY <1>12, Zenon DEF connection_timeout, finish_connection, Signals
  <2> QED
    BY <1>12, <2>1, TimesType, FinishType
       DEF connection_timeout, finish_connection, WiphyStates
<1>13. CASE scan_timeout
  BY <1>13, TimesType, Zenon DEF scan_timeout, Scans
<1>14. CASE Tick
  BY <1>14, TimesType, Zenon DEF Tick
<1>15. CASE SignalAges
  BY <1>15, Zenon DEF SignalAges, Signals
<1>16. CASE LowerCarrier
  <2>1. lower' \in LowerDevices
    BY <1>16, Zenon DEF LowerCarrier, LowerDevices
  <2> QED
    BY <1>16, <2>1 DEF LowerCarrier, LowerChanged, Usage
<1>17. CASE Linkwatch
  BY <1>17, Zenon DEF Linkwatch, LowerDevices, RtnlStates
<1>18. CASE LowerAdmin
  <2>1. lower' \in LowerDevices
    BY <1>18, Zenon DEF LowerAdmin, LowerDevices
  <2> QED
    BY <1>18, <2>1 DEF LowerAdmin, LowerChanged, RtnlStates, Usage
<1>19. CASE lower_event
  BY <1>19, Zenon DEF lower_event, RtnlStates
<1>20. CASE LowerEventSetsCarrier
  BY <1>20, Zenon DEF LowerEventSetsCarrier, RtnlStates
<1>21. CASE detach_lower
  <2>1. used' \in Usage
    BY <1>21 DEF detach_lower, LowerChanged, Usage
  <2> QED
    BY <1>21, <2>1, Zenon DEF detach_lower, RtnlStates
<1>22. CASE DetachPointer
  BY <1>22, Zenon DEF DetachPointer, RtnlStates, LowerDevices
<1>23. ASSUME NEW r \in Reader, bridge_open(r) \/ bridge_release(r) \/ Poll(r)
       PROVE TypeOK'
  <2>1. CASE bridge_open(r) \/ bridge_release(r)
    <3>1. NewReader(TRUE) \in Readers /\ NewReader(FALSE) \in Readers
      BY DEF NewReader, Readers
    <3> QED
      BY <2>1, <3>1, Zenon DEF bridge_open, bridge_release
  <2>2. CASE PollRegister(r)
    <3>1. reader' \in [Reader -> Readers]
      BY <2>2, PollType, Zenon DEF PollRegister
    <3> QED
      BY <2>2, <3>1, Zenon DEF PollRegister
  <2>3. CASE bridge_poll(r)
    BY <2>3 DEF bridge_poll, Readers
  <2>4. CASE PollWake(r)
    <3>1. reader' \in [Reader -> Readers]
      BY <2>4, PollType, Zenon DEF PollWake
    <3> QED
      BY <2>4, <3>1, Zenon DEF PollWake
  <2>5. CASE PollTimeout(r)
    <3>1. reader' \in [Reader -> Readers]
      BY <2>5, PollType, Zenon DEF PollTimeout
    <3> QED
      BY <2>5, <3>1, Zenon DEF PollTimeout
  <2> QED
    BY <1>23, <2>1, <2>2, <2>3, <2>4, <2>5, Zenon DEF Poll
<1>24. ASSUME NEW r \in Reader, Ioctl(r)
       PROVE TypeOK'
  <2>1. CASE LH_GET_SCAN(r) \/ LH_GET_CONNECTION(r)
    BY <2>1, SMTT(30) DEF LH_GET_SCAN, LH_GET_CONNECTION, Readers, Connections, Scans
  <2>2. ASSUME NEW n \in RequestNumbers, LH_FINISH_SCAN(r, n)
        PROVE TypeOK'
    BY <2>2, Zenon DEF LH_FINISH_SCAN, finish_scan, Scans
  <2>3. ASSUME NEW n \in RequestNumbers, NEW s \in {Success, Failure},
               NEW b \in BSSID \cup {NoAP},
               LH_CONNECTION_RESULT(r, n, s, b)
        PROVE TypeOK'
    <3>1. signal' \in Signals
      BY <2>3, Zenon DEF LH_CONNECTION_RESULT, finish_connection, Signals
    <3> QED
      BY <2>3, <3>1, FinishType DEF LH_CONNECTION_RESULT, finish_connection, WiphyStates
  <2>4. ASSUME NEW b \in BSSID, LH_SIGNAL(r, b)
        PROVE TypeOK'
    BY <2>4, Zenon DEF LH_SIGNAL, Signals
  <2>5. ASSUME NEW n \in RequestNumbers, report_link_down(r, n)
        PROVE TypeOK'
    BY <2>5, FinishType, Zenon DEF report_link_down, Signals, WiphyStates, CfgStates
  <2>6. ASSUME NEW n \in RequestNumbers, NEW record \in Records, report_link_roam(r, n, record)
        PROVE TypeOK'
    BY <2>6, Zenon DEF report_link_roam, Links, Records, Signals
  <2> QED
    BY <1>24, <2>1, <2>2, <2>3, <2>4, <2>5, <2>6, Zenon DEF Ioctl
<1> QED
  BY <1>1, <1>2, <1>3, <1>4, <1>5, <1>6, <1>7, <1>8, <1>9, <1>10, <1>11, <1>12, <1>13,
     <1>14, <1>15, <1>16, <1>17, <1>18, <1>19, <1>20, <1>21, <1>22, <1>23, <1>24, Zenon
     DEF Step, Cfg80211, Kernel, Lower

\* lh_init leaves a well-formed state.
LEMMA InitType == Init => TypeOK
<1> SUFFICES ASSUME Init PROVE TypeOK
  OBVIOUS
<1>1. conn \in Connections /\ link \in Links
  BY ConstantsAssumption
     DEF Init, NoConnection, Connections, NoLink, Links, Idle
<1>2. connTime \in Times(ConnTicks) /\ scanTime \in Times(ScanTicks)
  BY ConstantsAssumption DEF Init, NoTime, Times
<1>3. reader \in [Reader -> Readers]
  BY ConstantsAssumption DEF Init, NewReader, Readers
<1>4. scan \in Scans /\ signal \in Signals /\ asked \in Requests /\ used \in Usage
  BY ConstantsAssumption DEF Init, Scans, Signals, Requests, Usage
<1>5. lower \in LowerDevices
  BY DEF Init, LowerDevices
<1>6. connection_sequence \in 0 .. SeqMod - 1
  BY ConstantsAssumption, Zenon DEF Init
<1>7. wiphy \in WiphyStates /\ rtnl \in RtnlStates /\ cfg \in CfgStates
  BY Zenon DEF Init, WiphyStates, RtnlStates, CfgStates
<1> QED
  BY <1>1, <1>2, <1>3, <1>4, <1>5, <1>6, <1>7, Zenon DEF Init, TypeOK

\* The driver's state stays well-formed in every behaviour; in particular the
\* request numbers stay within their width.
THEOREM TypeCorrect == Spec => []TypeOK
<1>1. TypeOK /\ [Next]_vars => TypeOK'
  <2>1. TypeOK /\ UNCHANGED vars => TypeOK'
    BY Zenon DEF TypeOK, vars, driverVars
  <2> QED
    BY <2>1, TypeStep, Zenon
<1> QED
  BY <1>1, InitType, PTL DEF Spec

-----------------------------------------------------------------------------
(* The link contract                                                       *)

\* The pending connect carries the request cfg80211 made last, and an
\* established link carries the contract of that request.
ContractInv ==
    /\ conn.operation = Connect =>
         /\ ~link.connected
         /\ conn.ssid = asked.ssid
         /\ conn.psk <=> asked.psk
         /\ conn.bssid = asked.bssid
    /\ link.connected =>
         /\ link.ssid = asked.ssid
         /\ link.privacy <=> asked.psk
         /\ link.pinned <=> asked.bssid # NoAP
         /\ link.pinned => link.bssid = asked.bssid

\* A stored sample belongs to the access point of the link it would be shown for.
SignalInv == signal.valid /\ link.connected => signal.of = link.bssid

LinkInv == CfgAgrees /\ ContractInv /\ SignalInv

contractVars == <<conn, link, asked, cfg, signal>>

\* finish_connection keeps the contract, provided that a successful connect is
\* answered with the access point it was pinned to.
LEMMA FinishLink ==
    ASSUME TypeOK, LinkInv, NEW status, NEW b,
           conn.operation = Connect /\ status = Success
                /\ conn.bssid # NoAP => b = conn.bssid,
           finish_connection(status, b), asked' = asked
    PROVE  LinkInv'
<1>1. CASE conn.operation = Idle
  BY <1>1, Zenon DEF finish_connection, LinkInv, CfgAgrees, ContractInv, SignalInv
<1>2. CASE conn.operation # Idle
  <2>1. conn' = NoConnection /\ link' = FinishedLink(status, b) /\ cfg' = FinishedCfg(status)
    BY <1>2, Zenon DEF finish_connection
  <2>2. ~signal'.valid
    BY <1>2, Zenon DEF finish_connection, TypeOK, Signals
  <2>3. CfgAgrees'
    <3>1. CASE conn.operation = Connect /\ status = Success
      BY <2>1, <3>1 DEF CfgAgrees, FinishedLink, FinishedCfg, NoConnection, Idle, Connect
    <3>2. CASE ~(conn.operation = Connect /\ status = Success)
      <4>1. link' = NoLink /\ cfg' = "idle"
        BY <2>1, <3>2, Zenon DEF LinkInv, CfgAgrees, FinishedLink, FinishedCfg
      <4> QED
        BY <2>1, <4>1 DEF CfgAgrees, NoConnection, NoLink, Idle, Connect
    <3> QED
      BY <3>1, <3>2, Zenon
  <2>4. ContractInv'
    <3>1. conn'.operation # Connect
      BY <2>1 DEF NoConnection, Idle, Connect
    <3>2. CASE conn.operation = Connect /\ status = Success
      <4>1. /\ link'.ssid = conn.ssid /\ link'.privacy = conn.psk
            /\ link'.pinned = (conn.bssid # NoAP) /\ link'.bssid = b
        BY <2>1, <3>2, Zenon DEF FinishedLink
      <4> QED
        BY <3>1, <3>2, <4>1, Zenon DEF LinkInv, ContractInv
    <3>3. CASE ~(conn.operation = Connect /\ status = Success)
      BY <2>1, <3>1, <3>3, Zenon DEF ContractInv, FinishedLink, NoLink
    <3> QED
      BY <3>2, <3>3, Zenon
  <2> QED
    BY <2>2, <2>3, <2>4, Zenon DEF LinkInv, SignalInv
<1> QED
  BY <1>1, <1>2, Zenon

\* Every step of the driver keeps the contract.
LEMMA LinkStep == TypeOK /\ LinkInv /\ Next => LinkInv'
<1> SUFFICES ASSUME TypeOK, LinkInv, Step PROVE LinkInv'
  BY Zenon DEF Next
<1> USE DEF linkVars, lockVars, deviceVars, unlockedVars
<1>1. CASE UNCHANGED contractVars
  BY <1>1, Zenon DEF contractVars, LinkInv, CfgAgrees, ContractInv, SignalInv
<1>2. ASSUME NEW s \in SSID, NEW b \in BSSID \cup {NoAP}, NEW k \in BOOLEAN,
             connect_network(s, b, k)
      PROVE  LinkInv'
  BY <1>2, Zenon
  DEF connect_network, begin_connection, LinkInv, CfgAgrees, ContractInv, SignalInv,
     Connect
<1>3. CASE disconnect_network
  <2>1. conn'.operation = Disconnect /\ asked' = asked
    BY <1>3, Zenon DEF disconnect_network, begin_connection
  <2>2. CASE conn.operation = Connect
    <3>1. link' = NoLink /\ cfg' = "idle"
      BY <1>3, <2>2 DEF disconnect_network, FinishedLink, FinishedCfg, Success, Failure
    <3> QED
      BY <2>1, <3>1 DEF LinkInv, CfgAgrees, ContractInv, SignalInv, NoLink, Connect, Disconnect
  <2>3. CASE conn.operation # Connect
    <3>1. UNCHANGED <<link, cfg, signal>>
      BY <1>3, <2>3, Zenon DEF disconnect_network
    <3> QED
      BY <2>1, <2>3, <3>1 DEF LinkInv, CfgAgrees, ContractInv, SignalInv, Connect, Disconnect
  <2> QED
    BY <2>2, <2>3, Zenon
<1>4. CASE stop_device
  <2>1. conn'.operation = Idle /\ asked' = asked
    BY <1>4, Zenon DEF stop_device, NoConnection
  <2>2. ~link'.connected
    BY <1>4 DEF stop_device, FinishedLink, NoLink, Success, Failure, TypeOK, Links
  <2>3. cfg' = "idle"
    BY <1>4 DEF stop_device, FinishedCfg, Success, Failure, LinkInv, CfgAgrees, Idle, Connect
  <2> QED
    BY <2>1, <2>2, <2>3 DEF LinkInv, CfgAgrees, ContractInv, SignalInv, Idle, Connect
<1>5. CASE connection_timeout
  <2>1. CASE conn.operation # Idle /\ connTime.deadline > 0
    BY <1>1, <1>5, <2>1, Zenon DEF connection_timeout, contractVars
  <2>2. CASE ~(conn.operation # Idle /\ connTime.deadline > 0)
    BY <1>5, <2>2, FinishLink DEF connection_timeout, Success, Failure
  <2> QED
    BY <2>1, <2>2, Zenon
<1>6. CASE SignalAges
  BY <1>6, Zenon
  DEF SignalAges, LinkInv, CfgAgrees, ContractInv, SignalInv, TypeOK, Signals
<1>7. ASSUME NEW r \in Reader, Ioctl(r)
      PROVE  LinkInv'
  <2>1. ASSUME NEW n \in RequestNumbers, NEW s \in {Success, Failure},
               NEW b \in BSSID \cup {NoAP},
               LH_CONNECTION_RESULT(r, n, s, b)
        PROVE  LinkInv'
    BY <2>1, FinishLink, Zenon DEF LH_CONNECTION_RESULT, ConnectionResultAccepted
  <2>2. ASSUME NEW b \in BSSID, LH_SIGNAL(r, b)
        PROVE  LinkInv'
    BY <2>2, Zenon DEF LH_SIGNAL, LinkInv, CfgAgrees, ContractInv, SignalInv
  <2>3. ASSUME NEW n \in RequestNumbers, report_link_down(r, n)
        PROVE  LinkInv'
    BY <2>3 DEF report_link_down, ReportCurrent, LinkInv, CfgAgrees, ContractInv,
       SignalInv, NoLink, Idle, Connect
  <2>4. ASSUME NEW n \in RequestNumbers, NEW record \in Records, report_link_roam(r, n, record)
        PROVE  LinkInv'
    BY <2>4, Zenon
    DEF report_link_roam, ReportCurrent, RecordMatches, LinkInv, CfgAgrees, ContractInv,
       SignalInv, TypeOK, Links, Signals, Records
  <2>5. CASE \/ LH_GET_SCAN(r) \/ LH_GET_CONNECTION(r)
             \/ \E n \in RequestNumbers : LH_FINISH_SCAN(r, n)
    BY <1>1, <2>5, Zenon
    DEF LH_GET_SCAN, LH_GET_CONNECTION, LH_FINISH_SCAN, finish_scan, contractVars
  <2> QED
    BY <1>7, <2>1, <2>2, <2>3, <2>4, <2>5, Zenon DEF Ioctl
<1>8. ASSUME NEW r \in Reader, bridge_open(r) \/ bridge_release(r) \/ Poll(r)
      PROVE  LinkInv'
  BY <1>1, <1>8, Zenon DEF bridge_open, bridge_release, Poll, PollRegister, bridge_poll,
                    PollWake, PollTimeout, contractVars
<1>9. CASE Lower
  BY <1>1, <1>9, Zenon
  DEF Lower, LowerCarrier, Linkwatch, LowerAdmin, lower_event, LowerEventSetsCarrier,
     detach_lower, DetachPointer, contractVars
<1>10. CASE \/ DecideCarrier \/ SetCarrier \/ FireConnectionTimer \/ FireScanTimer
            \/ scan_timeout \/ Tick \/ start_scan \/ abort_scan \/ OpenDevice \/ CancelWork
  BY <1>1, <1>10, Zenon
  DEF DecideCarrier, SetCarrier, FireConnectionTimer, FireScanTimer, scan_timeout, Tick,
     start_scan, abort_scan, finish_scan, OpenDevice, CancelWork, contractVars
<1> QED
  BY <1>2, <1>3, <1>4, <1>5, <1>6, <1>7, <1>8, <1>9, <1>10, Zenon
  DEF Step, Cfg80211, Kernel

\* What cfg80211 has been told, the network, security and access point it asked
\* for, and the signal get_station shows agree with the link at all times.
THEOREM LinkContract == Spec => []LinkKept
<1>1. Init => LinkInv
  BY DEF Init, LinkInv, CfgAgrees, ContractInv, SignalInv, NoConnection, NoLink, Idle, Connect
<1>2. TypeOK /\ LinkInv /\ [Next]_vars => LinkInv'
  <2>1. LinkInv /\ UNCHANGED vars => LinkInv'
    BY Zenon DEF vars, driverVars, LinkInv, CfgAgrees, ContractInv, SignalInv
  <2> QED
    BY <2>1, LinkStep, Zenon
<1>3. TypeOK /\ LinkInv => LinkKept
  <2>1. ContractInv /\ TypeOK => LinkHonoursRequest
    BY Zenon DEF ContractInv, LinkHonoursRequest, TypeOK, Links, Requests
  <2>2. SignalInv => SignalOfThisAP
    BY Zenon DEF SignalInv, SignalOfThisAP, ShowsSignal
  <2> QED
    BY <2>1, <2>2, Zenon DEF LinkInv, LinkKept
<1> QED
  BY <1>1, <1>2, <1>3, TypeCorrect, PTL DEF Spec

-----------------------------------------------------------------------------
(* Timeouts                                                                *)

\* No pending request has number zero, and none is pending while stop_device
\* cancels the timers.
RequestInv ==
    /\ TimeoutArmed
    /\ conn.operation # Idle => conn.sequence # 0
    /\ scan.pending => scan.sequence # 0
    /\ rtnl = "cancel" => ~up /\ conn.operation = Idle /\ ~scan.pending

\* Arming, firing and re-arming guard a request; the passage of time keeps that.
LEMMA GuardedTimes ==
    ASSUME NEW ticks \in Nat \ {0}, NEW t \in Times(ticks)
    PROVE  /\ Guarded(Armed(t, ticks))
           /\ Guarded(Fired(t))
           /\ Guarded(Rearmed(t))
           /\ Guarded(t) => Guarded(Later(t))
<1>1. Guarded(Armed(t, ticks)) /\ Guarded(Fired(t))
  BY DEF Guarded, Armed, Fired
<1>2. Guarded(Rearmed(t))
  BY DEF Guarded, Rearmed, Times
<1>3. ASSUME Guarded(t) PROVE Guarded(Later(t))
  BY <1>3 DEF Guarded, Later, Sooner, Times
<1> QED
  BY <1>1, <1>2, <1>3, Zenon

\* Every step of the driver leaves each pending request guarded.
LEMMA RequestStep == TypeOK /\ RequestInv /\ Next => RequestInv'
<1> SUFFICES ASSUME TypeOK, RequestInv, Step PROVE RequestInv'
  BY Zenon DEF Next
<1> USE ConstantsAssumption DEF linkVars, lockVars, deviceVars, unlockedVars
<1>1. CASE UNCHANGED <<conn, connTime, scan, scanTime, rtnl, up>>
  BY <1>1, Zenon DEF RequestInv, TimeoutArmed, Guarded
<1>2. ASSUME NEW s \in SSID, NEW b \in BSSID \cup {NoAP}, NEW k \in BOOLEAN,
             connect_network(s, b, k)
      PROVE  RequestInv'
  <2>1. Guarded(connTime') /\ conn'.sequence # 0
    BY <1>2, GuardedTimes, NextSequenceType DEF connect_network, begin_connection, TypeOK
  <2> QED
    BY <1>2, <2>1, Zenon DEF connect_network, RequestInv, TimeoutArmed, Guarded
<1>3. CASE disconnect_network
  <2>1. Guarded(connTime') /\ conn'.sequence # 0
    BY <1>3, GuardedTimes, NextSequenceType DEF disconnect_network, begin_connection, TypeOK
  <2> QED
    BY <1>3, <2>1, Zenon DEF disconnect_network, RequestInv, TimeoutArmed, Guarded
<1>4. CASE start_scan
  <2>1. Guarded(scanTime') /\ scan'.sequence # 0
    BY <1>4, GuardedTimes, NextSequenceType DEF start_scan, TypeOK, Scans
  <2> QED
    BY <1>4, <2>1, Zenon DEF start_scan, RequestInv, TimeoutArmed, Guarded
<1>5. ASSUME finish_scan PROVE RequestInv'
  BY <1>5, Zenon DEF finish_scan, RequestInv, TimeoutArmed, Guarded, TypeOK, Scans
<1>6. CASE OpenDevice
  BY <1>6, Zenon DEF OpenDevice, RequestInv, TimeoutArmed, Guarded
<1>7. CASE stop_device
  <2>1. conn'.operation = Idle /\ ~scan'.pending
    BY <1>7, Zenon DEF stop_device, NoConnection, TypeOK, Scans
  <2> QED
    BY <1>7, <2>1, Zenon DEF stop_device, RequestInv, TimeoutArmed
<1>8. CASE CancelWork
  BY <1>8, Zenon DEF CancelWork, RequestInv, TimeoutArmed
<1>9. CASE FireConnectionTimer \/ FireScanTimer
  <2>1. CASE FireConnectionTimer
    BY <2>1, GuardedTimes, Zenon
    DEF FireConnectionTimer, RequestInv, TimeoutArmed, Guarded, TypeOK
  <2>2. CASE FireScanTimer
    BY <2>2, GuardedTimes, Zenon
    DEF FireScanTimer, RequestInv, TimeoutArmed, Guarded, TypeOK
  <2> QED
    BY <1>9, <2>1, <2>2, Zenon
<1>10. CASE Tick
  <2>1. Guarded(connTime) => Guarded(connTime')
    BY <1>10, GuardedTimes, Zenon DEF Tick, TypeOK
  <2>2. Guarded(scanTime) => Guarded(scanTime')
    BY <1>10, GuardedTimes, Zenon DEF Tick, TypeOK
  <2> QED
    BY <1>10, <2>1, <2>2, Zenon DEF Tick, RequestInv, TimeoutArmed
<1>11. CASE connection_timeout
  <2>1. UNCHANGED <<scan, scanTime, rtnl, up>>
    BY <1>11, Zenon DEF connection_timeout
  <2>2. CASE conn.operation # Idle /\ connTime.deadline > 0
    <3>1. Guarded(connTime') /\ conn' = conn
      BY <1>11, <2>2, GuardedTimes, Zenon DEF connection_timeout, TypeOK
    <3> QED
      BY <2>1, <3>1, Zenon DEF RequestInv, TimeoutArmed, Guarded
  <2>3. CASE ~(conn.operation # Idle /\ connTime.deadline > 0)
    <3>1. conn'.operation = Idle
      BY <1>11, <2>3 DEF connection_timeout, finish_connection, NoConnection
    <3> QED
      BY <2>1, <3>1, Zenon DEF RequestInv, TimeoutArmed, Guarded
  <2> QED
    BY <2>2, <2>3, Zenon
<1>12. CASE scan_timeout
  <2>1. UNCHANGED <<conn, connTime, rtnl, up>>
    BY <1>12, Zenon DEF scan_timeout
  <2>2. CASE scan.pending /\ scanTime.deadline > 0
    <3>1. Guarded(scanTime') /\ scan' = scan
      BY <1>12, <2>2, GuardedTimes, Zenon DEF scan_timeout, TypeOK
    <3> QED
      BY <2>1, <3>1, Zenon DEF RequestInv, TimeoutArmed, Guarded
  <2>3. CASE ~(scan.pending /\ scanTime.deadline > 0)
    <3>1. ~scan'.pending
      BY <1>12, <2>3, Zenon DEF scan_timeout, TypeOK, Scans
    <3> QED
      BY <2>1, <3>1, Zenon DEF RequestInv, TimeoutArmed, Guarded
  <2> QED
    BY <2>2, <2>3, Zenon
<1>13. ASSUME NEW r \in Reader, Ioctl(r) PROVE RequestInv'
  <2>1. ASSUME NEW n \in RequestNumbers, NEW s \in {Success, Failure},
               NEW b \in BSSID \cup {NoAP},
               LH_CONNECTION_RESULT(r, n, s, b)
        PROVE  RequestInv'
    <3>1. conn'.operation = Idle
      BY <2>1 DEF LH_CONNECTION_RESULT, finish_connection, NoConnection
    <3> QED
      BY <2>1, <3>1, Zenon DEF LH_CONNECTION_RESULT, RequestInv, TimeoutArmed, Guarded
  <2>2. CASE \/ LH_GET_SCAN(r) \/ LH_GET_CONNECTION(r)
             \/ \E b \in BSSID : LH_SIGNAL(r, b)
             \/ \E n \in RequestNumbers : report_link_down(r, n)
             \/ \E n \in RequestNumbers, record \in Records : report_link_roam(r, n, record)
    BY <1>1, <2>2, Zenon
    DEF LH_GET_SCAN, LH_GET_CONNECTION, LH_SIGNAL, report_link_down, report_link_roam
  <2> QED
    BY <1>5, <1>13, <2>1, <2>2, Zenon DEF Ioctl, LH_FINISH_SCAN
<1>14. ASSUME NEW r \in Reader, bridge_open(r) \/ bridge_release(r) \/ Poll(r)
       PROVE  RequestInv'
  BY <1>1, <1>14, Zenon DEF bridge_open, bridge_release, Poll, PollRegister, bridge_poll,
                    PollWake, PollTimeout
<1>15. CASE Lower
  <2>1. \/ UNCHANGED <<conn, connTime, scan, scanTime, up>> /\ rtnl' # "cancel"
        \/ UNCHANGED <<conn, connTime, scan, scanTime, rtnl, up>>
    BY <1>15, Zenon
    DEF Lower, LowerCarrier, Linkwatch, LowerAdmin, lower_event, LowerEventSetsCarrier,
       detach_lower, DetachPointer
  <2> QED
    BY <1>1, <2>1, Zenon DEF RequestInv, TimeoutArmed, Guarded
<1>16. CASE DecideCarrier \/ SetCarrier \/ SignalAges
  BY <1>1, <1>16, Zenon DEF DecideCarrier, SetCarrier, SignalAges
<1> QED
  BY <1>2, <1>3, <1>4, <1>5, <1>6, <1>7, <1>8, <1>9, <1>10, <1>11, <1>12, <1>13, <1>14,
     <1>15, <1>16, Zenon
  DEF Step, Cfg80211, Kernel, abort_scan

\* Every pending scan, connect or disconnect has its timeout armed or a worker
\* under way, and a bridge that has just opened the device is offered it.
THEOREM RequestsArmed == Spec => [](TimeoutArmed /\ NewReaderSeesPending)
<1>1. Init => RequestInv
  BY DEF Init, RequestInv, TimeoutArmed, NoConnection
<1>2. TypeOK /\ RequestInv /\ [Next]_vars => RequestInv'
  <2>1. RequestInv /\ UNCHANGED vars => RequestInv'
    BY DEF vars, driverVars, RequestInv, TimeoutArmed, Guarded
  <2> QED
    BY <2>1, RequestStep, Zenon
<1>3. RequestInv => TimeoutArmed /\ NewReaderSeesPending
  BY Zenon DEF RequestInv, NewReaderSeesPending, Unread
<1> QED
  BY <1>1, <1>2, <1>3, TypeCorrect, PTL DEF Spec

-----------------------------------------------------------------------------

\* Every step of the driver that makes work unread wakes the sleeping readers.
LEMMA WakeStep == TypeOK /\ NoLostWakeup /\ Next => NoLostWakeup'
<1> SUFFICES ASSUME TypeOK, NoLostWakeup, Step PROVE NoLostWakeup'
  BY Zenon DEF Next
<1> USE DEF linkVars, lockVars, deviceVars, unlockedVars
<1>1. ASSUME reader' = reader,
             conn' = conn \/ conn'.operation = Idle,
             scan' = scan \/ ~scan'.pending
      PROVE  NoLostWakeup'
  BY <1>1, Zenon DEF NoLostWakeup, Unread
<1>2. ASSUME reader' = Woken PROVE NoLostWakeup'
  <2> SUFFICES ASSUME NEW r \in Reader, reader'[r].poll = "asleep" PROVE reader'[r].woken
    BY Zenon DEF NoLostWakeup
  <2>1. reader'[r] = [reader[r] EXCEPT !.woken = @ \/ reader[r].poll # "idle"]
    BY <1>2, Zenon DEF Woken
  <2>2. reader[r] \in Readers
    BY Zenon DEF TypeOK
  <2>3. reader'[r].poll = reader[r].poll
    BY <2>1, <2>2, Zenon DEF Readers
  <2>4. reader'[r].woken = (reader[r].woken \/ reader[r].poll # "idle")
    BY <2>1, <2>2, Zenon DEF Readers
  <2> QED
    BY <2>3, <2>4, Zenon
<1>3. ASSUME NEW r \in Reader, conn' = conn, scan' = scan,
             \A q \in Reader : q # r => reader'[q] = reader[q],
             reader'[r].poll # "asleep"
      PROVE  NoLostWakeup'
  BY <1>3, Zenon DEF NoLostWakeup, Unread
<1>4. CASE Cfg80211
  <2>1. CASE \/ \E s \in SSID, b \in BSSID \cup {NoAP}, k \in BOOLEAN : connect_network(s, b, k)
             \/ disconnect_network \/ start_scan
    BY <1>2, <2>1, Zenon DEF connect_network, disconnect_network, start_scan
  <2>2. CASE abort_scan \/ OpenDevice \/ stop_device \/ CancelWork
    <3>1. reader' = reader
      BY <2>2, Zenon DEF abort_scan, finish_scan, OpenDevice, stop_device, CancelWork
    <3>2. conn' = conn \/ conn'.operation = Idle
      BY <2>2 DEF abort_scan, finish_scan, OpenDevice, stop_device, CancelWork, NoConnection
    <3>3. scan' = scan \/ ~scan'.pending
      BY <2>2, Zenon
      DEF abort_scan, finish_scan, OpenDevice, stop_device, CancelWork, TypeOK, Scans
    <3> QED
      BY <1>1, <3>1, <3>2, <3>3, Zenon
  <2> QED
    BY <1>4, <2>1, <2>2, Zenon DEF Cfg80211
<1>5. CASE Kernel \/ Tick \/ SignalAges \/ Lower
  <2>1. reader' = reader
    BY <1>5, Zenon DEF Kernel, DecideCarrier, SetCarrier, FireConnectionTimer, FireScanTimer,
         connection_timeout, scan_timeout, Tick, SignalAges, Lower, LowerCarrier,
         Linkwatch, LowerAdmin, lower_event, LowerEventSetsCarrier, detach_lower, DetachPointer
  <2>2. conn' = conn \/ conn'.operation = Idle
    <3>1. CASE connection_timeout
      BY <3>1 DEF connection_timeout, finish_connection, NoConnection
    <3>2. CASE FireConnectionTimer \/ FireScanTimer \/ scan_timeout \/ Tick
      BY <3>2, Zenon DEF FireConnectionTimer, FireScanTimer, scan_timeout, Tick
    <3>3. CASE DecideCarrier \/ SetCarrier \/ SignalAges
      BY <3>3, Zenon DEF DecideCarrier, SetCarrier, SignalAges
    <3>4. CASE Lower
      BY <3>4, Zenon
      DEF Lower, LowerCarrier, Linkwatch, LowerAdmin, lower_event, LowerEventSetsCarrier,
         detach_lower, DetachPointer
    <3> QED
      BY <1>5, <3>1, <3>2, <3>3, <3>4, Zenon DEF Kernel
  <2>3. scan' = scan \/ ~scan'.pending
    BY <1>5, Zenon DEF Kernel, DecideCarrier, SetCarrier, FireConnectionTimer, FireScanTimer,
         connection_timeout, scan_timeout, Tick, SignalAges, Lower, LowerCarrier,
         Linkwatch, LowerAdmin, lower_event, LowerEventSetsCarrier, detach_lower, DetachPointer,
         TypeOK, Scans
  <2> QED
    BY <1>1, <2>1, <2>2, <2>3, Zenon
<1>6. ASSUME NEW r \in Reader, bridge_open(r) \/ bridge_release(r)
      PROVE  NoLostWakeup'
  BY <1>3, <1>6 DEF bridge_open, bridge_release, NewReader, TypeOK
<1>7. ASSUME NEW r \in Reader, Poll(r)
      PROVE  NoLostWakeup'
  <2>1. conn' = conn /\ scan' = scan
    BY <1>7, Zenon DEF Poll, PollRegister, bridge_poll, PollWake, PollTimeout
  <2>2. \A q \in Reader : q # r => reader'[q] = reader[q]
    BY <1>7, Zenon DEF Poll, PollRegister, bridge_poll, PollWake, PollTimeout, TypeOK
  <2>3. CASE PollRegister(r) \/ PollWake(r) \/ PollTimeout(r)
    <3>1. CASE reader' = [reader EXCEPT ![r].poll = "registered", ![r].woken = FALSE]
      <4>1. reader'[r].poll = "registered"
        BY <3>1, Zenon DEF TypeOK, Readers
      <4> QED
        BY <1>3, <2>1, <2>2, <4>1, Zenon
    <3>2. CASE reader' = [reader EXCEPT ![r].poll = "idle", ![r].woken = FALSE]
      <4>1. reader'[r].poll = "idle"
        BY <3>2, Zenon DEF TypeOK, Readers
      <4> QED
        BY <1>3, <2>1, <2>2, <4>1, Zenon
    <3> QED
      BY <2>3, <3>1, <3>2, Zenon DEF PollRegister, PollWake, PollTimeout
  <2>4. CASE bridge_poll(r)
    <3>1. reader'[r].scan = reader[r].scan /\ reader'[r].connection = reader[r].connection
      BY <2>4, Zenon DEF bridge_poll, TypeOK, Readers
    <3>2. reader'[r].poll = "asleep" => ~Unread(r)
      BY <2>4, Zenon DEF bridge_poll, TypeOK, Readers
    <3> QED
      BY <2>1, <2>2, <3>1, <3>2, Zenon DEF NoLostWakeup, Unread
  <2> QED
    BY <1>7, <2>3, <2>4, Zenon DEF Poll
<1>8. ASSUME NEW r \in Reader, Ioctl(r)
      PROVE  NoLostWakeup'
  <2>1. CASE LH_GET_SCAN(r) \/ LH_GET_CONNECTION(r)
    <3>1. \A q \in Reader : q # r => reader'[q] = reader[q]
      BY <2>1, Zenon DEF LH_GET_SCAN, LH_GET_CONNECTION, TypeOK
    <3>2. reader'[r].poll # "asleep"
      BY <2>1 DEF LH_GET_SCAN, LH_GET_CONNECTION, Calling, TypeOK, Readers
    <3> QED
      BY <1>3, <2>1, <3>1, <3>2, Zenon DEF LH_GET_SCAN, LH_GET_CONNECTION
  <2>2. CASE \E n \in RequestNumbers : LH_FINISH_SCAN(r, n)
    BY <1>1, <2>2, Zenon DEF LH_FINISH_SCAN, finish_scan, TypeOK, Scans
  <2>3. CASE \E n \in RequestNumbers, s \in {Success, Failure}, b \in BSSID \cup {NoAP} :
                LH_CONNECTION_RESULT(r, n, s, b)
    BY <1>1, <2>3 DEF LH_CONNECTION_RESULT, finish_connection, NoConnection
  <2>4. CASE \/ \E b \in BSSID : LH_SIGNAL(r, b)
             \/ \E n \in RequestNumbers : report_link_down(r, n)
             \/ \E n \in RequestNumbers, record \in Records : report_link_roam(r, n, record)
    BY <1>1, <2>4, Zenon DEF LH_SIGNAL, report_link_down, report_link_roam
  <2> QED
    BY <1>8, <2>1, <2>2, <2>3, <2>4, Zenon DEF Ioctl
<1> QED
  BY <1>4, <1>5, <1>6, <1>7, <1>8, Zenon DEF Step

\* bridge_poll registers before it looks: no reader sleeps over a request.
THEOREM WakeupNeverLost == Spec => []NoLostWakeup
<1>1. Init => NoLostWakeup
  BY DEF Init, NoLostWakeup, NewReader
<1>2. TypeOK /\ NoLostWakeup /\ [Next]_vars => NoLostWakeup'
  <2>1. NoLostWakeup /\ UNCHANGED vars => NoLostWakeup'
    BY Zenon DEF vars, driverVars, NoLostWakeup, Unread
  <2> QED
    BY <2>1, WakeStep, Zenon
<1> QED
  BY <1>1, <1>2, TypeCorrect, PTL DEF Spec

\* A pending request is timed, offered to every bridge that opens the device,
\* and never slept over.
THEOREM RequestsGuarded == Spec => []RequestGuarded
<1>1. TimeoutArmed /\ NewReaderSeesPending /\ NoLostWakeup => RequestGuarded
  BY Zenon DEF RequestGuarded
<1> QED
  BY <1>1, RequestsArmed, WakeupNeverLost, PTL

-----------------------------------------------------------------------------

\* connection_timeout and scan_timeout never fail a request before its own
\* deadline, even if the worker was started for an earlier request.
THEOREM TimeoutNeverEarly == Spec => NoEarlyTimeout
<1> DEFINE Early ==
       /\ connTime.worker /\ ~connTime'.worker /\ conn.operation # Idle
          /\ conn'.operation = Idle
          => connTime.deadline = 0
       /\ scanTime.worker /\ ~scanTime'.worker /\ scan.pending
          /\ ~scan'.pending
          => scanTime.deadline = 0
<1>1. TypeOK /\ [Next]_vars => [Early]_vars
  <2> SUFFICES ASSUME TypeOK, Step PROVE Early
    BY Zenon DEF Next
  <2>1. CASE UNCHANGED <<connTime, scanTime>>
    BY <2>1, Zenon
  <2>2. CASE Tick \/ CancelWork \/ FireConnectionTimer \/ FireScanTimer
    BY <2>2, Zenon
    DEF Tick, CancelWork, FireConnectionTimer, FireScanTimer, Later, Cancelled, Fired
  <2>3. CASE connection_timeout
    BY <2>3 DEF connection_timeout, TypeOK, Times
  <2>4. CASE scan_timeout
    BY <2>4 DEF scan_timeout, TypeOK, Times
  <2>5. CASE \/ \E s \in SSID, b \in BSSID \cup {NoAP}, k \in BOOLEAN : connect_network(s, b, k)
             \/ disconnect_network
    BY <2>5 DEF connect_network, disconnect_network, begin_connection, Armed
  <2>6. CASE start_scan
    BY <2>6, Zenon DEF start_scan, Armed
  <2>7. CASE abort_scan \/ OpenDevice \/ stop_device \/ DecideCarrier \/ SetCarrier
             \/ SignalAges \/ Lower
    BY <2>1, <2>7, Zenon
    DEF abort_scan, finish_scan, OpenDevice, stop_device, DecideCarrier, SetCarrier,
       SignalAges, Lower, LowerCarrier, Linkwatch, LowerAdmin, lower_event,
       LowerEventSetsCarrier, detach_lower, DetachPointer, deviceVars, unlockedVars
  <2>8. ASSUME NEW r \in Reader, bridge_open(r) \/ bridge_release(r) \/ Poll(r) \/ Ioctl(r)
        PROVE  Early
    BY <2>1, <2>8, Zenon DEF bridge_open, bridge_release, Poll, PollRegister, bridge_poll, PollWake,
         PollTimeout, Ioctl, LH_GET_SCAN, LH_GET_CONNECTION, LH_FINISH_SCAN, finish_scan,
         LH_CONNECTION_RESULT, LH_SIGNAL, report_link_down, report_link_roam, deviceVars
  <2> QED
    BY <2>2, <2>3, <2>4, <2>5, <2>6, <2>7, <2>8, Zenon DEF Step, Cfg80211, Kernel
<1> QED
  BY <1>1, TypeCorrect, PTL DEF Spec, NoEarlyTimeout

-----------------------------------------------------------------------------
(* The carrier                                                             *)

Usable == link.connected /\ lower.present /\ lower.carrier
Settled == lower.running /\ ~lower.linkwatch

\* Both lock holders at work are recorded as an overlap; without one, what
\* each of them is about to write is what the state it read calls for.
CarrierInv ==
    /\ wiphy # "free" /\ LowerBusy => overlap
    /\ LowerBusy => lower.present
    /\ ~overlap =>
         /\ wiphy = "free" /\ ~LowerBusy /\ Settled => (carrier <=> Usable)
         /\ wiphy = "free" /\ ~LowerBusy /\ ~lower.present => ~carrier
         /\ wiphy = "free" /\ ~LowerBusy /\ carrier => link.connected
         /\ wiphy = "on" => link.connected /\ lower.present
         /\ wiphy \in {"on", "off"} /\ Settled => (wiphy = "on" <=> Usable)
         /\ rtnl \in {"on", "off"} /\ Settled => (rtnl = "on" <=> Usable)
         /\ rtnl = "on" => link.connected
         /\ rtnl = "detach" => ~carrier

\* Every step of the driver keeps the carrier right or records the overlap.
LEMMA CarrierStep == TypeOK /\ CarrierInv /\ Next => CarrierInv'
<1> SUFFICES ASSUME TypeOK, CarrierInv, Step, RecordOverlap PROVE CarrierInv'
  BY Zenon DEF Next
<1> USE DEF CarrierInv, RecordOverlap, LowerBusy, Usable, Settled, linkVars, lockVars,
            deviceVars, unlockedVars
<1>1. ASSUME UNCHANGED <<carrier, wiphy, rtnl, lower>>, link'.connected = link.connected
      PROVE  CarrierInv'
  BY <1>1, Zenon
<1>2. ASSUME wiphy = "free", wiphy' = "off", ~link'.connected, UNCHANGED <<carrier, rtnl, lower>>
      PROVE  CarrierInv'
  BY <1>2, Zenon
<1>3. ASSUME wiphy = "free", wiphy' = "decide", UNCHANGED <<carrier, rtnl, lower>>
      PROVE  CarrierInv'
  BY <1>3, Zenon
<1>4. CASE DecideCarrier
  BY <1>4, Zenon DEF DecideCarrier
<1>5. CASE SetCarrier
  BY <1>5, Zenon DEF SetCarrier
<1>6. CASE stop_device
  <2>1. ~link'.connected
    BY <1>6 DEF stop_device, FinishedLink, NoLink, Success, Failure, TypeOK, Links
  <2> QED
    BY <1>6, <2>1, Zenon DEF stop_device
<1>7. CASE CancelWork
  BY <1>7, Zenon DEF CancelWork
<1>8. CASE LowerCarrier
  <2>1. lower'.linkwatch /\ lower'.present
    BY <1>8, Zenon DEF LowerCarrier, TypeOK, LowerDevices
  <2> QED
    BY <1>8, <2>1, Zenon DEF LowerCarrier
<1>9. CASE Linkwatch
  <2>1. /\ lower'.present = lower.present /\ lower'.running = lower.running
        /\ lower'.carrier = lower.carrier
    BY <1>9, Zenon DEF Linkwatch, TypeOK, LowerDevices
  <2> QED
    BY <1>9, <2>1, Zenon DEF Linkwatch
<1>10. CASE LowerAdmin
  <2>1. lower'.present
    BY <1>10, Zenon DEF LowerAdmin, TypeOK, LowerDevices
  <2> QED
    BY <1>10, <2>1, Zenon DEF LowerAdmin
<1>11. CASE lower_event
  BY <1>11, Zenon DEF lower_event
<1>12. CASE LowerEventSetsCarrier
  BY <1>12, Zenon DEF LowerEventSetsCarrier
<1>13. CASE detach_lower
  BY <1>13, Zenon DEF detach_lower
<1>14. CASE DetachPointer
  <2>1. ~lower'.present
    BY <1>14, Zenon DEF DetachPointer, TypeOK, LowerDevices
  <2> QED
    BY <1>14, <2>1, Zenon DEF DetachPointer
<1>15. CASE disconnect_network
  <2>1. CASE conn.operation = Connect
    BY <1>2, <1>15, <2>1 DEF disconnect_network, FinishedLink, NoLink, Success, Failure
  <2>2. CASE conn.operation # Connect
    BY <1>1, <1>15, <2>2, Zenon DEF disconnect_network
  <2> QED
    BY <2>1, <2>2, Zenon
<1>16. ASSUME NEW status, NEW b, wiphy = "free", finish_connection(status, b),
              UNCHANGED <<carrier, rtnl, lower>>
       PROVE  CarrierInv'
  BY <1>1, <1>3, <1>16, Zenon DEF finish_connection
<1>17. CASE connection_timeout
  BY <1>1, <1>16, <1>17, Zenon DEF connection_timeout
<1>18. ASSUME NEW r \in Reader, Ioctl(r)
       PROVE  CarrierInv'
  <2>1. CASE \E n \in RequestNumbers, s \in {Success, Failure}, b \in BSSID \cup {NoAP} :
                LH_CONNECTION_RESULT(r, n, s, b)
    BY <1>16, <2>1, Zenon DEF LH_CONNECTION_RESULT
  <2>2. CASE \E n \in RequestNumbers : report_link_down(r, n)
    BY <1>2, <2>2 DEF report_link_down, NoLink
  <2>3. CASE \E n \in RequestNumbers, record \in Records : report_link_roam(r, n, record)
    BY <1>1, <2>3, Zenon DEF report_link_roam, TypeOK, Links
  <2>4. CASE \/ LH_GET_SCAN(r) \/ LH_GET_CONNECTION(r) \/ \E b \in BSSID : LH_SIGNAL(r, b)
             \/ \E n \in RequestNumbers : LH_FINISH_SCAN(r, n)
    BY <1>1, <2>4, Zenon
    DEF LH_GET_SCAN, LH_GET_CONNECTION, LH_SIGNAL, LH_FINISH_SCAN, finish_scan
  <2> QED
    BY <1>18, <2>1, <2>2, <2>3, <2>4, Zenon DEF Ioctl
<1>19. ASSUME NEW r \in Reader, bridge_open(r) \/ bridge_release(r) \/ Poll(r)
       PROVE  CarrierInv'
  BY <1>1, <1>19, Zenon DEF bridge_open, bridge_release, Poll, PollRegister, bridge_poll,
                     PollWake, PollTimeout
<1>20. CASE \/ \E s \in SSID, b \in BSSID \cup {NoAP}, k \in BOOLEAN : connect_network(s, b, k)
            \/ start_scan \/ abort_scan \/ OpenDevice \/ FireConnectionTimer \/ FireScanTimer
            \/ scan_timeout \/ Tick \/ SignalAges
  BY <1>1, <1>20, Zenon DEF connect_network, start_scan, abort_scan, finish_scan, OpenDevice,
        FireConnectionTimer, FireScanTimer, scan_timeout, Tick, SignalAges
<1> QED
  BY <1>4, <1>5, <1>6, <1>7, <1>8, <1>9, <1>10, <1>11, <1>12, <1>13, <1>14, <1>15, <1>17,
     <1>18, <1>19, <1>20, Zenon DEF Step, Cfg80211, Kernel, Lower

\* CarrierTruth: unless a link change and a notification of the lower device
\* (lower_event) overlapped, the interface has no carrier without a link, and
\* the carrier of link and lower device once the latter has settled.
THEOREM CarrierFollowsLink == Spec => []CarrierTruth
<1>1. Init => CarrierInv
  BY DEF Init, CarrierInv, LowerBusy, Usable, Settled, NoLink
<1>2. TypeOK /\ CarrierInv /\ [Next]_vars => CarrierInv'
  <2>1. CarrierInv /\ UNCHANGED vars => CarrierInv'
    BY DEF vars, driverVars, CarrierInv, LowerBusy, Usable, Settled
  <2> QED
    BY <2>1, CarrierStep, Zenon
<1>3. CarrierInv => CarrierTruth
  BY Zenon DEF CarrierInv, CarrierTruth, LowerBusy, Usable, Settled
<1> QED
  BY <1>1, <1>2, <1>3, TypeCorrect, PTL DEF Spec

-----------------------------------------------------------------------------
(* Types of the bridge's locals and of the Mac                             *)

Pcs == {"down", "top", "get_scan", "scanning", "write", "finish", "idle",
        "wait", "disconnect", "disconnected", "scan", "connect", "status",
        "rescan", "recheck", "publish", "succeed", "fail", "snapshot",
        "follow", "report_down", "roam_scan", "roam_record", "report_roam",
        "signal"}

Snapshots == [sequence : RequestNumbers, connected : BOOLEAN, busy : BOOLEAN,
              ssid : SSID \cup {NoSSID}, bssid : BSSID \cup {NoAP},
              privacy : BOOLEAN, pinned : BOOLEAN]
Places == Associations \cup {NoAssociation}
Calls == [action : {"wifi-connect", "wifi-disconnect"},
          ssid : SSID \cup {NoSSID}]
Locals == [pc : Pcs, request : Connections, records : SUBSET Nearby,
           found : Places, link : Snapshots, previous : RequestNumbers,
           missing : RequestNumbers, ripe : BOOLEAN, crashes : Nat]
Macs == [in : Places, late : Seq(Calls), moves : Nat, failures : Nat]

\* No step of the composition touches the lower device.
BridgeTypeOK ==
    /\ bridge \in Locals
    /\ mac \in Macs
    /\ rtnl \in {"free", "cancel"}

\* An association is on an access point.
LEMMA PlaceAddress ==
    ASSUME NEW a \in Associations
    PROVE  a.bssid \in BSSID /\ a.ssid \in SSID
  BY BridgeAssumption DEF Associations, Association, Records

\* The locals of a bridge that starts a turn.
LEMMA FreshLocal == Fresh \in Locals
<1>1. NoConnection \in Connections /\ NoSnapshot \in Snapshots
  BY ConstantsAssumption DEF NoConnection, Connections, NoSnapshot, Snapshots, RequestNumbers
<1>2. {} \in SUBSET Nearby /\ NoAssociation \in Places
  BY Zenon DEF Places
<1>3. 0 \in RequestNumbers /\ 0 \in Nat
  BY ConstantsAssumption DEF RequestNumbers
<1>4. "top" \in Pcs
  BY Zenon DEF Pcs
<1> QED
  BY <1>1, <1>2, <1>3, <1>4, Zenon DEF Fresh, Locals

\* Assigning one local a value of its type keeps the type of all.
LEMMA LocalsKept ==
    ASSUME NEW b \in Locals
    PROVE  /\ \A x \in Pcs : [b EXCEPT !.pc = x] \in Locals
           /\ \A x \in Connections : [b EXCEPT !.request = x] \in Locals
           /\ \A x \in SUBSET Nearby : [b EXCEPT !.records = x] \in Locals
           /\ \A x \in Places : [b EXCEPT !.found = x] \in Locals
           /\ \A x \in Snapshots : [b EXCEPT !.link = x] \in Locals
           /\ \A x \in RequestNumbers : [b EXCEPT !.previous = x] \in Locals
           /\ \A x \in RequestNumbers : [b EXCEPT !.missing = x] \in Locals
           /\ \A x \in BOOLEAN : [b EXCEPT !.ripe = x] \in Locals
           /\ \A x \in Nat : [b EXCEPT !.crashes = x] \in Locals
  BY Zenon DEF Locals

\* Counting a move or a failure of the Mac.
LEMMA CountsKept ==
    ASSUME NEW m \in Macs
    PROVE  /\ [m EXCEPT !.moves = @ + 1] \in Macs
           /\ [m EXCEPT !.failures = @ + 1] \in Macs
  BY DEF Macs

\* A failed or abandoned call leaves the Mac where it is.
LEMMA MacKept ==
    ASSUME mac \in Macs, bridge \in Locals
    PROVE  /\ CallFails => mac' \in Macs
           /\ CallAbandoned => mac' \in Macs
           /\ \A a \in Places : [mac EXCEPT !.in = a] \in Macs
<1>1. CallFails => mac' \in Macs
  BY DEF CallFails, Macs
<1>2. ASSUME CallAbandoned PROVE mac' \in Macs
  <2>1. PICK call \in Mutation :
           mac' = [mac EXCEPT !.failures = @ + 1, !.late = Append(@, call)]
    BY <1>2, Zenon DEF CallAbandoned
  <2>2. call \in Calls
    BY DEF Mutation, Calls, Locals, Connections
  <2>3. Append(mac.late, call) \in Seq(Calls) /\ mac.failures + 1 \in Nat
    BY <2>2 DEF Macs
  <2>4. mac' = [in |-> mac.in, late |-> Append(mac.late, call), moves |-> mac.moves,
                failures |-> mac.failures + 1]
    BY <2>1, Zenon DEF Macs
  <2> QED
    BY <2>3, <2>4, Zenon DEF Macs
<1>3. \A a \in Places : [mac EXCEPT !.in = a] \in Macs
  BY Zenon DEF Macs
<1> QED
  BY <1>1, <1>2, <1>3, Zenon

-----------------------------------------------------------------------------
(* The composition implements the driver's specification                   *)

\* Whatever the bridge and the Mac do is a step of the driver's own, or none:
\* serve and LinkFollower call the device only in ways the driver allows.
LEMMA DriverMoves ==
    ASSUME TypeOK, BridgeTypeOK, BridgeNext
    PROVE  Step \/ UNCHANGED driverVars
<1> USE BridgeAssumption
<1>1. bridge.request.sequence \in RequestNumbers /\ bridge.previous \in RequestNumbers
      /\ bridge.link.sequence \in RequestNumbers
  BY Zenon DEF BridgeTypeOK, Locals, Connections, Snapshots, RequestNumbers
<1>2. bridge.found # NoAssociation => bridge.found.bssid \in BSSID
  BY PlaceAddress, Zenon DEF BridgeTypeOK, Locals, Places
<1>3. bridge.records \subseteq Records
  BY Zenon DEF BridgeTypeOK, Locals
<1>4. CASE GuestStep
  <2>1. ASSUME NEW q \in GuestRequests, connect_network(q.ssid, q.bssid, q.psk)
        PROVE  Step
    <3>1. q.ssid \in SSID /\ q.bssid \in BSSID \cup {NoAP} /\ q.psk \in BOOLEAN
      OBVIOUS
    <3> QED
      BY <2>1, Zenon DEF Step, Cfg80211
  <2> QED
    BY <1>4, Zenon DEF GuestStep, Step, Cfg80211
<1>5. CASE Start \/ Crash
  BY <1>5, Zenon DEF Start, Crash, Step
<1>6. CASE GetConnection \/ GetScan
  BY <1>6, Zenon DEF GetConnection, GetScan, Step, Ioctl
<1>7. CASE Result
  <2>1. ResultStatus \in {Success, Failure} /\ ResultAddress \in BSSID \cup {NoAP}
    BY <1>2, Zenon DEF ResultStatus, ResultAddress
  <2> QED
    BY <1>1, <1>7, <2>1, Zenon DEF Result, Refused, Step, Ioctl
<1>8. CASE FinishScan
  BY <1>1, <1>8, Zenon DEF FinishScan, Refused, Step, Ioctl
<1>9. CASE Wait
  BY <1>9, Zenon DEF Wait, Step, Poll
<1>10. CASE ReportDown
  BY <1>1, <1>10, Zenon DEF ReportDown, Refused, Step, Ioctl
<1>11. CASE ReportRoam
  BY <1>1, <1>3, <1>11, Zenon DEF ReportRoam, Refused, Matching, Step, Ioctl
<1>12. CASE Signal
  BY <1>2, <1>12, Zenon DEF Signal, Refused, Step, Ioctl
<1>13. CASE Scanning \/ WriteRecord \/ FollowTurn \/ WaitTurn \/ ConnectionStep
            \/ Snapshot \/ Follow \/ RoamScan \/ RoamRecheck
  BY <1>13, Zenon DEF Scanning, WriteRecord, FollowTurn, WaitTurn, ConnectionStep,
       DisconnectMac, ConfirmDisconnected, ScanForTarget, ConnectMac, VerifyAssociation,
       Rescan, RecheckIdentity, PublishAssociation, Snapshot, Follow, RoamScan,
       RoamRecheck, Refused
<1>14. CASE ConfirmationDelay \/ ExecuteLate \/ MacMoves
  BY <1>14, Zenon DEF ConfirmationDelay, ExecuteLate, MacMoves
<1> QED
  BY <1>4, <1>5, <1>6, <1>7, <1>8, <1>9, <1>10, <1>11, <1>12, <1>13, <1>14, Zenon
  DEF BridgeNext, BridgeStep, ServeStep, FollowStep

\* Only stop_device takes RTNL here, and it gives it back.
LEMMA LowerLeftAlone ==
    ASSUME TypeOK, BridgeTypeOK, BridgeNext
    PROVE  rtnl' \in {"free", "cancel"}
<1> USE DEF BridgeTypeOK, driverVars, lockVars
<1>1. CASE GuestStep
  BY <1>1, Zenon DEF GuestStep, connect_network, disconnect_network, start_scan, OpenDevice,
       abort_scan, finish_scan, stop_device, CancelWork, SignalAges, Kernel, DecideCarrier, SetCarrier,
       FireConnectionTimer, FireScanTimer, connection_timeout, scan_timeout, Tick
<1>2. CASE Start \/ Crash \/ GetConnection \/ GetScan \/ Wait
  BY <1>2, Zenon DEF Start, bridge_open, Crash, bridge_release, GetConnection, LH_GET_CONNECTION,
       GetScan, LH_GET_SCAN, Wait, PollRegister, PollWake, bridge_poll, PollTimeout
<1>3. CASE Result \/ FinishScan
  BY <1>3, Zenon
  DEF Result, LH_CONNECTION_RESULT, FinishScan, LH_FINISH_SCAN, finish_scan, Refused
<1>4. CASE ReportDown \/ ReportRoam \/ Signal
  BY <1>4, Zenon
  DEF ReportDown, report_link_down, ReportRoam, report_link_roam, Signal, LH_SIGNAL,
     Refused
<1>5. CASE Scanning \/ WriteRecord \/ FollowTurn \/ WaitTurn \/ ConnectionStep
           \/ Snapshot \/ Follow \/ RoamScan \/ RoamRecheck
  BY <1>5, Zenon DEF Scanning, WriteRecord, FollowTurn, WaitTurn, ConnectionStep,
       DisconnectMac, ConfirmDisconnected, ScanForTarget, ConnectMac, VerifyAssociation,
       Rescan, RecheckIdentity, PublishAssociation, Snapshot, Follow, RoamScan,
       RoamRecheck, Refused
<1>6. CASE ConfirmationDelay \/ ExecuteLate \/ MacMoves
  BY <1>6, Zenon DEF ConfirmationDelay, ExecuteLate, MacMoves
<1> QED
  BY <1>1, <1>2, <1>3, <1>4, <1>5, <1>6, Zenon
  DEF BridgeNext, BridgeStep, ServeStep, FollowStep

\* Every step keeps the types of the bridge's locals and of the Mac.
LEMMA LocalsStep ==
    ASSUME TypeOK, BridgeTypeOK, BridgeNext
    PROVE  bridge' \in Locals /\ mac' \in Macs
<1>1. bridge \in Locals /\ mac \in Macs
  BY Zenon DEF BridgeTypeOK
<1>2. \A pc \in Pcs : Goto(pc) => bridge' \in Locals
  BY <1>1, LocalsKept, Zenon DEF Goto
<1>3. Continue => bridge' \in Locals
  <2>1. /\ bridge.previous \in RequestNumbers /\ bridge.missing \in RequestNumbers
        /\ bridge.ripe \in BOOLEAN /\ bridge.crashes \in Nat
    BY <1>1, Zenon DEF Locals
  <2>2. [Fresh EXCEPT !.previous = bridge.previous] \in Locals
    BY <2>1, FreshLocal, LocalsKept, Zenon
  <2>3. [Fresh EXCEPT !.previous = bridge.previous, !.missing = bridge.missing] \in Locals
    BY <2>1, <2>2, LocalsKept, Zenon
  <2>4. [Fresh EXCEPT !.previous = bridge.previous, !.missing = bridge.missing,
                      !.ripe = bridge.ripe] \in Locals
    BY <2>1, <2>3, LocalsKept, Zenon
  <2> QED
    BY <2>1, <2>4, LocalsKept, Zenon DEF Continue
<1>4. /\ CallFails => mac' \in Macs
      /\ CallAbandoned => mac' \in Macs
      /\ Read => mac' \in Macs
      /\ UNCHANGED mac => mac' \in Macs
      /\ UNCHANGED bridge => bridge' \in Locals
  BY <1>1, MacKept, Zenon DEF Read
<1>5. ASSUME NEW pc \in Pcs, NEW found \in SUBSET Nearby
      PROVE  [bridge EXCEPT !.records = found, !.pc = pc] \in Locals
  <2>1. [bridge EXCEPT !.records = found] \in Locals
    BY <1>1, LocalsKept, Zenon
  <2> QED
    BY <2>1, LocalsKept, Zenon
<1>6. ASSUME NEW pc \in Pcs, NEW a \in Places
      PROVE  [bridge EXCEPT !.found = a, !.pc = pc] \in Locals
  <2>1. [bridge EXCEPT !.found = a] \in Locals
    BY <1>1, LocalsKept, Zenon
  <2> QED
    BY <2>1, LocalsKept, Zenon
<1>7. ASSUME NEW pc \in Pcs, Scanned(pc) PROVE bridge' \in Locals /\ mac' \in Macs
  BY <1>4, <1>5, <1>7, Zenon DEF Scanned
<1>8. CASE GuestStep
  BY <1>4, <1>8, Zenon DEF GuestStep
<1>9. CASE Start \/ WaitTurn \/ FollowTurn
  BY <1>2, <1>4, <1>9, Zenon DEF Start, WaitTurn, FollowTurn, Pcs
<1>10. CASE Crash
  <2>1. [Fresh EXCEPT !.pc = "down"] \in Locals
    BY FreshLocal, LocalsKept, Zenon DEF Pcs
  <2>2. bridge.crashes + 1 \in Nat
    BY <1>1 DEF Locals
  <2> QED
    BY <1>4, <1>10, <2>1, <2>2, LocalsKept, Zenon DEF Crash
<1>11. CASE GetConnection
  <2> DEFINE pc == CASE conn.operation = Connect -> "scan"
                     [] conn.operation = Disconnect -> "disconnect"
                     [] OTHER -> "get_scan"
  <2>1. pc \in Pcs
    BY Zenon DEF Pcs
  <2>2. [bridge EXCEPT !.request = conn] \in Locals
    BY <1>1, LocalsKept, Zenon DEF TypeOK
  <2> HIDE DEF pc
  <2>3. [bridge EXCEPT !.request = conn, !.pc = pc] \in Locals
    BY <2>1, <2>2, LocalsKept, Zenon
  <2> QED
    BY <1>4, <1>11, <2>3, Zenon DEF GetConnection, pc
<1>12. CASE Result \/ FinishScan
  BY <1>3, <1>4, <1>12, Zenon DEF Result, FinishScan
<1>13. CASE GetScan
  <2>1. scan.sequence \in RequestNumbers
    BY Zenon DEF TypeOK, Scans, RequestNumbers
  <2>2. [bridge EXCEPT !.previous = scan.sequence] \in Locals
    BY <1>1, <2>1, LocalsKept, Zenon
  <2>3. [bridge EXCEPT !.previous = scan.sequence, !.pc = "scanning"] \in Locals
    BY <2>2, LocalsKept, Zenon DEF Pcs
  <2>4. [bridge EXCEPT !.pc = "idle"] \in Locals
    BY <1>1, LocalsKept, Zenon DEF Pcs
  <2> QED
    BY <1>4, <1>13, <2>3, <2>4, Zenon DEF GetScan
<1>14. CASE Scanning \/ Rescan \/ RoamScan
  BY <1>2, <1>4, <1>7, <1>14, Zenon DEF Scanning, Rescan, RoamScan, Pcs
<1>15. CASE WriteRecord
  <2>1. \A record : bridge.records \ {record} \in SUBSET Nearby
    BY <1>1, Zenon DEF Locals
  <2>2. \A record : [bridge EXCEPT !.records = bridge.records \ {record}] \in Locals
    BY <1>1, <2>1, LocalsKept, Zenon
  <2> QED
    BY <1>2, <1>4, <1>15, <2>2, Zenon DEF WriteRecord, Pcs
<1>16. CASE Wait
  BY <1>3, <1>4, <1>16, Zenon DEF Wait
<1>17. CASE DisconnectMac
  BY <1>1, <1>2, <1>17, MacKept, Zenon DEF DisconnectMac, Pcs, Places
<1>18. CASE ConfirmDisconnected \/ RecheckIdentity \/ RoamRecheck
  BY <1>2, <1>4, <1>18, Zenon DEF ConfirmDisconnected, RecheckIdentity, RoamRecheck, Pcs
<1>19. CASE ScanForTarget
  <2>1. ASSUME NEW found \in SUBSET Nearby,
               bridge' = [bridge EXCEPT
                            !.records = found,
                            !.pc = IF \E record \in found : Candidate(record)
                                   THEN "connect" ELSE "fail"]
        PROVE  bridge' \in Locals
    BY <1>5, <2>1, Zenon DEF Pcs
  <2> QED
    BY <1>2, <1>4, <1>19, <2>1, Zenon DEF ScanForTarget, Pcs
<1>20. CASE ConnectMac
  <2>1. Network(bridge.request.ssid) \subseteq Places
    BY Zenon DEF Network, Places
  <2>2. [mac EXCEPT !.in = NoAssociation, !.failures = @ + 1] \in Macs
    <3>1. [mac EXCEPT !.in = NoAssociation] \in Macs
      BY <1>1, MacKept, Zenon DEF Places
    <3> QED
      BY <3>1, CountsKept, Zenon
  <2> QED
    BY <1>1, <1>2, <1>20, <2>1, <2>2, MacKept, Zenon DEF ConnectMac, Pcs
<1>21. CASE VerifyAssociation
  <2> DEFINE pc == IF ~Requested(mac.in) THEN "fail"
                   ELSE IF HasRecord(bridge.records, mac.in) THEN "publish"
                   ELSE "rescan"
  <2>1. pc \in Pcs
    BY Zenon DEF Pcs
  <2>2. mac.in \in Places
    BY <1>1, Zenon DEF Macs
  <2> HIDE DEF pc
  <2>3. [bridge EXCEPT !.found = mac.in, !.pc = pc] \in Locals
    BY <1>6, <2>1, <2>2, Zenon
  <2> QED
    BY <1>2, <1>4, <1>21, <2>3, Zenon DEF VerifyAssociation, pc, Pcs
<1>22. CASE PublishAssociation
  BY <1>2, <1>4, <1>22, Zenon DEF PublishAssociation, Pcs
<1>23. CASE Snapshot
  <2> DEFINE pc == IF link.connected /\ conn.operation = Idle THEN "follow" ELSE "wait"
  <2>1. LH_GET_LINK \in Snapshots
    BY Zenon DEF LH_GET_LINK, Snapshots, TypeOK, Links, RequestNumbers
  <2>2. [bridge EXCEPT !.link = LH_GET_LINK] \in Locals
    BY <1>1, <2>1, LocalsKept, Zenon
  <2>3. pc \in Pcs
    BY Zenon DEF Pcs
  <2> HIDE DEF pc
  <2>4. [bridge EXCEPT !.link = LH_GET_LINK, !.pc = pc] \in Locals
    BY <2>2, <2>3, LocalsKept, Zenon
  <2> QED
    BY <1>4, <1>23, <2>4, Zenon DEF Snapshot, pc
<1>24. CASE Follow
  <2>1. bridge.link.sequence \in RequestNumbers /\ 0 \in RequestNumbers
    BY <1>1, ConstantsAssumption DEF Locals, Snapshots, RequestNumbers
  <2>2. \A m \in RequestNumbers, pc \in Pcs :
           [bridge EXCEPT !.missing = m, !.ripe = FALSE, !.pc = pc] \in Locals
    BY <1>1, LocalsKept, Zenon
  <2>3. Missing \in Locals
    BY <1>1, <2>1, LocalsKept, Zenon DEF Missing, Pcs
  <2>4. Present \in Locals
    <3> DEFINE pc == IF \/ mac.in.ssid # bridge.link.ssid
                        \/ bridge.link.pinned /\ mac.in.bssid # bridge.link.bssid
                     THEN "report_down"
                     ELSE IF mac.in.bssid = bridge.link.bssid THEN "signal" ELSE "roam_scan"
    <3>1. pc \in Pcs
      BY Zenon DEF Pcs
    <3>2. mac.in \in Places
      BY <1>1, Zenon DEF Macs
    <3> HIDE DEF pc
    <3>3. [bridge EXCEPT !.missing = 0] \in Locals
      BY <1>1, <2>1, LocalsKept, Zenon
    <3>4. [bridge EXCEPT !.missing = 0, !.ripe = FALSE] \in Locals
      BY <3>3, LocalsKept, Zenon
    <3>5. [bridge EXCEPT !.missing = 0, !.ripe = FALSE, !.found = mac.in] \in Locals
      BY <3>2, <3>4, LocalsKept, Zenon
    <3>6. [bridge EXCEPT !.missing = 0, !.ripe = FALSE, !.found = mac.in, !.pc = pc]
             \in Locals
      BY <3>1, <3>5, LocalsKept, Zenon
    <3> QED
      BY <3>6, Zenon DEF Present, pc
  <2> QED
    BY <1>2, <1>4, <1>24, <2>3, <2>4, Zenon DEF Follow, Pcs
<1>25. CASE ReportDown \/ ReportRoam \/ Signal
  BY <1>2, <1>4, <1>25, Zenon DEF ReportDown, ReportRoam, Signal, Pcs
<1>26. CASE ConfirmationDelay
  BY <1>1, <1>26, LocalsKept, Zenon DEF ConfirmationDelay
<1>27. CASE ExecuteLate
  <2>1. PICK a \in Executed(Head(mac.late)) : mac' = [mac EXCEPT !.in = a, !.late = Tail(@)]
    BY <1>27, Zenon DEF ExecuteLate
  <2>2. a \in Places
    BY <1>1, Zenon DEF Executed, Network, Places, Macs
  <2>3. Tail(mac.late) \in Seq(Calls)
    BY <1>1, <1>27 DEF ExecuteLate, Macs
  <2> QED
    BY <1>1, <1>27, <2>1, <2>2, <2>3, Zenon DEF ExecuteLate, Macs
<1>28. CASE MacMoves
  <2>1. PICK a \in Places : mac' = [mac EXCEPT !.in = a, !.moves = @ + 1]
    BY <1>28, Zenon DEF MacMoves, Places
  <2>2. [mac EXCEPT !.in = a] \in Macs
    BY <1>1, MacKept, Zenon
  <2>3. [mac EXCEPT !.in = a, !.moves = @ + 1] \in Macs
    BY <2>2, CountsKept, Zenon
  <2> QED
    BY <1>4, <1>28, <2>1, <2>3, Zenon DEF MacMoves
<1> QED
  BY <1>8, <1>9, <1>10, <1>11, <1>12, <1>13, <1>14, <1>15, <1>16, <1>17, <1>18, <1>19,
     <1>20, <1>21, <1>22, <1>23, <1>24, <1>25, <1>26, <1>27, <1>28, Zenon
  DEF BridgeNext, BridgeStep, ServeStep, ConnectionStep, FollowStep

\* A step of the composition is a step of the driver or leaves it alone,
\* the history of its locks included.
LEMMA BridgeStepImplements ==
    TypeOK /\ BridgeTypeOK /\ [BridgeNext]_bridgeVars => [Next]_vars
<1> SUFFICES ASSUME TypeOK, BridgeTypeOK, [BridgeNext]_bridgeVars PROVE [Next]_vars
  OBVIOUS
<1>1. CASE BridgeNext
  <2>1. CASE Step
    BY <1>1, <2>1, Zenon DEF BridgeNext, Next
  <2>2. CASE UNCHANGED driverVars
    BY <1>1, <2>2, Zenon DEF BridgeNext, RecordOverlap, LowerBusy, BridgeTypeOK, vars, driverVars
  <2> QED
    BY <1>1, <2>1, <2>2, DriverMoves, Zenon
<1>2. CASE UNCHANGED bridgeVars
  BY <1>2, Zenon DEF bridgeVars, coreVars, vars
<1> QED
  BY <1>1, <1>2, Zenon

\* The composition stays well-formed.
LEMMA BridgeTyped == BridgeSpec => [](TypeOK /\ BridgeTypeOK)
<1>1. BridgeInit => TypeOK /\ BridgeTypeOK
  <2> SUFFICES ASSUME BridgeInit PROVE TypeOK /\ BridgeTypeOK
    OBVIOUS
  <2>1. TypeOK
    BY InitType, Zenon DEF BridgeInit
  <2>2. bridge \in Locals
    BY FreshLocal, LocalsKept, Zenon DEF BridgeInit, BridgeDown, Pcs
  <2>3. mac \in Macs
    BY DEF BridgeInit, BridgeDown, MacInit, Macs, Places
  <2> QED
    BY <2>1, <2>2, <2>3, Zenon DEF BridgeInit, Init, BridgeTypeOK
<1>2. TypeOK /\ BridgeTypeOK /\ [BridgeNext]_bridgeVars => TypeOK' /\ BridgeTypeOK'
  <2> SUFFICES ASSUME TypeOK, BridgeTypeOK, [BridgeNext]_bridgeVars
               PROVE  TypeOK' /\ BridgeTypeOK'
    OBVIOUS
  <2>1. TypeOK'
    <3>1. TypeOK /\ UNCHANGED vars => TypeOK'
      BY Zenon DEF TypeOK, vars, driverVars
    <3> QED
      BY <3>1, BridgeStepImplements, TypeStep, Zenon
  <2>2. CASE BridgeNext
    BY <2>1, <2>2, LocalsStep, LowerLeftAlone, Zenon DEF BridgeTypeOK
  <2>3. CASE UNCHANGED bridgeVars
    BY <2>1, <2>3, Zenon DEF BridgeTypeOK, bridgeVars, coreVars, driverVars
  <2> QED
    BY <2>2, <2>3, Zenon
<1> QED
  BY <1>1, <1>2, PTL DEF BridgeSpec

\* The bridge, the Mac and the driver together are an implementation of the
\* driver with an arbitrary bridge: serve and LinkFollower use the device of
\* linuxhost_wifi.c only as its specification allows.
THEOREM BridgeImplementsDriver == BridgeSpec => Spec
<1>1. BridgeInit => Init
  BY Zenon DEF BridgeInit
<1> QED
  BY <1>1, BridgeStepImplements, BridgeTyped, PTL DEF BridgeSpec, Spec

\* With this bridge, too, the link is what the guest asked for, no request is
\* left without its timeout or its wakeup, and the carrier follows the link.
THEOREM BridgeKeepsContract == BridgeSpec => [](LinkKept /\ RequestGuarded /\ CarrierTruth)
  BY BridgeImplementsDriver, LinkContract, RequestsGuarded, CarrierFollowsLink, PTL

-----------------------------------------------------------------------------
(* What the bridge promises                                                *)

\* While it serves a connect the bridge holds the connect it serves.
ServingInv ==
    bridge.pc \in {"scan", "connect", "status", "rescan", "recheck", "publish"} =>
        bridge.request.operation = Connect

\* A Mac that confirmed a disconnect is in no network, has nothing but
\* disconnects yet to execute, and is not being asked to connect.
QuietInv ==
    history.quiet =>
        /\ mac.in = NoAssociation /\ bridge.pc # "connect"
        /\ \A i \in 1 .. Len(mac.late) : mac.late[i].action = "wifi-disconnect"

\* While records are being written, cfg80211 has those that were written.
WrittenInv ==
    bridge.pc = "write" => history.found \ bridge.records \subseteq bss

\* What the assignments of the locals do to the fields the invariants read.
LEMMA LocalsMove ==
    ASSUME bridge \in Locals
    PROVE  /\ \A pc : Goto(pc) => /\ bridge'.pc = pc
                                  /\ bridge'.request = bridge.request
           /\ Continue => bridge'.pc = "top"
           /\ \A pc : Scanned(pc) => /\ bridge'.pc = pc
                                     /\ bridge'.request = bridge.request
<1>1. ASSUME NEW pc, Goto(pc)
      PROVE  bridge'.pc = pc /\ bridge'.request = bridge.request
  BY <1>1, Zenon DEF Goto, Locals
<1>2. ASSUME Continue PROVE bridge'.pc = "top"
  BY <1>2, Zenon DEF Continue, Fresh
<1>3. ASSUME NEW pc, Scanned(pc)
      PROVE  bridge'.pc = pc /\ bridge'.request = bridge.request
  BY <1>3, Zenon DEF Scanned, Locals
<1> QED
  BY <1>1, <1>2, <1>3, Zenon

\* Only serve's own path through handle_connection leads into a connect.
LEMMA ServingStep ==
    ASSUME TypeOK, BridgeTypeOK, ServingInv, BridgeNext
    PROVE  ServingInv'
<1> USE DEF ServingInv, At
<1>1. bridge \in Locals
  BY Zenon DEF BridgeTypeOK
<1>2. \A pc : Goto(pc) => bridge'.pc = pc /\ bridge'.request = bridge.request
  BY <1>1, LocalsMove, Zenon
<1>3. \A pc : Scanned(pc) => bridge'.pc = pc /\ bridge'.request = bridge.request
  BY <1>1, LocalsMove, Zenon
<1>4. Continue => bridge'.pc = "top"
  BY <1>1, LocalsMove, Zenon
<1>5. CASE UNCHANGED bridge
  BY <1>5, Zenon
<1>6. CASE GuestStep \/ ExecuteLate \/ MacMoves
  BY <1>6, Zenon DEF GuestStep, ExecuteLate, MacMoves
<1>7. CASE Start \/ WaitTurn \/ FollowTurn
  BY <1>2, <1>7 DEF Start, WaitTurn, FollowTurn
<1>8. CASE Crash
  BY <1>8, Zenon DEF Crash, Fresh
<1>9. CASE GetConnection
  BY <1>9 DEF GetConnection, Locals
<1>10. CASE Result \/ FinishScan
  BY <1>4, <1>10, Zenon DEF Result, FinishScan
<1>11. CASE GetScan
  BY <1>11 DEF GetScan, Locals
<1>12. CASE Scanning \/ Rescan \/ RoamScan
  BY <1>2, <1>3, <1>12 DEF Scanning, Rescan, RoamScan
<1>13. CASE WriteRecord
  <2>1. CASE \E record : bridge' = [bridge EXCEPT !.records = @ \ {record}]
    BY <2>1 DEF Locals
  <2> QED
    BY <1>2, <1>13, <2>1 DEF WriteRecord
<1>14. CASE Wait
  BY <1>4, <1>14, Zenon DEF Wait
<1>15. CASE DisconnectMac \/ ConfirmDisconnected \/ RecheckIdentity \/ RoamRecheck
            \/ ConnectMac \/ PublishAssociation \/ ReportDown \/ ReportRoam \/ Signal
  BY <1>2, <1>15 DEF DisconnectMac, ConfirmDisconnected, RecheckIdentity, RoamRecheck,
     ConnectMac, PublishAssociation, ReportDown, ReportRoam, Signal
<1>16. CASE ScanForTarget
  <2>1. CASE \E found, pc : bridge' = [bridge EXCEPT !.records = found, !.pc = pc]
    BY <1>1, <1>16, <2>1, Zenon DEF ScanForTarget, Locals
  <2> QED
    BY <1>2, <1>16, <2>1, Zenon DEF ScanForTarget
<1>17. CASE VerifyAssociation
  <2>1. ASSUME NEW pc, bridge' = [bridge EXCEPT !.found = mac.in, !.pc = pc]
        PROVE  bridge'.request = bridge.request
    BY <2>1 DEF Locals
  <2>2. bridge'.request = bridge.request
    BY <1>2, <1>17, <2>1, Zenon DEF VerifyAssociation
  <2> QED
    BY <1>17, <2>2, Zenon DEF VerifyAssociation
<1>18. CASE Snapshot
  BY <1>18 DEF Snapshot, Locals
<1>19. CASE Follow
  <2>1. Missing.pc \in {"wait", "report_down"}
    BY DEF Missing, Locals
  <2>2. Present.pc \in {"report_down", "signal", "roam_scan"}
    BY DEF Present, Locals
  <2> QED
    BY <1>2, <1>19, <2>1, <2>2 DEF Follow
<1>20. CASE ConfirmationDelay
  BY <1>20 DEF ConfirmationDelay, Locals
<1> QED
  BY <1>6, <1>7, <1>8, <1>9, <1>10, <1>11, <1>12, <1>13, <1>14, <1>15, <1>16, <1>17,
     <1>18, <1>19, <1>20, Zenon
  DEF BridgeNext, BridgeStep, ServeStep, ConnectionStep, FollowStep

\* What a step can do to the Mac, besides counting a failure.
LEMMA MacMotion ==
    ASSUME BridgeTypeOK, BridgeNext
    PROVE  \/ mac'.in = mac.in /\ mac'.late = mac.late
           \/ CallAbandoned
           \/ mac'.in = NoAssociation /\ mac'.late = mac.late
           \/ bridge.pc = "connect"
           \/ ExecuteLate
           \/ mac'.moves # mac.moves
<1>1. mac \in Macs
  BY Zenon DEF BridgeTypeOK
<1>2. CallFails => mac'.in = mac.in /\ mac'.late = mac.late
  BY DEF CallFails, Macs
<1>3. CASE GuestStep \/ ConfirmationDelay
  BY <1>3, Zenon DEF GuestStep, ConfirmationDelay
<1>4. CASE Start \/ Crash \/ GetConnection \/ GetScan \/ Result \/ FinishScan \/ WriteRecord
           \/ FollowTurn \/ WaitTurn \/ Wait
  BY <1>4, Zenon
  DEF Start, Crash, GetConnection, GetScan, Result, FinishScan, WriteRecord, FollowTurn,
     WaitTurn, Wait
<1>5. CASE Scanning \/ Rescan \/ RoamScan \/ ConfirmDisconnected \/ ScanForTarget
           \/ VerifyAssociation \/ RecheckIdentity \/ PublishAssociation
  BY <1>2, <1>5, Zenon DEF Scanning, Rescan, RoamScan, Scanned, Read, ConfirmDisconnected,
     ScanForTarget, VerifyAssociation, RecheckIdentity, PublishAssociation
<1>6. CASE DisconnectMac
  <2>1. mac' = [mac EXCEPT !.in = NoAssociation] =>
           mac'.in = NoAssociation /\ mac'.late = mac.late
    BY DEF Macs
  <2> QED
    BY <1>2, <1>6, <2>1, Zenon DEF DisconnectMac
<1>7. CASE ConnectMac
  BY <1>7, Zenon DEF ConnectMac, At
<1>8. CASE Snapshot \/ Follow \/ ReportDown \/ RoamRecheck \/ ReportRoam \/ Signal
  BY <1>2, <1>8, Zenon
  DEF Snapshot, Follow, ReportDown, RoamRecheck, ReportRoam, Signal, Read
<1>9. CASE MacMoves
  <2>1. PICK a : mac' = [mac EXCEPT !.in = a, !.moves = @ + 1]
    BY <1>9, Zenon DEF MacMoves
  <2>2. mac'.moves = mac.moves + 1 /\ mac.moves \in Nat
    BY <1>1, <2>1, Zenon DEF Macs
  <2> QED
    BY <2>2
<1> QED
  BY <1>3, <1>4, <1>5, <1>6, <1>7, <1>8, <1>9, Zenon
  DEF BridgeNext, BridgeStep, ServeStep, ConnectionStep, FollowStep

\* serve succeeds at a disconnect only when the Mac has said that it is in no
\* network, and by then it has executed every call that was given up before.
LEMMA SucceedsWhenGone ==
    ASSUME BridgeTypeOK, ServingInv, BridgeNext, bridge.pc # "succeed",
           bridge'.pc = "succeed", bridge.request.operation = Disconnect
    PROVE  mac' = mac /\ mac.in = NoAssociation /\ mac.late = <<>>
<1>1. bridge \in Locals
  BY Zenon DEF BridgeTypeOK
<1>2. \A pc : Goto(pc) => bridge'.pc = pc
  BY <1>1, LocalsMove, Zenon
<1>3. \A pc : Scanned(pc) => bridge'.pc = pc
  BY <1>1, LocalsMove, Zenon
<1>4. ~Continue /\ ~UNCHANGED bridge
  BY <1>1, LocalsMove, Zenon
<1>5. ~(GuestStep \/ ExecuteLate \/ MacMoves \/ Wait \/ Result \/ FinishScan)
  BY <1>4, Zenon DEF GuestStep, ExecuteLate, MacMoves, Wait, Result, FinishScan
<1>6. ~(Start \/ WaitTurn \/ FollowTurn \/ DisconnectMac \/ RecheckIdentity \/ RoamRecheck
        \/ ConnectMac \/ ReportDown \/ ReportRoam \/ Signal)
  BY <1>2, Zenon
  DEF Start, WaitTurn, FollowTurn, DisconnectMac, RecheckIdentity, RoamRecheck,
     ConnectMac, ReportDown, ReportRoam, Signal
<1>7. ~(Scanning \/ Rescan \/ RoamScan)
  BY <1>2, <1>3, Zenon DEF Scanning, Rescan, RoamScan
<1>8. ~(Crash \/ GetConnection \/ GetScan \/ Snapshot \/ ConfirmationDelay)
  BY <1>1, Zenon DEF Crash, Fresh, GetConnection, GetScan, Snapshot, ConfirmationDelay, Locals
<1>9. ~WriteRecord
  <2>1. \A record : bridge' # [bridge EXCEPT !.records = @ \ {record}]
    BY <1>1, Zenon DEF Locals
  <2> QED
    BY <1>2, <2>1, Zenon DEF WriteRecord
<1>10. ~ScanForTarget
  <2>1. \A found, pc : bridge' = [bridge EXCEPT !.records = found, !.pc = pc] => pc = "succeed"
    BY DEF Locals
  <2> QED
    BY <1>2, <2>1, Zenon DEF ScanForTarget
<1>11. ~VerifyAssociation
  <2>1. \A pc : bridge' = [bridge EXCEPT !.found = mac.in, !.pc = pc] => pc = "succeed"
    BY DEF Locals
  <2> QED
    BY <1>2, <2>1, Zenon DEF VerifyAssociation
<1>12. ~Follow
  <2>1. Missing.pc \in {"wait", "report_down"}
    BY DEF Missing, Locals
  <2>2. Present.pc \in {"report_down", "signal", "roam_scan"}
    BY DEF Present, Locals
  <2> QED
    BY <1>2, <2>1, <2>2, Zenon DEF Follow
<1>13. ~PublishAssociation
  BY DEF PublishAssociation, At, ServingInv, Connect, Disconnect
<1>14. ConfirmDisconnected
  BY <1>5, <1>6, <1>7, <1>8, <1>9, <1>10, <1>11, <1>12, <1>13, Zenon
  DEF BridgeNext, BridgeStep, ServeStep, ConnectionStep, FollowStep
<1> QED
  BY <1>2, <1>14, Zenon DEF ConfirmDisconnected, Read, Replies

\* A Mac that is out of every network stays out until it is asked to connect
\* or moves by itself: every call it has yet to execute is a disconnect.
LEMMA QuietStep ==
    ASSUME BridgeTypeOK, ServingInv, QuietInv, BridgeNext
    PROVE  QuietInv'
<1> SUFFICES ASSUME history'.quiet
             PROVE  /\ mac'.in = NoAssociation /\ bridge'.pc # "connect"
                    /\ \A i \in 1 .. Len(mac'.late) :
                          mac'.late[i].action = "wifi-disconnect"
  BY Zenon DEF QuietInv
<1>1. mac \in Macs
  BY Zenon DEF BridgeTypeOK
<1>2. \/ /\ bridge.pc # "succeed" /\ bridge'.pc = "succeed"
         /\ bridge.request.operation = Disconnect
      \/ history.quiet /\ bridge'.pc # "connect" /\ mac'.moves = mac.moves
  BY Zenon DEF BridgeNext, RecordHistory
<1>3. CASE /\ bridge.pc # "succeed" /\ bridge'.pc = "succeed"
           /\ bridge.request.operation = Disconnect
  BY <1>3, SucceedsWhenGone
<1>4. CASE history.quiet /\ bridge'.pc # "connect" /\ mac'.moves = mac.moves
  <2>1. /\ mac.in = NoAssociation /\ bridge.pc # "connect"
        /\ \A i \in 1 .. Len(mac.late) : mac.late[i].action = "wifi-disconnect"
    BY <1>4, Zenon DEF QuietInv
  <2>2. CASE mac'.in = mac.in /\ mac'.late = mac.late
    BY <1>4, <2>1, <2>2, Zenon
  <2>3. CASE CallAbandoned
    <3>1. PICK call \in Mutation :
             mac' = [mac EXCEPT !.failures = @ + 1, !.late = Append(@, call)]
      BY <2>3, Zenon DEF CallAbandoned
    <3>2. call.action = "wifi-disconnect"
      BY <2>1 DEF Mutation
    <3>3. mac'.in = mac.in /\ mac'.late = Append(mac.late, call) /\ mac.late \in Seq(Calls)
      BY <1>1, <3>1, Zenon DEF Macs
    <3> QED
      BY <1>4, <2>1, <3>2, <3>3
  <2>4. CASE mac'.in = NoAssociation /\ mac'.late = mac.late
    BY <1>4, <2>1, <2>4, Zenon
  <2>5. CASE ExecuteLate
    <3>1. mac.late \in Seq(Calls) /\ mac.late # <<>>
      BY <1>1, <2>5, Zenon DEF ExecuteLate, Macs
    <3>2. Head(mac.late).action = "wifi-disconnect"
      BY <2>1, <3>1
    <3>3. mac' = [mac EXCEPT !.in = NoAssociation, !.late = Tail(@)]
      BY <2>5, <3>2, Zenon DEF ExecuteLate, Executed
    <3>4. mac'.in = NoAssociation /\ mac'.late = Tail(mac.late)
      BY <3>3 DEF Macs
    <3> QED
      BY <1>4, <2>1, <3>4
  <2> QED
    BY <1>4, <2>1, <2>3, <2>5, MacMotion, Zenon
<1> QED
  BY <1>2, <1>3, <1>4, Zenon

\* A record leaves the list of those to be written only when the kernel took
\* it: the first one that is refused ends the writing.
LEMMA WrittenStep ==
    ASSUME BridgeTypeOK, WrittenInv, BridgeNext
    PROVE  WrittenInv'
<1> SUFFICES ASSUME bridge'.pc = "write"
             PROVE  history'.found \ bridge'.records \subseteq bss'
  BY Zenon DEF WrittenInv
<1>1. bridge \in Locals
  BY Zenon DEF BridgeTypeOK
<1>2. history'.found = IF bridge.pc = "scanning" THEN bridge'.records ELSE history.found
  BY Zenon DEF BridgeNext, RecordHistory
<1>3. CASE bridge.pc = "scanning"
  BY <1>2, <1>3, Zenon
<1>4. CASE bridge.pc = "write" /\ bridge'.records = bridge.records /\ bss' = bss
  BY <1>2, <1>4, Zenon DEF WrittenInv
<1>5. CASE WriteRecord
  <2>1. \A pc : Goto(pc) => bridge'.pc = pc
    BY <1>1, LocalsMove
  <2>2. PICK record \in bridge.records :
           bss' = bss \cup {record} /\ bridge' = [bridge EXCEPT !.records = @ \ {record}]
    BY <1>5, <2>1, Zenon DEF WriteRecord
  <2>3. bridge'.records = bridge.records \ {record}
    BY <2>2 DEF Locals
  <2> QED
    BY <1>2, <2>2 DEF WrittenInv, WriteRecord, At
<1>6. ASSUME bridge.pc # "scanning" PROVE WriteRecord \/ (bridge.pc = "write" /\ bridge'.records = bridge.records /\ bss' = bss)
  <2>1. \A pc : Goto(pc) => bridge'.pc = pc
    BY <1>1, LocalsMove
  <2>2. \A pc : Scanned(pc) => bridge'.pc = pc
    BY <1>1, LocalsMove
  <2>3. ~Continue
    BY <1>1, LocalsMove, Zenon
  <2>4. CASE GuestStep \/ ExecuteLate \/ MacMoves
    BY <2>4, Zenon DEF GuestStep, ExecuteLate, MacMoves
  <2>5. CASE ConfirmationDelay
    BY <2>5 DEF ConfirmationDelay, Locals
  <2>6. ~(Wait \/ Result \/ FinishScan)
    BY <2>3, Zenon DEF Wait, Result, FinishScan, At
  <2>7. ~(Start \/ WaitTurn \/ FollowTurn \/ ReportDown \/ ReportRoam \/ Signal)
    BY <2>1, Zenon DEF Start, WaitTurn, FollowTurn, ReportDown, ReportRoam, Signal
  <2>8. ~(Scanning \/ Rescan \/ RoamScan)
    BY <1>6, <2>1, <2>2, Zenon DEF Scanning, Rescan, RoamScan, At
  <2>9. ~(Crash \/ GetConnection \/ GetScan \/ Snapshot)
    BY <1>1, Zenon DEF Crash, Fresh, GetConnection, GetScan, Snapshot, Locals
  <2>10. ~ScanForTarget
    <3>1. \A found, pc : bridge' = [bridge EXCEPT !.records = found, !.pc = pc] => pc = "write"
      BY DEF Locals
    <3> QED
      BY <2>1, <3>1, Zenon DEF ScanForTarget
  <2>11. ~VerifyAssociation
    <3>1. \A pc : bridge' = [bridge EXCEPT !.found = mac.in, !.pc = pc] => pc = "write"
      BY DEF Locals
    <3> QED
      BY <2>1, <3>1, Zenon DEF VerifyAssociation
  <2>12. ~Follow
    <3>1. Missing.pc \in {"wait", "report_down"}
      BY DEF Missing, Locals
    <3>2. Present.pc \in {"report_down", "signal", "roam_scan"}
      BY DEF Present, Locals
    <3> QED
      BY <2>1, <3>1, <3>2, Zenon DEF Follow
  <2>13. ~(DisconnectMac \/ ConfirmDisconnected \/ ConnectMac \/ RecheckIdentity
           \/ PublishAssociation \/ RoamRecheck)
    BY <2>1, Zenon
    DEF DisconnectMac, ConfirmDisconnected, ConnectMac, RecheckIdentity,
       PublishAssociation, RoamRecheck
  <2> QED
    BY <2>4, <2>5, <2>6, <2>7, <2>8, <2>9, <2>10, <2>11, <2>12, <2>13, Zenon
    DEF BridgeNext, BridgeStep, ServeStep, ConnectionStep, FollowStep
<1> QED
  BY <1>3, <1>4, <1>5, <1>6, Zenon

\* The three invariants hold together.
LEMMA ServeInvariant == BridgeSpec => [](ServingInv /\ QuietInv /\ WrittenInv)
<1> DEFINE Inv == ServingInv /\ QuietInv /\ WrittenInv
<1>1. BridgeInit => Inv
  BY DEF BridgeInit, BridgeDown, Fresh, ServingInv, QuietInv, WrittenInv
<1>2. TypeOK /\ BridgeTypeOK /\ Inv /\ [BridgeNext]_bridgeVars => Inv'
  <2>1. Inv /\ UNCHANGED bridgeVars => Inv'
    BY Zenon DEF ServingInv, QuietInv, WrittenInv, bridgeVars, coreVars
  <2> QED
    BY <2>1, ServingStep, QuietStep, WrittenStep, Zenon
<1> QED
  BY <1>1, <1>2, BridgeTyped, PTL DEF BridgeSpec

\* handle_connection: once a disconnect has been answered with success, the Mac
\* stays out of every network until it is asked again or moves by itself,
\* however many calls were lost or executed late before.
THEOREM DisconnectStaysConfirmed == BridgeSpec => []ConfirmedDisconnect
<1>1. QuietInv => ConfirmedDisconnect
  BY Zenon DEF QuietInv, ConfirmedDisconnect
<1> QED
  BY <1>1, ServeInvariant, PTL

\* scan and serve: a scan that ends without an error has given cfg80211 every
\* record the Mac found.
THEOREM FinishedScansComplete == BridgeSpec => ScanComplete
<1> DEFINE Complete == At("write") /\ At("top")' /\ scan.pending /\ ~scan'.pending
                         => history.found \subseteq bss
<1>1. BridgeTypeOK /\ WrittenInv /\ [BridgeNext]_bridgeVars => [Complete]_bridgeVars
  <2> SUFFICES ASSUME BridgeTypeOK, WrittenInv, BridgeNext, bridge.pc = "write",
                      bridge'.pc = "top"
               PROVE  history.found \subseteq bss
    BY Zenon DEF At
  <2>1. bridge \in Locals
    BY Zenon DEF BridgeTypeOK
  <2>2. \A pc : Goto(pc) => bridge'.pc = pc
    BY <2>1, LocalsMove, Zenon
  <2>3. ~(GuestStep \/ ExecuteLate \/ MacMoves)
    BY Zenon DEF GuestStep, ExecuteLate, MacMoves
  <2>4. ~(Crash \/ ConfirmationDelay)
    BY <2>1, Zenon DEF Crash, Fresh, ConfirmationDelay, Locals
  <2>5. ~WriteRecord
    <3>1. \A record : bridge' # [bridge EXCEPT !.records = @ \ {record}]
      BY <2>1, Zenon DEF Locals
    <3> QED
      BY <2>2, <3>1, Zenon DEF WriteRecord
  <2>6. FinishScan
    BY <2>3, <2>4, <2>5, Zenon
    DEF BridgeNext, BridgeStep, ServeStep, ConnectionStep, FollowStep, Start,
       GetConnection, Result, GetScan, Scanning, FollowTurn, WaitTurn, Wait,
       DisconnectMac, ConfirmDisconnected, ScanForTarget, ConnectMac, VerifyAssociation,
       Rescan, RecheckIdentity, PublishAssociation, Snapshot, Follow, ReportDown,
       RoamScan, RoamRecheck, ReportRoam, Signal, At
  <2>7. bridge.records = {}
    BY <2>6, Zenon DEF FinishScan, At
  <2> QED
    BY <2>7, Zenon DEF WrittenInv
<1> QED
  BY <1>1, BridgeTyped, ServeInvariant, PTL DEF BridgeSpec, ScanComplete

-----------------------------------------------------------------------------
(* The link the guest is shown                                             *)

\* How many requests cfg80211 has made since the one numbered n, when the last
\* one is numbered c: request numbers wrap around and leave out zero.
Age(c, n) == IF n <= c THEN c - n ELSE c - n + SeqMod - 1

\* A number the driver has given out, not too long ago to be told apart.
Past(n) == n \in RequestNumbers /\ Age(connection_sequence, n) <= used.connections

Serving == {"disconnect", "disconnected", "scan", "connect", "status", "rescan",
            "recheck", "publish", "succeed", "fail"}
Verified == {"rescan", "recheck", "publish", "succeed"}
Roaming == {"roam_scan", "roam_record", "report_roam"}

\* The request of number n is the pending one.
Pending(n) == Age(connection_sequence, n) = 0 /\ conn.operation # Idle

\* A pending request has the last number and is not the one last answered.
NumberInv ==
    /\ conn.operation # Idle => conn.sequence = connection_sequence /\ conn.sequence # 0
    /\ history.answered # 0 =>
         /\ Past(history.answered)
         /\ conn.operation # Idle => Age(connection_sequence, history.answered) > 0

\* What the bridge serves is newer than what it last answered, and is the
\* pending request itself unless that has been replaced or cancelled.
RequestServed ==
    bridge.pc \in Serving =>
      /\ Past(bridge.request.sequence) /\ bridge.request.sequence # 0
      /\ bridge.request.operation \in {Connect, Disconnect}
      /\ bridge.pc \in {"disconnect", "disconnected"} =>
           bridge.request.operation = Disconnect
      /\ history.answered # 0 =>
           Age(connection_sequence, history.answered)
             > Age(connection_sequence, bridge.request.sequence)
      /\ Pending(bridge.request.sequence) => conn = bridge.request

\* Once verified, the association is one the request allows, and the Mac has
\* been there since the request was made.
FoundVerified ==
    bridge.pc \in Verified /\ bridge.request.operation = Connect =>
      /\ bridge.found \in Network(bridge.request.ssid)
      /\ bridge.request.bssid # NoAP => bridge.found.bssid = bridge.request.bssid
      /\ Pending(bridge.request.sequence) => bridge.found \in history.visited

\* Before it reports success the bridge has given cfg80211 the access point.
FoundPublished ==
    bridge.pc = "succeed" /\ bridge.request.operation = Connect =>
      \E record \in bss : /\ Association(record) = bridge.found
                          /\ CompatibleSecurity(record.security, bridge.request.psk)

\* The association the follower is about to report belongs to the link of its
\* snapshot, or that link is gone.
RoamInv ==
    /\ bridge.pc \in Roaming \cup {"follow"} => Past(bridge.link.sequence)
    /\ bridge.pc \in Roaming /\ Age(connection_sequence, bridge.link.sequence) = 0 =>
         bridge.found \in history.visited

TruthInv == /\ NumberInv /\ RequestServed /\ FoundVerified /\ FoundPublished
            /\ RoamInv /\ LinkReal

\* The driver has not made so many requests that their numbers come round: there
\* are 2^32 of them, and a request takes a user's action.
NumbersLast == MaxConnections < SeqMod - 1

\* A new request makes every earlier one older by one.
LEMMA AgeGrows ==
    ASSUME NumbersLast, NEW c \in RequestNumbers, NEW n \in RequestNumbers,
           NEW u \in Nat, u < MaxConnections, Age(c, n) <= u
    PROVE  /\ Age(c, n) \in Nat
           /\ Age(NextSequence(c), n) = Age(c, n) + 1
           /\ NextSequence(c) \in RequestNumbers \ {0}
  BY ConstantsAssumption DEF NumbersLast, RequestNumbers, Age, NextSequence

\* The last request has age zero, and ages are not negative.
LEMMA AgeNow ==
    ASSUME NEW c \in RequestNumbers
    PROVE  /\ Age(c, c) = 0
           /\ \A n \in RequestNumbers : Age(c, n) \in Nat
  BY ConstantsAssumption DEF RequestNumbers, Age

-----------------------------------------------------------------------------
(* The kinds of steps                                                      *)

\* The locals that the link of the guest depends on.
locals == <<bridge.pc, bridge.request, bridge.found, bridge.link>>

\* A step in which nothing begins: at most the pending request or the link ends.
Calm ==
    /\ connection_sequence' = connection_sequence
    /\ used'.connections = used.connections
    /\ conn' = conn \/ conn'.operation = Idle
    /\ link' = link \/ ~link'.connected
    /\ bss \subseteq bss'

\* begin_connection, under connect_network or disconnect_network
BeginsStep ==
    /\ connection_sequence' = NextSequence(connection_sequence)
    /\ used.connections < MaxConnections /\ used'.connections = used.connections + 1
    /\ conn'.operation \in {Connect, Disconnect}
    /\ conn'.sequence = connection_sequence'
    /\ link' = link \/ ~link'.connected
    /\ conn'.operation = Connect => ~link'.connected
    /\ UNCHANGED <<bridge, bss>>

\* The Mac is not where the link of the follower's snapshot has it.
Lost ==
    /\ mac' = mac
    /\ \/ mac.in = NoAssociation
       \/ mac.in.ssid # bridge.link.ssid
       \/ bridge.link.pinned /\ mac.in.bssid # bridge.link.bssid

\* The bridge's locals stay; it gives up what it does; it goes on serving.
StaysStep == Calm /\ UNCHANGED locals
LeavesStep ==
    /\ Calm
    /\ bridge.pc \notin {"succeed", "fail"} \/ bridge'.pc = "down"
    /\ bridge'.pc \notin Serving \cup Roaming \cup {"follow"}
    /\ bridge'.pc = "report_down" => bridge.pc = "follow" /\ Lost
ServesStep ==
    /\ Calm
    /\ bridge.pc \in Serving /\ bridge'.pc \in Serving \ {"succeed"}
    /\ bridge'.request = bridge.request
    /\ bridge'.pc \in {"disconnect", "disconnected"} => bridge.pc = "disconnect"
    /\ bridge'.pc \in Verified => bridge.pc \in Verified \ {"succeed"} /\ bridge'.found = bridge.found

\* GetConnection, of a request that is pending
TakesStep ==
    /\ Calm /\ conn' = conn
    /\ bridge.pc = "top" /\ bridge'.pc \in {"scan", "disconnect"}
    /\ bridge'.request = conn /\ conn.operation \in {Connect, Disconnect}
    /\ bridge'.pc = "disconnect" => conn.operation = Disconnect

\* VerifyAssociation, of an association the request allows
VerifiesStep ==
    /\ Calm
    /\ bridge.pc = "status" /\ bridge'.pc \in {"publish", "rescan"}
    /\ bridge'.request = bridge.request /\ bridge'.found = mac.in /\ mac' = mac
    /\ mac.in \in Network(bridge.request.ssid)
    /\ bridge.request.bssid # NoAP => mac.in.bssid = bridge.request.bssid

\* PublishAssociation and ConfirmDisconnected, when they succeed
SucceedsStep ==
    /\ Calm
    /\ bridge'.pc = "succeed"
    /\ bridge'.request = bridge.request /\ bridge'.found = bridge.found
    /\ \/ bridge.pc = "disconnected"
       \/ /\ bridge.pc = "publish"
          /\ \E record \in bss' : /\ Association(record) = bridge.found
                                  /\ CompatibleSecurity(record.security, bridge.request.psk)

\* Result, accepted or refused
ResultStep ==
    /\ connection_sequence' = connection_sequence
    /\ used'.connections = used.connections
    /\ bss' = bss
    /\ bridge.pc \in {"succeed", "fail"} /\ bridge'.pc = "top"
    /\ \/ /\ ConnectionResultAccepted(bridge.request.sequence, ResultStatus, ResultAddress)
          /\ conn'.operation = Idle
          /\ link' = FinishedLink(ResultStatus, ResultAddress)
       \/ /\ ~ConnectionResultAccepted(bridge.request.sequence, ResultStatus, ResultAddress)
          /\ UNCHANGED <<conn, link>>

\* LinkFollower: a snapshot, an association on another access point, the steps
\* up to the report, and the report
SnapshotStep ==
    /\ Calm
    /\ bridge.pc = "snapshot" /\ bridge'.pc = "follow"
    /\ bridge'.link = LH_GET_LINK /\ link' = link
FollowsStep ==
    /\ Calm
    /\ bridge.pc = "follow" /\ bridge'.pc = "roam_scan"
    /\ bridge'.link = bridge.link /\ bridge'.found = mac'.in
RoamsStep ==
    /\ Calm
    /\ bridge.pc \in Roaming /\ bridge'.pc \in Roaming
    /\ bridge'.link = bridge.link /\ bridge'.found = bridge.found
ReportStep ==
    /\ connection_sequence' = connection_sequence
    /\ used'.connections = used.connections /\ conn' = conn
    /\ bridge.pc = "report_roam" /\ bridge'.pc = "signal"
    /\ bridge.link.sequence = connection_sequence
    /\ \E record \in bss' :
          /\ Association(record) = bridge.found
          /\ record.ssid = link.ssid
          /\ CompatibleSecurity(record.security, link.privacy)
          /\ link' = [link EXCEPT !.bssid = record.bssid]
    /\ bss \subseteq bss'

\* What the history records of the Mac's places and of the answers.
LEMMA HistoryMoves ==
    ASSUME RecordHistory
    PROVE  /\ mac'.in \in history'.visited
           /\ \/ conn'.operation # Connect
              \/ connection_sequence' = connection_sequence
              => history.visited \subseteq history'.visited
           /\ bridge.pc \in {"succeed", "fail"} /\ bridge'.pc = "top" =>
                history'.answered = bridge.request.sequence
           /\ bridge.pc \notin {"succeed", "fail"} \/ bridge'.pc # "top" =>
                history'.answered \in {history.answered, 0}
  BY Zenon DEF RecordHistory

\* A new request: what the bridge holds is no longer pending.
LEMMA BeginsTruth ==
    ASSUME NumbersLast, TypeOK, TruthInv, RecordHistory, BeginsStep
    PROVE  TruthInv'
<1>1. /\ connection_sequence \in RequestNumbers /\ used.connections \in Nat
      /\ SeqMod \in Nat
  BY ConstantsAssumption DEF TypeOK, RequestNumbers, Usage
<1>2. \A n \in RequestNumbers : Past(n) =>
         /\ Age(connection_sequence, n) \in Nat
         /\ Age(connection_sequence', n) = Age(connection_sequence, n) + 1
         /\ Past(n)'
  BY <1>1, AgeGrows DEF BeginsStep, Past
<1>3. \A n : Past(n) => n \in RequestNumbers
  BY Zenon DEF Past
<1>4. \A n : Past(n) => ~Pending(n)'
  BY <1>2, <1>3 DEF Pending
<1>5. history'.answered \in {history.answered, 0}
  BY HistoryMoves, Zenon DEF BeginsStep
<1>6. connection_sequence' # 0
  BY <1>1 DEF BeginsStep, NextSequence, RequestNumbers
<1>7. NumberInv'
  BY <1>2, <1>3, <1>5, <1>6 DEF TruthInv, NumberInv, BeginsStep
<1>8. RequestServed'
  BY <1>2, <1>3, <1>4, <1>5 DEF TruthInv, NumberInv, RequestServed, BeginsStep
<1>9. FoundVerified' /\ FoundPublished'
  BY <1>4, Zenon
  DEF TruthInv, FoundVerified, FoundPublished, RequestServed, Verified, Serving,
     BeginsStep
<1>10. RoamInv'
  BY <1>2, <1>3 DEF TruthInv, RoamInv, BeginsStep
<1>11. LinkReal'
  BY HistoryMoves, Zenon DEF TruthInv, LinkReal, ConnectTruthful, KnownBSS, BeginsStep
<1> QED
  BY <1>7, <1>8, <1>9, <1>10, <1>11, Zenon DEF TruthInv

\* In a calm step the numbers keep their ages, and the link stays real.
LEMMA CalmTruth ==
    ASSUME TruthInv, RecordHistory, Calm,
           bridge.pc \notin {"succeed", "fail"} \/ bridge'.pc # "top"
    PROVE  /\ NumberInv' /\ LinkReal'
           /\ \A n : Past(n)' <=> Past(n)
           /\ \A n : Pending(n)' => Pending(n) /\ conn' = conn
           /\ history.visited \subseteq history'.visited
           /\ history'.answered \in {history.answered, 0}
<1>1. /\ history.visited \subseteq history'.visited
      /\ history'.answered \in {history.answered, 0}
  BY HistoryMoves, Zenon DEF Calm
<1>2. /\ \A n : Past(n)' <=> Past(n)
      /\ \A n : Pending(n)' => Pending(n) /\ conn' = conn
  BY Zenon DEF Calm, Past, Pending
<1>3. NumberInv'
  BY <1>1, <1>2, Zenon DEF Calm, TruthInv, NumberInv
<1>4. LinkReal'
  BY <1>1, Zenon DEF Calm, TruthInv, LinkReal, ConnectTruthful, KnownBSS
<1> QED
  BY <1>1, <1>2, <1>3, <1>4, Zenon

\* Steps that leave the bridge's locals alone, or end what it was doing.
LEMMA StaysTruth ==
    ASSUME TruthInv, RecordHistory, StaysStep \/ LeavesStep
    PROVE  TruthInv'
<1>1. /\ NumberInv' /\ LinkReal'
      /\ \A n : Past(n)' <=> Past(n)
      /\ \A n : Pending(n)' => Pending(n) /\ conn' = conn
      /\ history.visited \subseteq history'.visited
      /\ history'.answered \in {history.answered, 0}
  BY CalmTruth, Zenon DEF StaysStep, LeavesStep, locals
<1>2. connection_sequence' = connection_sequence /\ bss \subseteq bss'
  BY Zenon DEF StaysStep, LeavesStep, Calm
<1>3. CASE StaysStep
  <2>1. RequestServed'
    BY <1>1, <1>2, <1>3, Zenon DEF TruthInv, RequestServed, StaysStep, locals
  <2>2. FoundVerified' /\ FoundPublished'
    BY <1>1, <1>2, <1>3, Zenon
    DEF TruthInv, FoundVerified, FoundPublished, StaysStep, locals
  <2>3. RoamInv'
    BY <1>1, <1>2, <1>3, Zenon DEF TruthInv, RoamInv, StaysStep, locals
  <2> QED
    BY <1>1, <2>1, <2>2, <2>3, Zenon DEF TruthInv
<1>4. CASE LeavesStep
  BY <1>1, <1>4, Zenon
  DEF TruthInv, RequestServed, FoundVerified, FoundPublished, RoamInv, LeavesStep,
     Serving, Verified
<1> QED
  BY <1>3, <1>4, Zenon

\* Steps of handle_connection.
LEMMA ServesTruth ==
    ASSUME TypeOK, TruthInv, RecordHistory,
           ServesStep \/ TakesStep \/ VerifiesStep \/ SucceedsStep
    PROVE  TruthInv'
<1>1. /\ NumberInv' /\ LinkReal'
      /\ \A n : Past(n)' <=> Past(n)
      /\ \A n : Pending(n)' => Pending(n) /\ conn' = conn
      /\ history.visited \subseteq history'.visited
      /\ history'.answered \in {history.answered, 0}
  BY CalmTruth, Zenon DEF ServesStep, TakesStep, VerifiesStep, SucceedsStep, Serving
<1>2. connection_sequence' = connection_sequence /\ bss \subseteq bss'
  BY Zenon DEF ServesStep, TakesStep, VerifiesStep, SucceedsStep, Calm
<1>3. RoamInv'
  BY Zenon
  DEF ServesStep, TakesStep, VerifiesStep, SucceedsStep, RoamInv, Serving, Roaming
<1>4. CASE ServesStep
  <2>1. RequestServed'
    BY <1>1, <1>2, <1>4, Zenon DEF TruthInv, RequestServed, ServesStep
  <2>2. FoundVerified' /\ FoundPublished'
    BY <1>1, <1>4, Zenon DEF TruthInv, FoundVerified, FoundPublished, ServesStep
  <2> QED
    BY <1>1, <1>3, <2>1, <2>2, Zenon DEF TruthInv
<1>5. CASE TakesStep
  <2>1. /\ connection_sequence \in RequestNumbers /\ used.connections \in Nat
    BY DEF TypeOK, RequestNumbers, Usage
  <2>2. Past(connection_sequence) /\ Age(connection_sequence, connection_sequence) = 0
    BY <2>1, AgeNow DEF Past
  <2>3. conn.sequence = connection_sequence /\ conn.sequence # 0
    BY <1>5 DEF TruthInv, NumberInv, TakesStep, Idle, Connect, Disconnect
  <2>4. RequestServed'
    BY <1>1, <1>5, <2>2
    DEF TruthInv, NumberInv, RequestServed, TakesStep, Idle, Connect, Disconnect
  <2>5. FoundVerified' /\ FoundPublished'
    BY <1>5, Zenon DEF FoundVerified, FoundPublished, TakesStep, Verified
  <2> QED
    BY <1>1, <1>3, <2>4, <2>5, Zenon DEF TruthInv
<1>6. CASE VerifiesStep
  <2>1. RequestServed'
    BY <1>1, <1>2, <1>6, Zenon DEF TruthInv, RequestServed, VerifiesStep, Serving
  <2>2. FoundVerified' /\ FoundPublished'
    BY <1>6, HistoryMoves, Zenon DEF FoundVerified, FoundPublished, VerifiesStep
  <2> QED
    BY <1>1, <1>3, <2>1, <2>2, Zenon DEF TruthInv
<1>7. CASE SucceedsStep
  <2>1. RequestServed'
    BY <1>1, <1>2, <1>7, Zenon DEF TruthInv, RequestServed, SucceedsStep, Serving
  <2>2. bridge.pc = "disconnected" => bridge.request.operation # Connect
    BY DEF TruthInv, RequestServed, Serving, Connect, Disconnect
  <2>3. FoundVerified' /\ FoundPublished'
    BY <1>1, <1>7, <2>2, Zenon
    DEF TruthInv, FoundVerified, FoundPublished, SucceedsStep, Verified
  <2> QED
    BY <1>1, <1>3, <2>1, <2>3, Zenon DEF TruthInv
<1> QED
  BY <1>4, <1>5, <1>6, <1>7, Zenon

\* Steps of LinkFollower up to its report.
LEMMA RoamsTruth ==
    ASSUME TypeOK, TruthInv, RecordHistory, SnapshotStep \/ FollowsStep \/ RoamsStep
    PROVE  TruthInv'
<1>1. /\ NumberInv' /\ LinkReal'
      /\ \A n : Past(n)' <=> Past(n)
      /\ history.visited \subseteq history'.visited
  BY CalmTruth, Zenon DEF SnapshotStep, FollowsStep, RoamsStep, Roaming
<1>2. connection_sequence' = connection_sequence
  BY Zenon DEF SnapshotStep, FollowsStep, RoamsStep, Calm
<1>3. RequestServed' /\ FoundVerified' /\ FoundPublished'
  BY Zenon
  DEF SnapshotStep, FollowsStep, RoamsStep, RequestServed, FoundVerified, FoundPublished,
     Serving, Verified, Roaming
<1>4. RoamInv'
  <2>1. CASE SnapshotStep
    <3>1. Past(connection_sequence)
      BY AgeNow DEF Past, TypeOK, RequestNumbers, Usage
    <3> QED
      BY <1>1, <2>1, <3>1 DEF SnapshotStep, LH_GET_LINK, RoamInv, Roaming
  <2>2. CASE FollowsStep
    BY <1>1, <2>2, HistoryMoves, Zenon DEF TruthInv, FollowsStep, RoamInv
  <2>3. CASE RoamsStep
    BY <1>1, <1>2, <2>3, Zenon DEF TruthInv, RoamsStep, RoamInv
  <2> QED
    BY <2>1, <2>2, <2>3, Zenon
<1> QED
  BY <1>1, <1>3, <1>4, Zenon DEF TruthInv

\* An association a request allows, as the driver is told of it.
LEMMA FoundAddress ==
    ASSUME NEW s, NEW a \in Network(s)
    PROVE  /\ a # NoAssociation /\ a.bssid \in BSSID
           /\ a = [ssid |-> s, bssid |-> a.bssid]
<1>1. PICK record \in Nearby : a = Association(record) /\ a.ssid = s
  BY Zenon DEF Network, Associations
<1>2. record.ssid \in SSID /\ record.bssid \in BSSID
  BY BridgeAssumption, Zenon DEF Records
<1> QED
  BY <1>1, <1>2, BridgeAssumption DEF Association

\* A result: the kernel accepts that of the pending request and of no other.
LEMMA ResultTruth ==
    ASSUME TypeOK, TruthInv, RecordHistory, ResultStep
    PROVE  TruthInv'
<1>0. PICK number : number = bridge.request.sequence
  OBVIOUS
<1>1. /\ history'.answered = number
      /\ history.visited \subseteq history'.visited
  BY <1>0, HistoryMoves, Zenon DEF ResultStep
<1>2. connection_sequence \in RequestNumbers /\ connection_sequence' = connection_sequence
  BY Zenon DEF TypeOK, RequestNumbers, ResultStep
<1>3. /\ Past(number) /\ number # 0
      /\ Pending(number) => conn = bridge.request
  BY <1>0, Zenon DEF TruthInv, RequestServed, ResultStep, Serving
<1>4. RequestServed' /\ FoundVerified' /\ FoundPublished' /\ RoamInv'
  BY Zenon
  DEF ResultStep, RequestServed, FoundVerified, FoundPublished, RoamInv, Serving,
     Verified, Roaming
<1>5. Past(number)' /\ Age(connection_sequence, number) \in Nat
  BY <1>2, <1>3, AgeNow, Zenon DEF Past, ResultStep
<1>6. /\ ResultStatus = Success => bridge.pc = "succeed"
      /\ ResultStatus # Success => ResultStatus = Failure
  BY DEF ResultStatus, ResultStep, At, Success, Failure
<1>7. ASSUME Pending(number), conn.operation = Connect, ResultStatus = Success
      PROVE  /\ bridge.found = [ssid |-> conn.ssid, bssid |-> ResultAddress]
             /\ ResultAddress \in BSSID
             /\ conn.bssid # NoAP => ResultAddress = conn.bssid
             /\ bridge.found \in history.visited
             /\ \E record \in bss : /\ Association(record) = bridge.found
                                    /\ CompatibleSecurity(record.security, conn.psk)
  <2>1. /\ bridge.pc = "succeed" /\ conn = bridge.request
        /\ bridge.request.operation = Connect
    BY <1>3, <1>6, <1>7, Zenon
  <2>2. /\ bridge.found \in Network(bridge.request.ssid)
        /\ bridge.request.bssid # NoAP => bridge.found.bssid = bridge.request.bssid
        /\ bridge.found \in history.visited
    BY <1>0, <1>7, <2>1, Zenon DEF TruthInv, FoundVerified, Verified
  <2>3. \E record \in bss : /\ Association(record) = bridge.found
                            /\ CompatibleSecurity(record.security, bridge.request.psk)
    BY <2>1, Zenon DEF TruthInv, FoundPublished
  <2>4. ResultAddress = bridge.found.bssid
    BY <2>2, FoundAddress, Zenon DEF ResultAddress
  <2> QED
    BY <2>1, <2>2, <2>3, <2>4, FoundAddress, Zenon
<1>8. CASE /\ ConnectionResultAccepted(number, ResultStatus, ResultAddress)
           /\ conn'.operation = Idle
           /\ link' = FinishedLink(ResultStatus, ResultAddress)
  <2>1. Pending(number)
    BY <1>2, <1>8, AgeNow, Zenon
    DEF ConnectionResultAccepted, TruthInv, NumberInv, Pending
  <2>2. NumberInv'
    BY <1>1, <1>5, <1>8, Zenon DEF NumberInv
  <2>3. ASSUME link'.connected PROVE ConnectTruthful' /\ KnownBSS'
    <3>1. conn.operation = Connect /\ ResultStatus = Success
      BY <1>8, <2>3, Zenon DEF FinishedLink, NoLink
    <3>2. /\ link'.ssid = conn.ssid /\ link'.bssid = ResultAddress
          /\ link'.privacy = conn.psk
      BY <1>8, <3>1, Zenon DEF FinishedLink
    <3>3. ConnectTruthful'
      BY <1>1, <1>7, <2>1, <3>1, <3>2, Zenon DEF ConnectTruthful
    <3>4. PICK record \in bss : /\ Association(record) = bridge.found
                                /\ CompatibleSecurity(record.security, conn.psk)
      BY <1>7, <2>1, <3>1, Zenon
    <3>5. record.ssid = conn.ssid /\ record.bssid = ResultAddress
      BY <1>7, <2>1, <3>1, <3>4 DEF Association
    <3>6. bss' = bss
      BY Zenon DEF ResultStep
    <3> QED
      BY <3>2, <3>3, <3>4, <3>5, <3>6, Zenon DEF KnownBSS
  <2>4. LinkReal'
    BY <2>3, Zenon DEF LinkReal, ConnectTruthful, KnownBSS
  <2> QED
    BY <1>4, <2>2, <2>4, Zenon DEF TruthInv
<1>9. CASE /\ ~ConnectionResultAccepted(number, ResultStatus, ResultAddress)
           /\ UNCHANGED <<conn, link>>
  <2>1. ~Pending(number)
    <3>1. SUFFICES ASSUME Pending(number) PROVE FALSE
      OBVIOUS
    <3>2. conn = bridge.request /\ conn.operation # Idle
      BY <1>3, <3>1, Zenon DEF Pending
    <3> QED
      BY <1>0, <1>7, <1>9, <3>1, <3>2, Zenon DEF ConnectionResultAccepted
  <2>2. NumberInv'
    BY <1>1, <1>2, <1>5, <1>9, <2>1 DEF NumberInv, Pending, TruthInv
  <2>3. LinkReal'
    BY <1>1, <1>9, Zenon DEF TruthInv, LinkReal, ConnectTruthful, KnownBSS, ResultStep
  <2> QED
    BY <1>4, <2>2, <2>3, Zenon DEF TruthInv
<1> QED
  BY <1>0, <1>8, <1>9, Zenon DEF ResultStep

\* A roam: the Mac has been on the access point the link moves to.
LEMMA ReportTruth ==
    ASSUME TypeOK, TruthInv, RecordHistory, ReportStep
    PROVE  TruthInv'
<1>1. connection_sequence' = connection_sequence /\ connection_sequence \in RequestNumbers
  BY Zenon DEF TypeOK, RequestNumbers, ReportStep
<1>2. /\ history.visited \subseteq history'.visited
      /\ history'.answered \in {history.answered, 0}
  BY HistoryMoves, Zenon DEF ReportStep
<1>3. bridge.found \in history.visited
  BY <1>1, AgeNow, Zenon DEF TruthInv, RoamInv, Roaming, ReportStep
<1>4. NumberInv'
  BY <1>2, Zenon DEF TruthInv, NumberInv, Past, ReportStep
<1>5. RequestServed' /\ FoundVerified' /\ FoundPublished' /\ RoamInv'
  BY Zenon
  DEF ReportStep, RequestServed, FoundVerified, FoundPublished, RoamInv, Serving,
     Verified, Roaming
<1>6. LinkReal'
  <2>1. PICK record \in bss' :
           /\ Association(record) = bridge.found
           /\ record.ssid = link.ssid
           /\ CompatibleSecurity(record.security, link.privacy)
           /\ link' = [link EXCEPT !.bssid = record.bssid]
    BY Zenon DEF ReportStep
  <2>2. /\ link'.ssid = record.ssid /\ link'.bssid = record.bssid
        /\ link'.privacy = link.privacy
    BY <2>1, Zenon DEF TypeOK, Links
  <2>3. [ssid |-> link'.ssid, bssid |-> link'.bssid] = bridge.found
    BY <2>1 DEF Association
  <2> QED
    BY <1>2, <1>3, <2>1, <2>3 DEF LinkReal, ConnectTruthful, KnownBSS
<1> QED
  BY <1>4, <1>5, <1>6, Zenon DEF TruthInv

\* What the bridge's assignments do to the locals.
LEMMA LocalsSet ==
    ASSUME bridge \in Locals
    PROVE  /\ \A pc : Goto(pc) =>
                 /\ bridge'.pc = pc /\ bridge'.request = bridge.request
                 /\ bridge'.found = bridge.found /\ bridge'.link = bridge.link
           /\ \A pc : Scanned(pc) =>
                 /\ bridge'.pc = pc /\ bridge'.request = bridge.request
                 /\ bridge'.found = bridge.found /\ bridge'.link = bridge.link
           /\ Continue => bridge'.pc = "top"
           /\ UNCHANGED bridge => UNCHANGED locals
<1>1. ASSUME NEW pc, Goto(pc)
      PROVE  /\ bridge'.pc = pc /\ bridge'.request = bridge.request
             /\ bridge'.found = bridge.found /\ bridge'.link = bridge.link
  BY <1>1, Zenon DEF Goto, Locals
<1>2. ASSUME NEW pc, Scanned(pc)
      PROVE  /\ bridge'.pc = pc /\ bridge'.request = bridge.request
             /\ bridge'.found = bridge.found /\ bridge'.link = bridge.link
  BY <1>2, Zenon DEF Scanned, Locals
<1>3. UNCHANGED bridge => UNCHANGED locals
  BY Zenon DEF locals
<1> QED
  BY <1>1, <1>2, <1>3, LocalsMove, Zenon

\* What cfg80211, the timers and the kernel do by themselves.
LEMMA GuestKinds ==
    ASSUME TypeOK, GuestStep
    PROVE  BeginsStep \/ StaysStep
<1>1. bridge' = bridge /\ bss' = bss /\ UNCHANGED locals
  BY Zenon DEF GuestStep, locals
<1>2. CASE \E q \in GuestRequests : connect_network(q.ssid, q.bssid, q.psk)
  <2>1. used'.connections = used.connections + 1
    BY <1>2, Zenon DEF connect_network, begin_connection, TypeOK, Usage
  <2> QED
    BY <1>1, <1>2 DEF connect_network, begin_connection, BeginsStep, Connect, Disconnect
<1>3. CASE disconnect_network
  <2>1. used'.connections = used.connections + 1
    BY <1>3, Zenon DEF disconnect_network, begin_connection, TypeOK, Usage
  <2>2. link' = link \/ ~link'.connected
    BY <1>3 DEF disconnect_network, FinishedLink, Success, Failure, NoLink, linkVars
  <2> QED
    BY <1>1, <1>3, <2>2
    DEF disconnect_network, begin_connection, BeginsStep, Connect, Disconnect
<1>4. CASE start_scan
  <2>1. used'.connections = used.connections
    BY <1>4, Zenon DEF start_scan, TypeOK, Usage
  <2> QED
    BY <1>1, <1>4 DEF start_scan, linkVars, StaysStep, Calm
<1>5. CASE OpenDevice \/ abort_scan \/ CancelWork \/ SignalAges \/ Tick \/ DecideCarrier
           \/ SetCarrier \/ FireConnectionTimer \/ FireScanTimer \/ scan_timeout
  BY <1>1, <1>5, Zenon
  DEF OpenDevice, abort_scan, finish_scan, CancelWork, SignalAges, Tick, DecideCarrier,
     SetCarrier, FireConnectionTimer, FireScanTimer, scan_timeout, linkVars, deviceVars,
     StaysStep, Calm
<1>6. CASE stop_device
  <2>1. conn'.operation = Idle /\ ~link'.connected
    BY <1>6 DEF stop_device, NoConnection, FinishedLink, Success, Failure, NoLink, TypeOK, Links
  <2> QED
    BY <1>1, <1>6, <2>1, Zenon DEF stop_device, StaysStep, Calm
<1>7. CASE connection_timeout
  <2>1. conn' = conn \/ conn'.operation = Idle
    BY <1>7 DEF connection_timeout, finish_connection, NoConnection
  <2>2. link' = link \/ ~link'.connected
    BY <1>7 DEF connection_timeout, finish_connection, FinishedLink, Success, Failure, NoLink
  <2> QED
    BY <1>1, <1>7, <2>1, <2>2, Zenon DEF connection_timeout, StaysStep, Calm
<1> QED
  BY <1>2, <1>3, <1>4, <1>5, <1>6, <1>7, Zenon DEF GuestStep, Kernel

\* Every step is of one of the kinds.
LEMMA BridgeKinds ==
    ASSUME TypeOK, BridgeTypeOK, BridgeNext
    PROVE  \/ BeginsStep \/ StaysStep \/ LeavesStep \/ ServesStep \/ TakesStep
           \/ VerifiesStep \/ SucceedsStep \/ ResultStep \/ SnapshotStep
           \/ FollowsStep \/ RoamsStep \/ ReportStep
<1>1. bridge \in Locals
  BY Zenon DEF BridgeTypeOK
<1>2. \A pc : Goto(pc) \/ Scanned(pc) =>
         /\ bridge'.pc = pc /\ bridge'.request = bridge.request
         /\ bridge'.found = bridge.found /\ bridge'.link = bridge.link
  BY <1>1, LocalsSet, Zenon
<1>3. /\ Continue => bridge'.pc = "top"
      /\ UNCHANGED bridge => UNCHANGED locals
  BY <1>1, LocalsSet, Zenon
<1>4. UNCHANGED driverVars /\ UNCHANGED bss => Calm
  BY Zenon DEF driverVars, Calm
<1>5. CASE GuestStep
  BY <1>5, GuestKinds, Zenon
<1>6. CASE ExecuteLate \/ MacMoves
  BY <1>3, <1>4, <1>6, Zenon DEF ExecuteLate, MacMoves, StaysStep
<1>7. CASE ConfirmationDelay
  <2>1. UNCHANGED locals
    BY <1>7 DEF ConfirmationDelay, Locals, locals
  <2> QED
    BY <1>4, <1>7, <2>1, Zenon DEF ConfirmationDelay, StaysStep
<1>8. CASE Start
  BY <1>2, <1>8 DEF Start, bridge_open, deviceVars, linkVars, Calm, LeavesStep, At, Serving,
     Roaming
<1>9. CASE Crash
  <2>1. bridge'.pc = "down"
    BY <1>9, Zenon DEF Crash, Fresh
  <2> QED
    BY <1>9
    DEF Crash, bridge_release, deviceVars, linkVars, Calm, LeavesStep, Serving, Roaming
<1>10. CASE GetConnection
  <2>1. /\ bridge'.request = conn
        /\ bridge'.pc = CASE conn.operation = Connect -> "scan"
                          [] conn.operation = Disconnect -> "disconnect"
                          [] OTHER -> "get_scan"
    BY <1>1, <1>10, Zenon DEF GetConnection, Locals
  <2>2. Calm /\ conn' = conn /\ bridge.pc = "top"
    BY <1>10, Zenon DEF GetConnection, LH_GET_CONNECTION, deviceVars, linkVars, Calm, At
  <2>3. CASE conn.operation = Connect \/ conn.operation = Disconnect
    BY <2>1, <2>2, <2>3, Zenon DEF TakesStep, Connect, Disconnect
  <2>4. CASE ~(conn.operation = Connect \/ conn.operation = Disconnect)
    BY <2>1, <2>2, <2>4, Zenon DEF LeavesStep, Serving, Roaming
  <2> QED
    BY <2>3, <2>4, Zenon
<1>11. CASE Result
  <2>1. bridge'.pc = "top" /\ bss' = bss /\ bridge.pc \in {"succeed", "fail"}
    BY <1>3, <1>11, Zenon DEF Result, At
  <2>2. CASE LH_CONNECTION_RESULT(Bridge, bridge.request.sequence, ResultStatus, ResultAddress)
    BY <2>1, <2>2 DEF LH_CONNECTION_RESULT, finish_connection, ConnectionResultAccepted,
       NoConnection, ResultStep
  <2>3. CASE /\ ~ConnectionResultAccepted(bridge.request.sequence, ResultStatus, ResultAddress)
             /\ Refused
    BY <2>1, <2>3, Zenon DEF Refused, driverVars, ResultStep
  <2> QED
    BY <1>11, <2>2, <2>3, Zenon DEF Result
<1>12. CASE GetScan
  <2>1. bridge'.pc \in {"scanning", "idle"}
    BY <1>12 DEF GetScan, Locals
  <2> QED
    BY <1>12
    DEF GetScan, LH_GET_SCAN, deviceVars, linkVars, Calm, At, LeavesStep, Serving, Roaming
<1>13. CASE Scanning
  BY <1>2, <1>4, <1>13 DEF Scanning, At, LeavesStep, Serving, Roaming
<1>14. CASE WriteRecord
  <2>1. Calm /\ bridge.pc = "write"
    BY <1>14, Zenon DEF WriteRecord, Refused, driverVars, Calm, At
  <2>2. bridge'.pc \in {"write", "finish"}
    <3>1. \A record : bridge' = [bridge EXCEPT !.records = @ \ {record}] => bridge'.pc = bridge.pc
      BY DEF Locals
    <3> QED
      BY <1>2, <1>14, <2>1, <3>1, Zenon DEF WriteRecord
  <2> QED
    BY <2>1, <2>2, Zenon DEF LeavesStep, Serving, Roaming
<1>15. CASE FinishScan
  BY <1>3, <1>15, Zenon
  DEF FinishScan, LH_FINISH_SCAN, finish_scan, Refused, driverVars, deviceVars, linkVars,
     Calm, At, LeavesStep, Serving, Roaming
<1>16. CASE FollowTurn \/ WaitTurn
  BY <1>2, <1>4, <1>16 DEF FollowTurn, WaitTurn, At, LeavesStep, Serving, Roaming
<1>17. CASE Wait
  <2>1. Calm /\ bridge.pc = "wait"
    BY <1>17, Zenon
    DEF Wait, PollRegister, PollWake, bridge_poll, PollTimeout, deviceVars, linkVars,
       Calm, At
  <2>2. Continue \/ UNCHANGED bridge
    BY <1>17, Zenon DEF Wait
  <2> QED
    BY <1>3, <2>1, <2>2, Zenon DEF LeavesStep, StaysStep, Serving, Roaming
<1>18. CASE DisconnectMac
  BY <1>2, <1>4, <1>18, Zenon DEF DisconnectMac, At, ServesStep, Serving, Verified
<1>19. CASE ConfirmDisconnected
  BY <1>2, <1>4, <1>19 DEF ConfirmDisconnected, At, ServesStep, SucceedsStep, Serving, Verified
<1>20. CASE ScanForTarget
  <2>1. Calm /\ bridge.pc = "scan"
    BY <1>4, <1>20, Zenon DEF ScanForTarget, At
  <2>2. bridge'.pc \in {"connect", "fail"} /\ bridge'.request = bridge.request
    <3>1. \A found, pc : bridge' = [bridge EXCEPT !.records = found, !.pc = pc] =>
             bridge'.pc = pc /\ bridge'.request = bridge.request
      BY DEF Locals
    <3> QED
      BY <1>2, <1>20, <3>1, Zenon DEF ScanForTarget
  <2> QED
    BY <2>1, <2>2, Zenon DEF ServesStep, Serving, Verified
<1>21. CASE ConnectMac
  BY <1>2, <1>4, <1>21 DEF ConnectMac, At, ServesStep, Serving, Verified
<1>22. CASE VerifyAssociation
  <2>1. Calm /\ bridge.pc = "status"
    BY <1>4, <1>22, Zenon DEF VerifyAssociation, At
  <2>2. CASE CallFails /\ Goto("fail")
    BY <1>2, <2>1, <2>2 DEF ServesStep, Serving, Verified
  <2>3. CASE ~(CallFails /\ Goto("fail"))
    <3> DEFINE pc == IF ~Requested(mac.in) THEN "fail"
                     ELSE IF HasRecord(bridge.records, mac.in) THEN "publish"
                     ELSE "rescan"
    <3>1. Read /\ bridge' = [bridge EXCEPT !.found = mac.in, !.pc = pc]
      BY <1>22, <2>3, Zenon DEF VerifyAssociation
    <3>2. pc \in {"fail", "publish", "rescan"} /\ (~Requested(mac.in) <=> pc = "fail")
      OBVIOUS
    <3> HIDE DEF pc
    <3>3. /\ bridge'.found = mac.in /\ bridge'.pc = pc /\ bridge'.request = bridge.request
          /\ mac' = mac
      BY <3>1 DEF Locals, Read
    <3>4. CASE ~Requested(mac.in)
      BY <2>1, <3>2, <3>3, <3>4, Zenon DEF ServesStep, Serving, Verified
    <3>5. CASE Requested(mac.in)
      BY <2>1, <3>2, <3>3, <3>5, Zenon DEF VerifiesStep, Requested
    <3> QED
      BY <3>4, <3>5, Zenon
  <2> QED
    BY <2>2, <2>3, Zenon
<1>23. CASE Rescan
  BY <1>2, <1>4, <1>23 DEF Rescan, At, ServesStep, Serving, Verified
<1>24. CASE RecheckIdentity
  BY <1>2, <1>4, <1>24 DEF RecheckIdentity, At, ServesStep, Serving, Verified
<1>25. CASE PublishAssociation
  <2>1. Calm /\ bridge.pc = "publish"
    BY <1>25, Zenon DEF PublishAssociation, Refused, driverVars, Calm, At
  <2>2. CASE Goto("fail")
    BY <1>2, <2>1, <2>2 DEF ServesStep, Serving, Verified
  <2>3. CASE Goto("succeed")
    <3>1. PICK record \in Matching(bridge.found, bridge.request.psk) : bss' = bss \cup {record}
      BY <1>2, <1>25, <2>3 DEF PublishAssociation
    <3>2. /\ Association(record) = bridge.found
          /\ CompatibleSecurity(record.security, bridge.request.psk)
      BY Zenon DEF Matching
    <3> QED
      BY <1>2, <2>1, <2>3, <3>1, <3>2, Zenon DEF SucceedsStep
  <2> QED
    BY <1>25, <2>2, <2>3, Zenon DEF PublishAssociation
<1>26. CASE Snapshot
  <2>1. Calm /\ bridge.pc = "snapshot"
    BY <1>26, Zenon DEF Snapshot, Refused, driverVars, Calm, At
  <2>2. bridge'.pc \in {"follow", "wait"} /\ bridge'.link = LH_GET_LINK
    BY <1>26 DEF Snapshot, Locals
  <2>3. link' = link
    BY <1>26, Zenon DEF Snapshot, Refused, driverVars
  <2> QED
    BY <2>1, <2>2, <2>3, Zenon DEF SnapshotStep, LeavesStep, Serving, Roaming
<1>27. CASE Follow
  <2>1. Calm /\ bridge.pc = "follow"
    BY <1>4, <1>27, Zenon DEF Follow, At
  <2>2. Missing.pc \in {"wait", "report_down"}
    BY DEF Missing, Locals
  <2>3. /\ Present.pc \in {"report_down", "signal", "roam_scan"}
        /\ Present.found = mac.in /\ Present.link = bridge.link
    BY DEF Present, Locals
  <2>4. Present.pc = "report_down" =>
          \/ mac.in.ssid # bridge.link.ssid
          \/ bridge.link.pinned /\ mac.in.bssid # bridge.link.bssid
    BY DEF Present, Locals
  <2>5. \/ bridge'.pc \in {"wait", "report_down", "signal"}
        \/ /\ bridge'.pc = "roam_scan" /\ mac' = mac
           /\ bridge'.found = mac.in /\ bridge'.link = bridge.link
    BY <1>2, <1>27, <2>2, <2>3, Zenon DEF Follow, Read
  <2>6. bridge'.pc = "report_down" => Lost
    BY <1>2, <1>27, <2>4 DEF Follow, Read, Lost
  <2> QED
    BY <2>1, <2>5, <2>6, Zenon DEF LeavesStep, FollowsStep, Serving, Roaming
<1>28. CASE ReportDown
  <2>1. bridge'.pc \in {"signal", "wait"} /\ bridge.pc = "report_down"
    BY <1>2, <1>28, Zenon DEF ReportDown, At
  <2>2. Calm
    BY <1>28 DEF ReportDown, report_link_down, Refused, driverVars, deviceVars, NoLink, Calm
  <2> QED
    BY <2>1, <2>2, Zenon DEF LeavesStep, Serving, Roaming
<1>29. CASE RoamScan
  BY <1>2, <1>4, <1>29, Zenon DEF RoamScan, At, RoamsStep, LeavesStep, Serving, Roaming
<1>30. CASE RoamRecheck
  <2>1. bridge.pc = "roam_record" /\ Calm
    BY <1>4, <1>30, Zenon DEF RoamRecheck, At
  <2>2. Goto("report_roam") \/ Goto("signal") \/ Goto("wait")
    BY <1>30, Zenon DEF RoamRecheck
  <2> QED
    BY <1>2, <2>1, <2>2, Zenon DEF RoamsStep, LeavesStep, Serving, Roaming
<1>31. CASE ReportRoam
  <2>1. bridge.pc = "report_roam"
    BY <1>31, Zenon DEF ReportRoam, At
  <2>2. CASE Refused /\ Goto("wait") /\ UNCHANGED bss
    BY <1>2, <1>4, <2>1, <2>2 DEF Refused, LeavesStep, Serving, Roaming
  <2>3. ASSUME NEW record \in Matching(bridge.found, bridge.link.privacy),
               report_link_roam(Bridge, bridge.link.sequence, record),
               bss' = bss \cup {record}, Goto("signal")
        PROVE  ReportStep
    <3>1. Association(record) = bridge.found
      BY Zenon DEF Matching
    <3>2. /\ bridge.link.sequence = connection_sequence
          /\ record.ssid = link.ssid /\ CompatibleSecurity(record.security, link.privacy)
          /\ link' = [link EXCEPT !.bssid = record.bssid]
          /\ UNCHANGED <<conn, connection_sequence, used>>
      BY <2>3 DEF report_link_roam, ReportCurrent, RecordMatches, deviceVars
    <3> QED
      BY <1>2, <2>1, <2>3, <3>1, <3>2, Zenon DEF ReportStep
  <2> QED
    BY <1>31, <2>2, <2>3, Zenon DEF ReportRoam
<1>32. CASE Signal
  BY <1>2, <1>32 DEF Signal, LH_SIGNAL, Refused, driverVars, deviceVars, Calm, At, LeavesStep,
     Serving, Roaming
<1> QED
  BY <1>5, <1>6, <1>7, <1>8, <1>9, <1>10, <1>11, <1>12, <1>13, <1>14, <1>15, <1>16,
     <1>17, <1>18, <1>19, <1>20, <1>21, <1>22, <1>23, <1>24, <1>25, <1>26, <1>27,
     <1>28, <1>29, <1>30, <1>31, <1>32, Zenon
     DEF BridgeNext, BridgeStep, ServeStep, ConnectionStep, FollowStep

\* As long as request numbers do not come round, the invariant always holds.
LEMMA TruthInvariant == NumbersLast => (BridgeSpec => []TruthInv)
<1> SUFFICES ASSUME NumbersLast PROVE BridgeSpec => []TruthInv
  OBVIOUS
<1>1. BridgeInit => TruthInv
  <2> SUFFICES ASSUME BridgeInit PROVE TruthInv
    OBVIOUS
  <2>1. /\ bridge.pc = "down" /\ conn.operation = Idle /\ ~link.connected
        /\ history.answered = 0
    BY Zenon DEF BridgeInit, BridgeDown, Fresh, Init, NoConnection, NoLink
  <2> QED
    BY <2>1, Zenon
    DEF TruthInv, NumberInv, RequestServed, FoundVerified, FoundPublished, RoamInv,
       LinkReal, ConnectTruthful, KnownBSS, Serving, Verified, Roaming
<1>2. TypeOK /\ BridgeTypeOK /\ TruthInv /\ [BridgeNext]_bridgeVars => TruthInv'
  <2> SUFFICES ASSUME TypeOK, BridgeTypeOK, TruthInv, [BridgeNext]_bridgeVars PROVE TruthInv'
    OBVIOUS
  <2>1. CASE BridgeNext
    BY <2>1, BridgeKinds, BeginsTruth, StaysTruth, ServesTruth, RoamsTruth, ResultTruth,
       ReportTruth, Zenon
    DEF BridgeNext
  <2>2. CASE UNCHANGED bridgeVars
    <3>1. UNCHANGED <<conn, connection_sequence, used, link, bridge, bss, history>>
      BY <2>2, Zenon DEF bridgeVars, coreVars, driverVars
    <3>2. (\A n : Past(n)' <=> Past(n)) /\ (\A n : Pending(n)' <=> Pending(n))
      BY <3>1, Zenon DEF Past, Pending
    <3>3. NumberInv' /\ RequestServed'
      BY <3>1, <3>2, Zenon DEF TruthInv, NumberInv, RequestServed
    <3>4. FoundVerified' /\ FoundPublished' /\ RoamInv'
      BY <3>1, <3>2, Zenon DEF TruthInv, FoundVerified, FoundPublished, RoamInv
    <3>5. LinkReal'
      BY <3>1, Zenon DEF TruthInv, LinkReal, ConnectTruthful, KnownBSS
    <3> QED
      BY <3>3, <3>4, <3>5, Zenon DEF TruthInv
  <2> QED
    BY <2>1, <2>2, Zenon
<1> QED
  BY <1>1, <1>2, BridgeTyped, PTL DEF BridgeSpec

\* handle_connection and LinkFollower: the link cfg80211 is shown is one the Mac
\* has been on since the guest asked for it, on an access point cfg80211 knows,
\* however calls fail or run late, the Mac roams and the bridge dies.
THEOREM LinkStaysReal == NumbersLast => (BridgeSpec => []LinkReal)
<1>1. TruthInv => LinkReal
  BY Zenon DEF TruthInv
<1> QED
  BY <1>1, TruthInvariant, PTL

\* serve: one process performs no request of the kernel twice, whichever of its
\* answers the kernel accepts.
THEOREM RequestsHandledOnce == NumbersLast => (BridgeSpec => []HandledOnce)
<1>1. TypeOK /\ TruthInv => HandledOnce
  <2> SUFFICES ASSUME TypeOK, TruthInv, bridge.pc \in Serving
               PROVE  bridge.request.sequence # history.answered
    BY Zenon DEF HandledOnce, Serving
  <2>1. /\ bridge.request.sequence # 0 /\ bridge.request.sequence \in RequestNumbers
        /\ history.answered # 0 =>
             Age(connection_sequence, history.answered)
               > Age(connection_sequence, bridge.request.sequence)
    BY Zenon DEF TruthInv, RequestServed, Past
  <2>2. Age(connection_sequence, bridge.request.sequence) \in Nat
    BY <2>1, AgeNow, Zenon DEF TypeOK, RequestNumbers
  <2> QED
    BY <2>1, <2>2
<1> QED
  BY <1>1, BridgeTyped, TruthInvariant, PTL

-----------------------------------------------------------------------------
(* The end of the link                                                     *)

\* While the follower looks at it the guest's link is that of its snapshot or
\* over; and when the follower is about to take it down, the Mac has been off it.
LossInv ==
    link.connected =>
      /\ bridge.pc = "follow" =>
           /\ link.ssid = bridge.link.ssid /\ link.bssid = bridge.link.bssid
           /\ link.pinned = bridge.link.pinned
      /\ bridge.pc = "report_down" => history.left

\* What the history records of the link's loss.
LEMMA LossRecorded ==
    ASSUME RecordHistory, link'.connected
    PROVE  /\ link.connected /\ history.left => history'.left
           /\ ~OnContract' => history'.left
  BY Zenon DEF RecordHistory

\* Only LinkFollower's own steps matter to it.
LEMMA LossStep ==
    ASSUME TypeOK, BridgeTypeOK, LossInv, BridgeNext
    PROVE  LossInv'
<1> SUFFICES ASSUME link'.connected, bridge'.pc \in {"follow", "report_down"}
             PROVE  LossInv'
  BY Zenon DEF LossInv
<1>h. RecordHistory
  BY Zenon DEF BridgeNext
<1>1. CASE StaysStep \/ BeginsStep
  <2>1. link' = link /\ bridge'.pc = bridge.pc /\ bridge'.link = bridge.link
    BY <1>1, Zenon DEF StaysStep, Calm, BeginsStep, locals
  <2>2. history.left => history'.left
    BY <1>h, <2>1, LossRecorded, Zenon
  <2> QED
    BY <2>1, <2>2, Zenon DEF LossInv
<1>2. CASE LeavesStep
  <2>1. bridge'.pc = "report_down" /\ bridge.pc = "follow" /\ Lost /\ link' = link
    BY <1>2, Zenon DEF LeavesStep, Calm
  <2>2. ~OnContract'
    BY <2>1, Zenon DEF LossInv, Lost, OnContract
  <2>3. history'.left
    BY <1>h, <2>2, LossRecorded, Zenon
  <2> QED
    BY <2>1, <2>3, Zenon DEF LossInv
<1>3. CASE SnapshotStep
  BY <1>3 DEF SnapshotStep, LH_GET_LINK, LossInv
<1> QED
  BY <1>1, <1>2, <1>3, BridgeKinds, Zenon
  DEF BridgeNext, ServesStep, TakesStep, VerifiesStep, SucceedsStep, ResultStep,
     FollowsStep, RoamsStep, ReportStep, Serving, Roaming

\* LinkFollower takes the guest's link down only if the Mac has been off that
\* very link since it began, whatever was asked, cancelled or replaced meanwhile.
THEOREM LossesAreReal == BridgeSpec => NoFalseLoss
<1>1. BridgeInit => LossInv
  BY DEF BridgeInit, Init, NoLink, LossInv
<1>2. TypeOK /\ BridgeTypeOK /\ LossInv /\ [BridgeNext]_bridgeVars => LossInv'
  <2>1. LossInv /\ UNCHANGED bridgeVars => LossInv'
    BY Zenon DEF bridgeVars, coreVars, driverVars, LossInv
  <2> QED
    BY <2>1, LossStep, Zenon
<1>3. LossInv =>
        (At("report_down") /\ link.connected /\ ~link'.connected => history.left)
  BY Zenon DEF LossInv, At
<1> QED
  BY <1>1, <1>2, <1>3, BridgeTyped, PTL DEF BridgeSpec, NoFalseLoss
=============================================================================
