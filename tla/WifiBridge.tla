----------------------------- MODULE WifiBridge -----------------------------
(***************************************************************************)
(* The root Wi-Fi bridge, src/guest/devices/wifi_bridge.py with the link   *)
(* follower of wifi_link.py, composed with the cfg80211 driver it serves   *)
(* (LinuxhostWifi) and with the Mac it drives through request/reply calls  *)
(* (src/host/devices/WiFiBackend.swift behind WiFiService.swift).          *)
(*                                                                         *)
(* The bridge is one thread: it reads the pending kernel request, performs *)
(* it on the Mac in several calls, checks what the Mac then reports, tells *)
(* the kernel, and otherwise follows the Mac's association.  Every call to *)
(* the Mac may fail; a call that timed out may still be executed later.    *)
(* Between any two steps the kernel may time the request out, replace it   *)
(* or close the interface, the Mac may roam or leave, and the bridge may   *)
(* die and be started again.                                               *)
(***************************************************************************)
EXTENDS LinuxhostWifi, Sequences

CONSTANTS
    Bridge,         \* the reader that is the bridge's open file
    Nearby,         \* the access points' scan records
    GuestRequests,  \* the connect parameters cfg80211 may pass
    NoAssociation,  \* the Mac is in no network
    MaxMacMoves,    \* bound: roams, losses and joins of the Mac's own
    MaxFailures,    \* bound: failed calls
    MaxCrashes      \* bound: deaths of the bridge

ASSUME BridgeAssumption ==
    /\ Bridge \in Reader
    /\ Nearby \subseteq Records
    /\ NoAssociation \notin [ssid : SSID, bssid : BSSID]
    /\ GuestRequests \subseteq
         [ssid : SSID, bssid : BSSID \cup {NoAP}, psk : BOOLEAN]
    /\ {MaxMacMoves, MaxFailures, MaxCrashes} \subseteq Nat

VARIABLES
    bridge,     \* the bridge's program counter and locals
    mac,        \* the Mac's association and the calls it has yet to execute
    bss,        \* the records cfg80211 has been informed of
    history     \* what has happened, for the properties only

coreVars == <<driverVars, bridge, mac, bss>>
bridgeVars == <<coreVars, overlap, history>>

-----------------------------------------------------------------------------
(* The Mac                                                                 *)

Association(record) == [ssid |-> record.ssid, bssid |-> record.bssid]
Associations == {Association(record) : record \in Nearby}
Network(ssid) == {a \in Associations : a.ssid = ssid}

MacInit ==
    mac = [in |-> NoAssociation, late |-> <<>>, moves |-> 0, failures |-> 0]

\* WiFiService performs one call at a time on a serial queue: a reply means
\* that every earlier call, also one its caller gave up on, has been executed.
Replies == mac.late = <<>>

Read == Replies /\ UNCHANGED mac

\* The call fails before it changes anything.
CallFails ==
    /\ mac.failures < MaxFailures
    /\ mac' = [mac EXCEPT !.failures = @ + 1]

\* The mutation the bridge is waiting for, if any.
Mutation ==
    CASE bridge.pc = "connect" ->
           {[action |-> "wifi-connect", ssid |-> bridge.request.ssid]}
      [] bridge.pc = "disconnect" ->
           {[action |-> "wifi-disconnect", ssid |-> NoSSID]}
      [] OTHER -> {}

\* Its caller gives up (a timeout, a lost connection); it is executed later.
CallAbandoned ==
    /\ mac.failures < MaxFailures
    /\ \E call \in Mutation :
          mac' = [mac EXCEPT !.failures = @ + 1, !.late = Append(@, call)]

\* perform: what executing a mutation can leave the Mac in.  macOS chooses the
\* access point; an association that fails can drop the current one.
Executed(call) ==
    IF call.action = "wifi-disconnect" THEN {NoAssociation}
    ELSE Network(call.ssid) \cup {mac.in, NoAssociation}

ExecuteLate ==
    /\ mac.late # <<>>
    /\ \E a \in Executed(Head(mac.late)) :
          mac' = [mac EXCEPT !.in = a, !.late = Tail(@)]
    /\ UNCHANGED <<driverVars, bridge, bss>>

\* The Mac roams, loses its network or joins another by itself.
MacMoves ==
    /\ mac.moves < MaxMacMoves
    /\ \E a \in (Associations \cup {NoAssociation}) \ {mac.in} :
          mac' = [mac EXCEPT !.in = a, !.moves = @ + 1]
    /\ UNCHANGED <<driverVars, bridge, bss>>

-----------------------------------------------------------------------------
(* The bridge's loop: serve                                                *)

NoSnapshot == [sequence |-> 0, connected |-> FALSE, busy |-> FALSE,
               ssid |-> NoSSID, bssid |-> NoAP, privacy |-> FALSE,
               pinned |-> FALSE]
Fresh == [pc |-> "top", request |-> NoConnection, records |-> {},
          found |-> NoAssociation, link |-> NoSnapshot, previous |-> 0,
          missing |-> 0, ripe |-> FALSE, crashes |-> 0]

At(pc) == bridge.pc = pc

Goto(pc) == bridge' = [bridge EXCEPT !.pc = pc]

\* the next turn of the loop, without the locals of this one
Continue == bridge' = [Fresh EXCEPT !.previous = bridge.previous,
                                    !.missing = bridge.missing,
                                    !.ripe = bridge.ripe,
                                    !.crashes = bridge.crashes]

\* an ioctl the kernel refuses
Refused == wiphy = "free" /\ UNCHANGED driverVars

Start ==
    /\ At("down")
    /\ bridge_open(Bridge)
    /\ Goto("top")
    /\ UNCHANGED <<mac, bss>>

\* The process dies; the mutation it waits for may still be executed.
Crash ==
    /\ ~At("down") /\ bridge.crashes < MaxCrashes
    /\ bridge_release(Bridge)
    /\ bridge' = [Fresh EXCEPT !.pc = "down", !.crashes = bridge.crashes + 1]
    /\ UNCHANGED mac \/ CallAbandoned
    /\ UNCHANGED bss

GetConnection ==
    /\ At("top")
    /\ LH_GET_CONNECTION(Bridge)
    /\ bridge' = [bridge EXCEPT
                    !.request = conn,
                    !.pc = CASE conn.operation = Connect -> "scan"
                             [] conn.operation = Disconnect -> "disconnect"
                             [] OTHER -> "get_scan"]
    /\ UNCHANGED <<mac, bss>>

ResultStatus == IF At("succeed") THEN Success ELSE Failure
ResultAddress ==
    IF bridge.found = NoAssociation THEN NoAP ELSE bridge.found.bssid

ResultOfCurrent ==
    /\ At("succeed") \/ At("fail")
    /\ \/ LH_CONNECTION_RESULT(Bridge, conn.sequence, ResultStatus, ResultAddress)
       \/ /\ ~ConnectionResultAccepted(conn.sequence, ResultStatus, ResultAddress)
          /\ Refused
    /\ Continue
    /\ UNCHANGED <<mac, bss>>

ResultOnlyOfSuccess ==
    /\ At("succeed") \/ At("fail")
    /\ \/ /\ At("succeed")
          /\ LH_CONNECTION_RESULT(Bridge, bridge.request.sequence, Success,
                                  ResultAddress)
       \/ Refused
    /\ Continue
    /\ UNCHANGED <<mac, bss>>

\* CONNECTION_RESULT; the kernel may have cancelled the request meanwhile.
Result ==
    /\ At("succeed") \/ At("fail")
    /\ LET number == bridge.request.sequence
       IN \/ LH_CONNECTION_RESULT(Bridge, number, ResultStatus, ResultAddress)
          \/ /\ ~ConnectionResultAccepted(number, ResultStatus, ResultAddress)
             /\ Refused
    /\ Continue
    /\ UNCHANGED <<mac, bss>>

GetScan ==
    /\ At("get_scan")
    /\ LH_GET_SCAN(Bridge)
    /\ bridge' = IF scan.pending /\ scan.sequence # bridge.previous
                 THEN [bridge EXCEPT !.previous = scan.sequence, !.pc = "scanning"]
                 ELSE [bridge EXCEPT !.pc = "idle"]
    /\ UNCHANGED <<mac, bss>>

\* scan: the records of one complete host scan
Scanned(pc) ==
    /\ Read
    /\ \E found \in SUBSET Nearby :
          bridge' = [bridge EXCEPT !.records = found, !.pc = pc]

Scanning ==
    /\ At("scanning")
    /\ Scanned("write") \/ (CallFails /\ Goto("finish"))
    /\ UNCHANGED <<driverVars, bss>>

WriteRecordSkipsRefused ==
    /\ At("write")
    /\ \E record \in bridge.records :
          /\ bridge' = [bridge EXCEPT !.records = @ \ {record}]
          /\ \/ ScanResultAccepted(bridge.previous) /\ bss' = bss \cup {record}
             \/ UNCHANGED bss
    /\ Refused
    /\ UNCHANGED mac

\* One write() per record.  The kernel refuses it if the scan it belongs to is
\* no longer pending, and for reasons of its own (an unknown channel, memory).
WriteRecord ==
    /\ At("write")
    /\ \/ \E record \in bridge.records :
            /\ ScanResultAccepted(bridge.previous)
            /\ bss' = bss \cup {record}
            /\ bridge' = [bridge EXCEPT !.records = @ \ {record}]
       \/ bridge.records # {} /\ Goto("finish") /\ UNCHANGED bss
    /\ Refused
    /\ UNCHANGED mac

\* FINISH_SCAN or ABORT_SCAN
FinishScan ==
    /\ At("finish") \/ (At("write") /\ bridge.records = {})
    /\ \/ LH_FINISH_SCAN(Bridge, bridge.previous)
       \/ ~ScanResultAccepted(bridge.previous) /\ Refused
    /\ Continue
    /\ UNCHANGED <<mac, bss>>

\* the signal deadline has come, or the status file changed
FollowTurn ==
    /\ At("idle")
    /\ Goto("snapshot")
    /\ UNCHANGED <<driverVars, mac, bss>>

WaitTurn ==
    /\ At("idle")
    /\ Goto("wait")
    /\ UNCHANGED <<driverVars, mac, bss>>

\* RequestWait.wait: poll() on the device and on the status file
Wait ==
    /\ At("wait")
    /\ \/ (PollRegister(Bridge) \/ PollWake(Bridge)) /\ UNCHANGED bridge
       \/ /\ bridge_poll(Bridge)
          /\ IF Unread(Bridge) THEN Continue ELSE UNCHANGED bridge
       \/ PollTimeout(Bridge) /\ Continue
    /\ UNCHANGED <<mac, bss>>

-----------------------------------------------------------------------------
(* handle_connection                                                       *)

DisconnectMacIgnoresErrors ==
    /\ At("disconnect")
    /\ \/ /\ Replies
          /\ mac' = [mac EXCEPT !.in = NoAssociation]
          /\ Goto("disconnected")
       \/ (CallFails \/ CallAbandoned) /\ Goto("succeed")
    /\ UNCHANGED <<driverVars, bss>>

DisconnectMac ==
    /\ At("disconnect")
    /\ \/ /\ Replies
          /\ mac' = [mac EXCEPT !.in = NoAssociation]
          /\ Goto("disconnected")
       \/ (CallFails \/ CallAbandoned) /\ Goto("fail")
    /\ UNCHANGED <<driverVars, bss>>

ConfirmDisconnected ==
    /\ At("disconnected")
    /\ \/ Read /\ Goto(IF mac.in = NoAssociation THEN "succeed" ELSE "fail")
       \/ CallFails /\ Goto("fail")
    /\ UNCHANGED <<driverVars, bss>>

Candidate(record) ==
    /\ record.ssid = bridge.request.ssid
    /\ bridge.request.bssid # NoAP => record.bssid = bridge.request.bssid
    /\ CompatibleSecurity(record.security, bridge.request.psk)

ScanForTarget ==
    /\ At("scan")
    /\ \/ /\ Read
          /\ \E found \in SUBSET Nearby :
                bridge' = [bridge EXCEPT
                             !.records = found,
                             !.pc = IF \E record \in found : Candidate(record)
                                    THEN "connect" ELSE "fail"]
       \/ CallFails /\ Goto("fail")
    /\ UNCHANGED <<driverVars, bss>>

ConnectMac ==
    /\ At("connect")
    /\ \/ /\ Replies
          /\ \E a \in Network(bridge.request.ssid) : mac' = [mac EXCEPT !.in = a]
          /\ Goto("status")
       \/ /\ Replies /\ mac.failures < MaxFailures
          /\ mac' = [mac EXCEPT !.in = NoAssociation, !.failures = @ + 1]
          /\ Goto("fail")
       \/ (CallFails \/ CallAbandoned) /\ Goto("fail")
    /\ UNCHANGED <<driverVars, bss>>

HasRecord(records, a) == \E record \in records : Association(record) = a

VerifyAssociationByScan ==
    /\ At("status")
    /\ \/ /\ Read
          /\ \E record \in bridge.records :
                /\ Candidate(record)
                /\ bridge' = [bridge EXCEPT !.found = Association(record), !.pc = "publish"]
       \/ CallFails /\ Goto("fail")
    /\ UNCHANGED <<driverVars, bss>>

\* The Mac must now be in the requested network, on the requested access point.
Requested(a) ==
    /\ a \in Network(bridge.request.ssid)
    /\ bridge.request.bssid # NoAP => a.bssid = bridge.request.bssid

VerifyAssociation ==
    /\ At("status")
    /\ \/ /\ Read
          /\ bridge' = [bridge EXCEPT
                !.found = mac.in,
                !.pc = IF ~Requested(mac.in) THEN "fail"
                       ELSE IF HasRecord(bridge.records, mac.in) THEN "publish"
                       ELSE "rescan"]
       \/ CallFails /\ Goto("fail")
    /\ UNCHANGED <<driverVars, bss>>

Rescan ==
    /\ At("rescan")
    /\ Scanned("recheck") \/ (CallFails /\ Goto("fail"))
    /\ UNCHANGED <<driverVars, bss>>

RecheckIdentity ==
    /\ At("recheck")
    /\ \/ Read /\ Goto(IF mac.in = bridge.found THEN "publish" ELSE "fail")
       \/ CallFails /\ Goto("fail")
    /\ UNCHANGED <<driverVars, bss>>

\* the records of an access point that actual_bss accepts
Matching(a, privacy) ==
    {record \in bridge.records :
        Association(record) = a /\ CompatibleSecurity(record.security, privacy)}

\* actual_bss, then report with state 2, which the kernel may refuse
PublishAssociation ==
    /\ At("publish")
    /\ \/ \E record \in Matching(bridge.found, bridge.request.psk) :
            /\ Matching(bridge.found, bridge.request.psk) = {record}
            /\ ReportCurrent(bridge.request.sequence, 2)
            /\ RecordMatches(2, record)
            /\ bss' = bss \cup {record}
            /\ Goto("succeed")
       \/ Goto("fail") /\ UNCHANGED bss
    /\ Refused
    /\ UNCHANGED mac

-----------------------------------------------------------------------------
(* LinkFollower                                                            *)

Snapshot ==
    /\ At("snapshot")
    /\ bridge' = [bridge EXCEPT
                    !.link = LH_GET_LINK,
                    !.pc = IF link.connected /\ conn.operation = Idle
                           THEN "follow" ELSE "wait"]
    /\ Refused
    /\ UNCHANGED <<mac, bss>>

\* update, when the Mac is in no network: a first sample only starts the
\* confirmation delay.
Missing ==
    IF bridge.missing # bridge.link.sequence
    THEN [bridge EXCEPT !.missing = bridge.link.sequence, !.ripe = FALSE,
                        !.pc = "wait"]
    ELSE IF ~bridge.ripe THEN [bridge EXCEPT !.pc = "wait"]
    ELSE [bridge EXCEPT !.missing = 0, !.ripe = FALSE, !.pc = "report_down"]

PresentAlwaysPinned ==
    [bridge EXCEPT
       !.missing = 0, !.ripe = FALSE, !.found = mac.in,
       !.pc = IF mac.in = [ssid |-> bridge.link.ssid, bssid |-> bridge.link.bssid]
              THEN "signal" ELSE "report_down"]

\* update, when the Mac is in some network
Present ==
    [bridge EXCEPT
       !.missing = 0, !.ripe = FALSE, !.found = mac.in,
       !.pc = IF \/ mac.in.ssid # bridge.link.ssid
                 \/ bridge.link.pinned /\ mac.in.bssid # bridge.link.bssid
              THEN "report_down"
              ELSE IF mac.in.bssid = bridge.link.bssid THEN "signal" ELSE "roam_scan"]

FollowRestartsDelay ==
    /\ At("follow")
    /\ \/ /\ Read
          /\ bridge' = IF mac.in = NoAssociation
                       THEN [bridge EXCEPT !.missing = bridge.link.sequence,
                                           !.ripe = FALSE, !.pc = "wait"]
                       ELSE Present
       \/ CallFails /\ Goto("wait")
    /\ UNCHANGED <<driverVars, bss>>

Follow ==
    /\ At("follow")
    /\ \/ Read /\ bridge' = IF mac.in = NoAssociation THEN Missing ELSE Present
       \/ CallFails /\ Goto("wait")
    /\ UNCHANGED <<driverVars, bss>>

\* one second after the first missing identity
ConfirmationDelay ==
    /\ bridge.missing # 0 /\ ~bridge.ripe
    /\ bridge' = [bridge EXCEPT !.ripe = TRUE]
    /\ UNCHANGED <<driverVars, mac, bss>>

\* report with state 0, for the generation the snapshot was taken in
ReportDown ==
    /\ At("report_down")
    /\ \/ report_link_down(Bridge, bridge.link.sequence) /\ Goto("signal")
       \/ ~ReportCurrent(bridge.link.sequence, 0) /\ Refused /\ Goto("wait")
    /\ UNCHANGED <<mac, bss>>

\* scan, then actual_bss
RoamScan ==
    /\ At("roam_scan")
    /\ Scanned("roam_record") \/ (CallFails /\ Goto("wait"))
    /\ UNCHANGED <<driverVars, bss>>

\* "A scan can take seconds": the Mac must still be where it was.
RoamRecheck ==
    /\ At("roam_record")
    /\ IF \E record \in bridge.records :
             Matching(bridge.found, bridge.link.privacy) = {record}
       THEN \/ Read /\ Goto(IF mac.in = bridge.found THEN "report_roam" ELSE "signal")
            \/ CallFails /\ Goto("wait")
       ELSE Goto("wait") /\ UNCHANGED mac
    /\ UNCHANGED <<driverVars, bss>>

\* report with state 1, which the kernel may refuse
ReportRoam ==
    /\ At("report_roam")
    /\ \/ \E record \in Matching(bridge.found, bridge.link.privacy) :
            /\ report_link_roam(Bridge, bridge.link.sequence, record)
            /\ bss' = bss \cup {record}
            /\ Goto("signal")
       \/ Refused /\ Goto("wait") /\ UNCHANGED bss
    /\ UNCHANGED mac

Signal ==
    /\ At("signal")
    /\ \/ /\ bridge.found # NoAssociation
          /\ LH_SIGNAL(Bridge, bridge.found.bssid)
       \/ /\ bridge.found # NoAssociation =>
                ~(link.connected /\ bridge.found.bssid = link.bssid)
          /\ Refused
    /\ Goto("wait")
    /\ UNCHANGED <<mac, bss>>

-----------------------------------------------------------------------------
(* Composition                                                             *)

OnContract ==
    /\ mac.in # NoAssociation
    /\ mac.in.ssid = link.ssid
    /\ link.pinned => mac.in.bssid = link.bssid

\* visited: where the Mac has been since the last connect request;
\* left: whether it was off the guest's link at some time since that began;
\* answered: the last request this bridge has answered;
\* found: the records of the scan that is being published;
\* quiet: the Mac confirmed a disconnect and nobody has asked it to connect.
RecordHistory ==
    history' =
      [visited |-> (IF /\ conn'.operation = Connect
                       /\ connection_sequence' # connection_sequence
                    THEN {} ELSE history.visited) \cup {mac'.in},
       left |-> link'.connected
                  /\ (~OnContract' \/ (link.connected /\ history.left)),
       answered |-> IF bridge.pc \in {"succeed", "fail"} /\ bridge'.pc = "top"
                    THEN bridge.request.sequence
                    ELSE IF bridge'.pc = "down" THEN 0 ELSE history.answered,
       found |-> IF bridge'.pc = "write"
                 THEN IF bridge.pc = "scanning" THEN bridge'.records
                      ELSE history.found
                 ELSE {},
       quiet |-> \/ bridge.pc # "succeed" /\ bridge'.pc = "succeed"
                    /\ bridge.request.operation = Disconnect
                 \/ /\ history.quiet
                    /\ bridge'.pc # "connect" /\ mac'.moves = mac.moves]

GuestStep ==
    /\ \/ \E q \in GuestRequests : connect_network(q.ssid, q.bssid, q.psk)
       \/ disconnect_network
       \/ start_scan
       \/ OpenDevice
       \/ abort_scan
       \/ stop_device
       \/ CancelWork
       \/ SignalAges
       \/ Kernel
       \/ Tick
    /\ UNCHANGED <<bridge, mac, bss>>

ServeStep ==
    \/ GetConnection \/ Result \/ GetScan \/ Scanning \/ WriteRecord
    \/ FinishScan \/ FollowTurn \/ WaitTurn \/ Wait

ConnectionStep ==
    \/ DisconnectMac \/ ConfirmDisconnected \/ ScanForTarget \/ ConnectMac
    \/ VerifyAssociation \/ Rescan \/ RecheckIdentity \/ PublishAssociation

FollowStep ==
    \/ Snapshot \/ Follow \/ ReportDown \/ RoamScan \/ RoamRecheck
    \/ ReportRoam \/ Signal

BridgeStep == Start \/ ServeStep \/ ConnectionStep \/ FollowStep

BridgeDown ==
    /\ bridge = [Fresh EXCEPT !.pc = "down"]
    /\ MacInit
    /\ bss = {}
    /\ history = [visited |-> {NoAssociation}, left |-> FALSE, answered |-> 0,
                  found |-> {}, quiet |-> FALSE]

BridgeInit == Init /\ BridgeDown

BridgeNext ==
    /\ \/ GuestStep
       \/ BridgeStep
       \/ Crash
       \/ ConfirmationDelay
       \/ ExecuteLate
       \/ MacMoves
    /\ RecordOverlap
    /\ RecordHistory

BridgeSpec == BridgeInit /\ [][BridgeNext]_bridgeVars

\* The bridge's thread runs, its poll() times out and its deadlines come; the
\* Mac executes what it was asked; the kernel's lock holders go on.
BridgeFairness ==
    /\ WF_coreVars(BridgeStep) /\ SF_coreVars(FollowTurn)
    /\ WF_coreVars(ConfirmationDelay)
    /\ WF_coreVars(ExecuteLate)
    /\ WF_coreVars(DecideCarrier /\ UNCHANGED <<bridge, mac, bss>>)
    /\ WF_coreVars(SetCarrier /\ UNCHANGED <<bridge, mac, bss>>)

-----------------------------------------------------------------------------
(* Properties                                                              *)

\* A connection the guest believes in has been real: since the guest asked for
\* it the Mac has been on the very access point the kernel shows, whatever was
\* replaced, timed out, repeated or executed late in between.
ConnectTruthful ==
    link.connected =>
        [ssid |-> link.ssid, bssid |-> link.bssid] \in history.visited

\* cfg80211 knows the access point of the guest's link, with the security the
\* guest asked for: serve publishes the record before it reports the success.
KnownBSS ==
    link.connected =>
        \E record \in bss : /\ record.ssid = link.ssid
                             /\ record.bssid = link.bssid
                             /\ CompatibleSecurity(record.security, link.privacy)

\* The link the guest is shown is real on both sides: the Mac has been on it
\* and cfg80211 knows it.
LinkReal == ConnectTruthful /\ KnownBSS

\* A scan that the bridge reports as finished has given cfg80211 every record
\* the Mac found; a scan it could not publish in full is aborted instead.
ScanComplete ==
    [][At("write") /\ At("top")' /\ scan.pending /\ ~scan'.pending
         => history.found \subseteq bss]_bridgeVars

\* LinkFollower takes a link down only if the Mac has been off that very link
\* since it began: a delayed sample never ends a newer connection.
NoFalseLoss ==
    [][At("report_down") /\ link.connected /\ ~link'.connected => history.left]_bridgeVars

\* One bridge process performs no kernel request twice, however its answer is
\* received: a failed association is not repeated behind the user's back.
HandledOnce ==
    bridge.pc \in {"disconnect", "scan", "connect"} =>
        bridge.request.sequence # history.answered

\* Once a disconnect has been answered with success the Mac stays out of every
\* network until it is asked again or joins one by itself, even if the reply
\* to an earlier connect was lost.
ConfirmedDisconnect ==
    history.quiet => mac.in = NoAssociation

\* The guest does not keep a link the Mac has lost.
LossReported == []<>(~link.connected \/ OnContract)
=============================================================================
