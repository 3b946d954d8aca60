---------------------------- MODULE LinuxhostWifi ----------------------------
(***************************************************************************)
(* The guest's cfg80211 driver, src/guest/drivers/wifi/linuxhost_wifi.c.   *)
(*                                                                         *)
(* cfg80211 asks the driver to scan, connect and disconnect.  The driver   *)
(* only records the request; root bridge processes read it through a       *)
(* character device (one lh_reader per open file), perform it on the Mac   *)
(* and answer with ioctls.  Delayed work fails what nobody answers.        *)
(*                                                                         *)
(* Two locks matter.  cfg80211 operations, ioctls and the timeout workers  *)
(* run under the wiphy mutex; notifications of the lower Ethernet device   *)
(* run under RTNL only; stop_device takes both.  Steps under one lock      *)
(* interleave with steps under the other, so each read and each write of   *)
(* the carrier is a step of its own.                                       *)
(***************************************************************************)
EXTENDS Integers

CONSTANTS
    SSID, BSSID,        \* network names and access points
    NoSSID, NoAP,       \* the zeroed name and the zero Ethernet address
    Reader,             \* open files of /dev/linuxhost-wifi
    SeqMod,             \* 2^32 in the code: the width of the request numbers
    StartSequences,     \* request numbers the module may have reached
    ConnTicks,          \* 90 s, in ticks
    ScanTicks,          \* 45 s, in ticks
    MaxConnections,     \* bound: connect and disconnect requests
    MaxScans,           \* bound: scan requests
    MaxLowerEvents      \* bound: changes of the lower device

ASSUME ConstantsAssumption ==
    /\ NoSSID \notin SSID /\ NoAP \notin BSSID
    /\ SeqMod \in Nat /\ SeqMod > 1
    /\ StartSequences \subseteq 0 .. SeqMod - 1
    /\ ConnTicks \in Nat \ {0} /\ ScanTicks \in Nat \ {0}
    /\ MaxConnections \in Nat /\ MaxScans \in Nat /\ MaxLowerEvents \in Nat

VARIABLES
    conn,       \* lh_priv.connection: the pending connect or disconnect
    connection_sequence,
    connTime,   \* connection_deadline and the connection_timeout work
    scan,       \* lh_priv.scan and lh_priv.sequence
    scanTime,   \* scan_deadline and the timeout work
    link,       \* connected, ssid, privacy, pinned, associated_bssid
    signal,     \* signal_valid, its age, and the AP it was sampled for
    reader,     \* per-open cursors and the state of each reader's poll()
    up,         \* netif_running of the Wi-Fi interface
    carrier,    \* its carrier
    wiphy,      \* the wiphy mutex: free, or what its holder still has to do
    rtnl,       \* RTNL: free, or what its holder still has to do
    lower,      \* the lower device, and whether linkwatch has news of it
    cfg,        \* cfg80211's view of the station, from the driver's reports
    asked,      \* the last accepted cfg80211 connect parameters
    used,       \* how much of each bound has been used
    overlap     \* a link ended or began while a lower event was handled, and
                \* neither side has looked again since

linkVars == <<link, signal, cfg>>
lockVars == <<carrier, wiphy, rtnl, lower, up>>
driverVars == <<conn, connection_sequence, connTime, scan, scanTime, link,
                signal, reader, up, carrier, wiphy, rtnl, lower, cfg, asked,
                used>>
vars == <<driverVars, overlap>>

-----------------------------------------------------------------------------
(* Data                                                                    *)

Idle == 0
Connect == 1
Disconnect == 2

Success == 0
Failure == 1

\* security of an access point's record: open, WPA2/CCMP/PSK, or neither
Security == {"open", "psk", "other"}

NoConnection == [operation |-> Idle, sequence |-> 0, ssid |-> NoSSID,
                 bssid |-> NoAP, psk |-> FALSE]
NoLink == [connected |-> FALSE, ssid |-> NoSSID, privacy |-> FALSE,
           pinned |-> FALSE, bssid |-> NoAP]
NoTime == [deadline |-> 0, timer |-> -1, worker |-> FALSE]
NewReader(open) == [open |-> open, scan |-> 0, connection |-> 0,
                    poll |-> "idle", woken |-> FALSE]

Connections == [operation : {Idle, Connect, Disconnect},
                sequence : 0 .. SeqMod - 1,
                ssid : SSID \cup {NoSSID}, bssid : BSSID \cup {NoAP},
                psk : BOOLEAN]
Links == [connected : BOOLEAN, ssid : SSID \cup {NoSSID}, privacy : BOOLEAN,
          pinned : BOOLEAN, bssid : BSSID \cup {NoAP}]
Readers == [open : BOOLEAN, scan : 0 .. SeqMod - 1,
            connection : 0 .. SeqMod - 1,
            poll : {"idle", "registered", "asleep"}, woken : BOOLEAN]

\* A delayed work: ticks to the deadline, ticks to the timer (-1: not armed),
\* and whether its function has started and waits for the wiphy mutex.
Times(ticks) == [deadline : 0 .. ticks, timer : -1 .. ticks, worker : BOOLEAN]

Scans == [pending : BOOLEAN, sequence : 0 .. SeqMod - 1]
Signals == [valid : BOOLEAN, fresh : BOOLEAN, of : BSSID \cup {NoAP}]
LowerDevices == [present : BOOLEAN, running : BOOLEAN, carrier : BOOLEAN,
                 linkwatch : BOOLEAN]
Requests == [ssid : SSID \cup {NoSSID}, bssid : BSSID \cup {NoAP}, psk : BOOLEAN]
Usage == [connections : 0 .. MaxConnections, scans : 0 .. MaxScans,
          lower : 0 .. MaxLowerEvents]
WiphyStates == {"free", "decide", "on", "off"}
RtnlStates == {"free", "event", "on", "off", "detach", "cancel"}
CfgStates == {"idle", "connecting", "connected"}

\* Types of the fields of lh_priv, of the open files, and of the locks.
TypeOK ==
    /\ conn \in Connections
    /\ connection_sequence \in 0 .. SeqMod - 1
    /\ connTime \in Times(ConnTicks)
    /\ scan \in Scans
    /\ scanTime \in Times(ScanTicks)
    /\ link \in Links
    /\ signal \in Signals
    /\ reader \in [Reader -> Readers]
    /\ up \in BOOLEAN /\ carrier \in BOOLEAN
    /\ wiphy \in WiphyStates /\ rtnl \in RtnlStates
    /\ lower \in LowerDevices
    /\ cfg \in CfgStates
    /\ asked \in Requests
    /\ used \in Usage
    /\ overlap \in BOOLEAN

\* lh_init: the interface is registered down and without carrier.  A module
\* that has been loaded for long may have reached any request number.
Init ==
    /\ conn = NoConnection
    /\ connection_sequence \in StartSequences
    /\ connTime = NoTime
    /\ \E s \in StartSequences : scan = [pending |-> FALSE, sequence |-> s]
    /\ scanTime = NoTime
    /\ link = NoLink
    /\ signal = [valid |-> FALSE, fresh |-> FALSE, of |-> NoAP]
    /\ reader = [r \in Reader |-> NewReader(FALSE)]
    /\ up = FALSE /\ carrier = FALSE
    /\ wiphy = "free" /\ rtnl = "free"
    /\ \E c \in BOOLEAN :
          lower = [present |-> TRUE, running |-> TRUE, carrier |-> c,
                   linkwatch |-> FALSE]
    /\ cfg = "idle"
    /\ asked = [ssid |-> NoSSID, bssid |-> NoAP, psk |-> FALSE]
    /\ used = [connections |-> 0, scans |-> 0, lower |-> 0]
    /\ overlap = FALSE

-----------------------------------------------------------------------------
(* Helpers                                                                 *)

\* if (!++n) ++n: zero means "no request" and is never a request number
NextSequence(n) == IF n = SeqMod - 1 THEN 1 ELSE n + 1

\* mod_delayed_work replaces the time of a timer that is already armed
Armed(t, ticks) == [deadline |-> ticks, timer |-> ticks, worker |-> t.worker]

\* wake_up_interruptible_poll: everyone registered on the wait queue
Woken == [r \in Reader |->
            [reader[r] EXCEPT !.woken = @ \/ reader[r].poll # "idle"]]

\* The request of file r's cursors: what makes bridge_poll report readiness.
Unread(r) ==
    \/ scan.pending /\ scan.sequence # reader[r].scan
    \/ conn.operation # Idle /\ conn.sequence # reader[r].connection

CompatibleSecurity(security, privacy) ==
    security = (IF privacy THEN "psk" ELSE "open")

-----------------------------------------------------------------------------
(* Completion of a connect or a disconnect                                 *)

\* The link fields once the pending operation has ended: a successful connect
\* installs the requested contract, everything else clears it.
FinishedLink(status, b) ==
    IF conn.operation = Connect /\ status = Success
    THEN [connected |-> TRUE, ssid |-> conn.ssid, privacy |-> conn.psk,
          pinned |-> conn.bssid # NoAP, bssid |-> b]
    ELSE NoLink

\* cfg80211_connect_result for a connect; cfg80211_disconnected for a
\* disconnect, but only if there was a link.
FinishedCfg(status) ==
    IF conn.operation = Connect
    THEN IF status = Success THEN "connected" ELSE "idle"
    ELSE IF link.connected THEN "idle" ELSE cfg

\* The caller holds the wiphy mutex and keeps it until the carrier has been
\* decided and set (DecideCarrier, SetCarrier).
finish_connection(status, b) ==
    IF conn.operation = Idle
    THEN UNCHANGED <<conn, link, signal, cfg, wiphy>>
    ELSE /\ conn' = NoConnection
         /\ link' = FinishedLink(status, b)
         /\ signal' = [signal EXCEPT !.valid = FALSE]
         /\ cfg' = FinishedCfg(status)
         /\ wiphy' = "decide"

\* The last lines of finish_connection: read the lower device, then act.
DecideCarrier ==
    /\ wiphy = "decide"
    /\ wiphy' = IF link.connected /\ lower.present /\ lower.carrier
                THEN "on" ELSE "off"
    /\ UNCHANGED <<conn, connection_sequence, connTime, scan, scanTime, link,
                   signal, reader, up, carrier, rtnl, lower, cfg, asked, used>>

\* netif_carrier_on / netif_carrier_off, then wiphy_unlock
SetCarrier ==
    /\ wiphy \in {"on", "off"}
    /\ carrier' = (wiphy = "on")
    /\ wiphy' = "free"
    /\ UNCHANGED <<conn, connection_sequence, connTime, scan, scanTime, link,
                   signal, reader, up, rtnl, lower, cfg, asked, used>>

-----------------------------------------------------------------------------
(* Time and delayed work                                                   *)

Sooner(n) == IF n > 0 THEN n - 1 ELSE n
Later(t) == [deadline |-> Sooner(t.deadline), timer |-> Sooner(t.timer),
             worker |-> t.worker]

Tick ==
    /\ connTime' = Later(connTime)
    /\ scanTime' = Later(scanTime)
    /\ UNCHANGED <<conn, connection_sequence, scan, linkVars, reader, lockVars,
                   asked, used>>

\* The workqueue starts the function; it then waits for the wiphy mutex while
\* the timer may be armed again.
Fired(t) == [deadline |-> t.deadline, timer |-> -1, worker |-> TRUE]
Returned(t) == [deadline |-> t.deadline, timer |-> t.timer, worker |-> FALSE]
Rearmed(t) == [deadline |-> t.deadline, timer |-> t.deadline, worker |-> FALSE]
Cancelled(t) == [deadline |-> t.deadline, timer |-> -1, worker |-> t.worker]
Due(t) == t.timer = 0 /\ ~t.worker

FireConnectionTimer ==
    /\ Due(connTime)
    /\ connTime' = Fired(connTime)
    /\ UNCHANGED <<conn, connection_sequence, scan, scanTime, linkVars, reader,
                   lockVars, asked, used>>

FireScanTimer ==
    /\ Due(scanTime)
    /\ scanTime' = Fired(scanTime)
    /\ UNCHANGED <<conn, connection_sequence, connTime, scan, linkVars, reader,
                   lockVars, asked, used>>

connection_timeout ==
    /\ connTime.worker /\ wiphy = "free"
    /\ IF conn.operation # Idle /\ connTime.deadline > 0
       THEN /\ connTime' = Rearmed(connTime)
            /\ UNCHANGED <<conn, link, signal, cfg, wiphy>>
       ELSE /\ connTime' = Returned(connTime)
            /\ finish_connection(Failure, NoAP)
    /\ UNCHANGED <<connection_sequence, scan, scanTime, reader, up, carrier,
                   rtnl, lower, asked, used>>

scan_timeout_ignores_deadline ==
    /\ scanTime.worker /\ wiphy = "free"
    /\ scanTime' = Returned(scanTime)
    /\ scan' = [scan EXCEPT !.pending = FALSE]
    /\ UNCHANGED <<conn, connection_sequence, connTime, linkVars, reader,
                   lockVars, asked, used>>

\* A prior scan's worker may already wait for the mutex when a new scan starts.
scan_timeout ==
    /\ scanTime.worker /\ wiphy = "free"
    /\ IF scan.pending /\ scanTime.deadline > 0
       THEN /\ scanTime' = Rearmed(scanTime)
            /\ UNCHANGED scan
       ELSE /\ scanTime' = Returned(scanTime)
            /\ scan' = [scan EXCEPT !.pending = FALSE]
    /\ UNCHANGED <<conn, connection_sequence, connTime, linkVars, reader,
                   lockVars, asked, used>>

-----------------------------------------------------------------------------
(* cfg80211 operations.  cfg80211 checks that the interface is running under *)
(* RTNL and takes the wiphy mutex before it lets RTNL go, so none of these   *)
(* can start between ndo_stop's two halves.                                  *)

\* begin_connection, with the fields its callers fill in
begin_connection(operation, ssid, bssid, psk) ==
    /\ connection_sequence' = NextSequence(connection_sequence)
    /\ conn' = [operation |-> operation, sequence |-> connection_sequence',
                ssid |-> ssid, bssid |-> bssid, psk |-> psk]
    /\ connTime' = Armed(connTime, ConnTicks)
    /\ used.connections < MaxConnections
    /\ used' = [used EXCEPT !.connections = @ + 1]

\* -EBUSY while anything is pending or a link exists.  Requests with another
\* security than open or WPA2/CCMP/PSK are refused and change nothing.
connect_network(ssid, bssid, psk) ==
    /\ up /\ wiphy = "free"
    /\ ~scan.pending /\ conn.operation = Idle /\ ~link.connected
    /\ begin_connection(Connect, ssid, bssid, psk)
    /\ cfg' = "connecting"
    /\ asked' = [ssid |-> ssid, bssid |-> bssid, psk |-> psk]
    /\ reader' = Woken
    /\ UNCHANGED <<scan, scanTime, link, signal, lockVars>>

\* A pending connect is failed first; its carrier update precedes the unlock.
disconnect_network ==
    /\ up /\ wiphy = "free"
    /\ conn.operation # Disconnect
    /\ IF conn.operation = Connect
       THEN /\ link' = FinishedLink(Failure, NoAP)
            /\ cfg' = FinishedCfg(Failure)
            /\ signal' = [signal EXCEPT !.valid = FALSE]
            /\ wiphy' = "off"
       ELSE UNCHANGED <<linkVars, wiphy>>
    /\ begin_connection(Disconnect, NoSSID, NoAP, FALSE)
    /\ reader' = Woken
    /\ UNCHANGED <<scan, scanTime, up, carrier, rtnl, lower, asked>>

start_scan_without_timeout ==
    /\ up /\ wiphy = "free" /\ ~scan.pending
    /\ scan' = [pending |-> TRUE, sequence |-> NextSequence(scan.sequence)]
    /\ used.scans < MaxScans
    /\ used' = [used EXCEPT !.scans = @ + 1]
    /\ reader' = Woken
    /\ UNCHANGED <<conn, connection_sequence, connTime, scanTime, linkVars,
                   lockVars, asked>>

start_scan ==
    /\ up /\ wiphy = "free" /\ ~scan.pending
    /\ scan' = [pending |-> TRUE, sequence |-> NextSequence(scan.sequence)]
    /\ scanTime' = Armed(scanTime, ScanTicks)
    /\ used.scans < MaxScans
    /\ used' = [used EXCEPT !.scans = @ + 1]
    /\ reader' = Woken
    /\ UNCHANGED <<conn, connection_sequence, connTime, linkVars, lockVars,
                   asked>>

\* finish_scan: also abort_scan, LH_FINISH_SCAN and LH_ABORT_SCAN
finish_scan ==
    /\ scan.pending /\ wiphy = "free"
    /\ scan' = [scan EXCEPT !.pending = FALSE]
    /\ UNCHANGED <<conn, connection_sequence, connTime, scanTime, linkVars,
                   reader, lockVars, asked, used>>

abort_scan == finish_scan

\* There is no ndo_open: raising the interface only sets netif_running.
OpenDevice ==
    /\ ~up /\ rtnl = "free"
    /\ up' = TRUE
    /\ UNCHANGED <<conn, connection_sequence, connTime, scan, scanTime,
                   linkVars, reader, carrier, wiphy, rtnl, lower, asked, used>>

\* stop_device up to wiphy_unlock.  An established link only loses its
\* connected flag: name, pin and access point stay behind.
stop_device ==
    /\ up /\ rtnl = "free" /\ wiphy = "free"
    /\ up' = FALSE /\ rtnl' = "cancel"
    /\ scan' = [scan EXCEPT !.pending = FALSE]
    /\ conn' = NoConnection
    /\ link' = IF conn.operation # Idle THEN FinishedLink(Failure, NoAP)
               ELSE [link EXCEPT !.connected = FALSE]
    /\ cfg' = IF conn.operation # Idle THEN FinishedCfg(Failure)
              ELSE IF link.connected THEN "idle" ELSE cfg
    /\ signal' = [signal EXCEPT !.valid = FALSE]
    /\ carrier' = FALSE
    /\ UNCHANGED <<connection_sequence, connTime, scanTime, reader, wiphy,
                   lower, asked, used>>

\* cancel_delayed_work_sync waits for a worker that waits for the wiphy mutex
CancelWork ==
    /\ rtnl = "cancel"
    /\ ~connTime.worker /\ ~scanTime.worker
    /\ connTime' = Cancelled(connTime)
    /\ scanTime' = Cancelled(scanTime)
    /\ rtnl' = "free"
    /\ UNCHANGED <<conn, connection_sequence, scan, linkVars, reader, up,
                   carrier, wiphy, lower, asked, used>>

\* get_station: the signal cfg80211 is shown for a station, if any
ShowsSignal(mac) ==
    /\ link.connected /\ mac = link.bssid
    /\ signal.valid /\ signal.fresh

-----------------------------------------------------------------------------
(* The bridge device.  An ioctl that fails (-ESTALE, -EINVAL) changes        *)
(* nothing, so only its accepted form is an action; the predicates say when  *)
(* it is accepted.                                                           *)

deviceVars == <<conn, connection_sequence, connTime, scan, scanTime>>

\* one thread per open file: it is either in poll() or issuing an ioctl
Calling(r) == reader[r].open /\ reader[r].poll = "idle"

bridge_open(r) ==
    /\ ~reader[r].open
    /\ reader' = [reader EXCEPT ![r] = NewReader(TRUE)]
    /\ UNCHANGED <<deviceVars, linkVars, lockVars, asked, used>>

\* close() or the death of the bridge process
bridge_release(r) ==
    /\ reader[r].open
    /\ reader' = [reader EXCEPT ![r] = NewReader(FALSE)]
    /\ UNCHANGED <<deviceVars, linkVars, lockVars, asked, used>>

\* poll_wait puts the file on the wait queue, without any lock
PollRegister(r) ==
    /\ Calling(r)
    /\ reader' = [reader EXCEPT ![r].poll = "registered", ![r].woken = FALSE]
    /\ UNCHANGED <<deviceVars, linkVars, lockVars, asked, used>>

\* bridge_poll: unread work ends the poll, otherwise the file sleeps
bridge_poll(r) ==
    /\ reader[r].poll = "registered" /\ wiphy = "free"
    /\ reader' = [reader EXCEPT ![r].poll =
                    IF Unread(r) THEN "idle" ELSE "asleep"]
    /\ UNCHANGED <<deviceVars, linkVars, lockVars, asked, used>>

\* A wakeup makes the poll system call ask bridge_poll again.
PollWake(r) ==
    /\ reader[r].poll = "asleep" /\ reader[r].woken
    /\ reader' = [reader EXCEPT ![r].poll = "registered", ![r].woken = FALSE]
    /\ UNCHANGED <<deviceVars, linkVars, lockVars, asked, used>>

\* RequestWait polls with a timeout and with a second descriptor.
PollTimeout(r) ==
    /\ reader[r].poll = "asleep"
    /\ reader' = [reader EXCEPT ![r].poll = "idle", ![r].woken = FALSE]
    /\ UNCHANGED <<deviceVars, linkVars, lockVars, asked, used>>

LH_GET_SCAN(r) ==
    /\ Calling(r) /\ wiphy = "free"
    /\ reader' = [reader EXCEPT ![r].scan =
                    IF scan.pending THEN scan.sequence ELSE 0]
    /\ UNCHANGED <<deviceVars, linkVars, lockVars, asked, used>>

LH_GET_CONNECTION(r) ==
    /\ Calling(r) /\ wiphy = "free"
    /\ reader' = [reader EXCEPT ![r].connection = conn.sequence]
    /\ UNCHANGED <<deviceVars, linkVars, lockVars, asked, used>>

\* LH_FINISH_SCAN and LH_ABORT_SCAN
ScanResultAccepted(sequence) == scan.pending /\ sequence = scan.sequence

LH_FINISH_SCAN(r, sequence) ==
    /\ Calling(r)
    /\ ScanResultAccepted(sequence)
    /\ finish_scan

ConnectionResultAccepted(sequence, status, b) ==
    /\ conn.operation # Idle /\ sequence = conn.sequence
    /\ conn.operation = Connect /\ status = Success =>
         /\ b \in BSSID
         /\ conn.bssid # NoAP => b = conn.bssid

LH_CONNECTION_RESULT(r, sequence, status, b) ==
    /\ Calling(r) /\ wiphy = "free"
    /\ ConnectionResultAccepted(sequence, status, b)
    /\ finish_connection(status, b)
    /\ UNCHANGED <<connection_sequence, connTime, scan, scanTime, reader, up,
                   carrier, rtnl, lower, asked, used>>

\* The link as the bridge sees it, with the generation of the last request.
LH_GET_LINK ==
    [sequence |-> connection_sequence, connected |-> link.connected,
     busy |-> conn.operation # Idle, ssid |-> link.ssid, bssid |-> link.bssid,
     privacy |-> link.privacy, pinned |-> link.pinned]

LH_SIGNAL(r, b) ==
    /\ Calling(r) /\ wiphy = "free"
    /\ link.connected /\ b = link.bssid
    /\ signal' = [valid |-> TRUE, fresh |-> TRUE, of |-> b]
    /\ UNCHANGED <<deviceVars, link, cfg, reader, lockVars, asked, used>>

\* fifteen seconds pass without another sample
SignalAges ==
    /\ signal.fresh
    /\ signal' = [signal EXCEPT !.fresh = FALSE]
    /\ UNCHANGED <<deviceVars, link, cfg, reader, lockVars, asked, used>>

\* report_link: the generation must be the current one.  State 2 describes the
\* access point of a pending connect, states 0 and 1 an established link.
ReportCurrent(sequence, state) ==
    /\ sequence = connection_sequence
    /\ IF state = 2 THEN conn.operation = Connect
       ELSE link.connected /\ conn.operation = Idle

\* State 1 of an established link is checked against the contract that was
\* installed when it connected, state 2 against the pending request.
RecordMatches(state, record) ==
    LET ssid == IF state = 2 THEN conn.ssid ELSE link.ssid
        privacy == IF state = 2 THEN conn.psk ELSE link.privacy
        pin == IF state = 2 THEN conn.bssid
               ELSE IF link.pinned THEN link.bssid ELSE NoAP
    IN /\ record.ssid = ssid
       /\ pin # NoAP => record.bssid = pin
       /\ CompatibleSecurity(record.security, privacy)

Records == [ssid : SSID, bssid : BSSID, security : Security]

report_link_down_keeps_carrier(r, sequence) ==
    /\ Calling(r) /\ wiphy = "free"
    /\ ReportCurrent(sequence, 0)
    /\ link' = NoLink /\ cfg' = "idle"
    /\ signal' = [signal EXCEPT !.valid = FALSE]
    /\ UNCHANGED <<deviceVars, reader, lockVars, asked, used>>

\* state 0: the Mac has left the network
report_link_down(r, sequence) ==
    /\ Calling(r) /\ wiphy = "free"
    /\ ReportCurrent(sequence, 0)
    /\ link' = NoLink /\ cfg' = "idle"
    /\ signal' = [signal EXCEPT !.valid = FALSE]
    /\ wiphy' = "off"
    /\ UNCHANGED <<deviceVars, reader, up, carrier, rtnl, lower, asked, used>>

report_link_roam_unpinned(r, sequence, record) ==
    /\ Calling(r) /\ wiphy = "free"
    /\ ReportCurrent(sequence, 1)
    /\ record.ssid = link.ssid
    /\ CompatibleSecurity(record.security, link.privacy)
    /\ record.bssid # link.bssid
    /\ link' = [link EXCEPT !.bssid = record.bssid]
    /\ signal' = [signal EXCEPT !.valid = FALSE]
    /\ UNCHANGED <<deviceVars, cfg, reader, lockVars, asked, used>>

\* state 1: the Mac has moved to another access point of the same network.
\* (The same access point, and state 2, only inform cfg80211 of the BSS.)
report_link_roam(r, sequence, record) ==
    /\ Calling(r) /\ wiphy = "free"
    /\ ReportCurrent(sequence, 1)
    /\ RecordMatches(1, record)
    /\ record.bssid # link.bssid
    /\ link' = [link EXCEPT !.bssid = record.bssid]
    /\ signal' = [signal EXCEPT !.valid = FALSE]
    /\ UNCHANGED <<deviceVars, cfg, reader, lockVars, asked, used>>

-----------------------------------------------------------------------------
(* The lower Ethernet device, under RTNL.                                    *)

unlockedVars == <<deviceVars, linkVars, reader, up, wiphy, asked>>

LowerChanged == [used EXCEPT !.lower = @ + 1]

\* The lower driver changes its carrier without RTNL; linkwatch tells later.
LowerCarrier ==
    /\ lower.present /\ used.lower < MaxLowerEvents
    /\ lower' = [lower EXCEPT !.carrier = ~@, !.linkwatch = TRUE]
    /\ used' = LowerChanged
    /\ UNCHANGED <<unlockedVars, carrier, rtnl>>

\* NETDEV_CHANGE, which linkwatch sends only for a device that is running
Linkwatch ==
    /\ lower.linkwatch /\ rtnl = "free"
    /\ lower' = [lower EXCEPT !.linkwatch = FALSE]
    /\ rtnl' = IF lower.present /\ lower.running THEN "event" ELSE "free"
    /\ UNCHANGED <<unlockedVars, carrier, used>>

\* NETDEV_UP and NETDEV_DOWN
LowerAdmin ==
    /\ lower.present /\ rtnl = "free" /\ used.lower < MaxLowerEvents
    /\ lower' = [lower EXCEPT !.running = ~@]
    /\ rtnl' = "event"
    /\ used' = LowerChanged
    /\ UNCHANGED <<unlockedVars, carrier>>

\* lower_event reads connected and the lower device ...
lower_event ==
    /\ rtnl = "event"
    /\ rtnl' = IF link.connected /\ lower.running /\ lower.carrier
               THEN "on" ELSE "off"
    /\ UNCHANGED <<unlockedVars, carrier, lower, used>>

\* ... and then sets the carrier, without the wiphy mutex.
LowerEventSetsCarrier ==
    /\ rtnl \in {"on", "off"}
    /\ carrier' = (rtnl = "on")
    /\ rtnl' = "free"
    /\ UNCHANGED <<unlockedVars, lower, used>>

\* NETDEV_UNREGISTER: detach_lower drops the carrier, then the pointer
detach_lower ==
    /\ lower.present /\ rtnl = "free" /\ used.lower < MaxLowerEvents
    /\ carrier' = FALSE
    /\ rtnl' = "detach"
    /\ used' = LowerChanged
    /\ UNCHANGED <<unlockedVars, lower>>

DetachPointer ==
    /\ rtnl = "detach"
    /\ lower' = [lower EXCEPT !.present = FALSE]
    /\ rtnl' = "free"
    /\ UNCHANGED <<unlockedVars, carrier, used>>

-----------------------------------------------------------------------------
RequestNumbers == 0 .. SeqMod - 1

Cfg80211 ==
    \/ \E s \in SSID, b \in BSSID \cup {NoAP}, k \in BOOLEAN :
          connect_network(s, b, k)
    \/ disconnect_network
    \/ start_scan
    \/ abort_scan
    \/ OpenDevice
    \/ stop_device
    \/ CancelWork

Poll(r) ==
    \/ PollRegister(r)
    \/ bridge_poll(r)
    \/ PollWake(r)
    \/ PollTimeout(r)

Ioctl(r) ==
    \/ LH_GET_SCAN(r)
    \/ LH_GET_CONNECTION(r)
    \/ \E n \in RequestNumbers : LH_FINISH_SCAN(r, n)
    \/ \E n \in RequestNumbers, s \in {Success, Failure}, b \in BSSID \cup {NoAP} :
          LH_CONNECTION_RESULT(r, n, s, b)
    \/ \E b \in BSSID : LH_SIGNAL(r, b)
    \/ \E n \in RequestNumbers : report_link_down(r, n)
    \/ \E n \in RequestNumbers, record \in Records : report_link_roam(r, n, record)

Lower ==
    \/ LowerCarrier
    \/ Linkwatch
    \/ LowerAdmin
    \/ lower_event
    \/ LowerEventSetsCarrier
    \/ detach_lower
    \/ DetachPointer

Kernel ==
    \/ DecideCarrier
    \/ SetCarrier
    \/ FireConnectionTimer
    \/ FireScanTimer
    \/ connection_timeout
    \/ scan_timeout

Step ==
    \/ Cfg80211
    \/ Kernel
    \/ Tick
    \/ SignalAges
    \/ Lower
    \/ \E r \in Reader :
          bridge_open(r) \/ bridge_release(r) \/ Poll(r) \/ Ioctl(r)

\* History: both locks busy at once spoils the carrier until one side reads
\* the state of the other while that one is idle.
LowerBusy == rtnl \notin {"free", "cancel"}

RecordOverlap ==
    overlap' = IF wiphy' # "free" /\ LowerBusy' THEN TRUE
               ELSE IF \/ rtnl = "event" /\ rtnl' # "event"
                       \/ wiphy = "decide" /\ wiphy' # "decide"
                    THEN FALSE ELSE overlap

Next == Step /\ RecordOverlap

Spec == Init /\ [][Next]_vars

\* What the kernel itself guarantees: time passes, timers fire, workers get
\* the mutex and its holder goes on.  No bridge is assumed to run at all.
Fairness ==
    /\ WF_driverVars(Tick)
    /\ WF_driverVars(FireConnectionTimer) /\ WF_driverVars(FireScanTimer)
    /\ SF_driverVars(connection_timeout) /\ SF_driverVars(scan_timeout)
    /\ WF_driverVars(DecideCarrier) /\ WF_driverVars(SetCarrier)
    /\ WF_driverVars(CancelWork)

-----------------------------------------------------------------------------
(* Properties                                                              *)

\* What cfg80211 has been told is what the driver believes: a connect request
\* is outstanding exactly while one is pending, and gets exactly one result;
\* every link that ends is reported, whichever of the six ways it ends.
CfgAgrees ==
    cfg = IF conn.operation = Connect THEN "connecting"
          ELSE IF link.connected THEN "connected" ELSE "idle"

\* The network the guest is connected to is the one it asked for, with the
\* security it asked for and, if it named an access point, on that access
\* point, after any sequence of roams, stops, timeouts and reconnects.
LinkHonoursRequest ==
    link.connected =>
        /\ link.ssid = asked.ssid
        /\ link.privacy = asked.psk
        /\ asked.bssid # NoAP => link.bssid = asked.bssid

\* A pending request always has its timeout armed no later than its deadline,
\* or a worker under way that will arm it: no pending request can be orphaned
\* by a stale worker, a stop of the interface or a request that replaced it.
Guarded(t) == t.worker \/ t.timer \in 0 .. t.deadline

TimeoutArmed ==
    /\ conn.operation # Idle => Guarded(connTime)
    /\ scan.pending => Guarded(scanTime)

\* A worker that waited for the mutex while its request was replaced never
\* fails the newer request before that request's own deadline.
NoEarlyTimeout ==
    [][/\ connTime.worker /\ ~connTime'.worker /\ conn.operation # Idle
          /\ conn'.operation = Idle
          => connTime.deadline = 0
       /\ scanTime.worker /\ ~scanTime'.worker /\ scan.pending
          /\ ~scan'.pending
          => scanTime.deadline = 0]_vars

\* No lost wakeup: a bridge that sleeps in poll() while it has not read a
\* pending request has been woken.
NoLostWakeup ==
    \A r \in Reader :
        reader[r].poll = "asleep" /\ Unread(r) => reader[r].woken

\* A bridge that has just opened the device is offered whatever is pending,
\* also after the request numbers have wrapped around.
NewReaderSeesPending ==
    \A r \in Reader :
        /\ scan.pending /\ reader[r].scan = 0 => Unread(r)
        /\ conn.operation # Idle /\ reader[r].connection = 0 => Unread(r)

\* The signal shown for the station was sampled from the access point the
\* guest is associated with now, not from one it has roamed away from.
SignalOfThisAP ==
    \A b \in BSSID : ShowsSignal(b) => signal.of = b

\* Between operations, and unless a link change and a lower event overlapped
\* (finish_connection and report_link against lower_event): the interface never
\* has carrier without a link; and while the lower device is running with no
\* carrier event of its own pending, it has carrier exactly when the guest is
\* connected and the lower device is present and has carrier.
CarrierTruth ==
    wiphy = "free" /\ ~LowerBusy /\ ~overlap =>
      /\ carrier => link.connected
      /\ lower.running /\ ~lower.linkwatch =>
           (carrier <=> link.connected /\ lower.present /\ lower.carrier)

\* The link is what the guest asked for, cfg80211 has been told exactly that,
\* and the signal it is shown is that of the link's access point.
LinkKept == CfgAgrees /\ LinkHonoursRequest /\ SignalOfThisAP

\* A pending request is never left to itself: its timeout is armed, a bridge
\* that opens the device is offered it, and one that sleeps is woken.
RequestGuarded == TimeoutArmed /\ NewReaderSeesPending /\ NoLostWakeup

\* linuxhost_wifi.c:129: ending a link stops "presenting a usable guest link".
NoCarrierWithoutLink ==
    wiphy = "free" /\ rtnl = "free" => (carrier => link.connected)
=============================================================================
