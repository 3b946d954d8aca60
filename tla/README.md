# Verification of Ashacky

Ashacky runs a Linux guest (QEMU with Apple's hypervisor) as the desktop of a
Mac. Small integrations join the two: the guest's Wi-Fi, Bluetooth, audio,
camera, security keys, trackpad, battery and power are those of the Mac. Each
integration keeps a little state on both sides and meets lost replies,
restarts and changes that nobody announced. This directory holds TLA+ models
of these protocols, TLC configurations that check small instances of them, and
TLAPS proofs of what matters most.

`PROJECT.json` lists the components, the runs, the mutants that show each
property can fail, the source lines of every definition, the hazards and the
theorems.

## Modules

| Module | Models | Source |
|---|---|---|
| `LinuxhostWifi` | the guest's cfg80211 driver | `guest/drivers/wifi/linuxhost_wifi.c` |
| `WifiBridge` | the root bridge and link follower, composed with the driver and the Mac | `guest/devices/wifi_bridge.py`, `wifi_link.py` |
| `WifiPower` | radio synchronisation: rfkill and the Mac's Wi-Fi power | `guest/devices/wifi_power.py`, `wifi_events.py` |
| `ControlChannel` | the private control channel, both ends and the port | `guest/libexec/ashacky-control`, `host/session/ControlChannel.swift`, parts of `host/frontend/main.m` |
| `RemoteCalls` | what the control channel promises its clients (abstract) | |
| `Session` | one VM session: supervisor, QEMU, launcher and app, armed power action, root helper | `host/session/session.py`, `user_services.py`, `host/control/Control.swift`, `host/frontend/Launcher.swift`, `helpers/power/PowerHelper.swift` |
| `Audio` | output selection and volume between PipeWire and the Mac | `guest/devices/audio_*.py`, `host/devices/AudioBackend.swift` |
| `Camera` | demand, stream, shared memory, capture | `guest/devices/camera_*.py`, `host/devices/Camera*.swift`, `host/common/CameraMemory.c` |
| `Trackpad` | touch frames and the ownership of the pointer | `guest/input/trackpad.py`, parts of `host/frontend/main.m` |
| `Battery` | status file, feed and driver | `guest/drivers/battery/feed.py`, `linuxhost_battery.c` |
| `ScanPages` | scans read in pages from bounded snapshots | `guest/devices/wifi_scan.py`, `host/devices/WiFiBackend.swift` |
| `Sidecar` | requests, each with a child process | `host/devices/SidecarService.swift` |
| `Fido2` | CTAPHID channels, ceremonies, the Mac's transaction | `guest/auth/fido2.py`, `host/auth/FIDO2Service.swift` |
| `Bluetooth` | the stand-in for BlueZ, its operations, rfkill | `guest/devices/bluetooth_*.py`, `device_service.py`, `host/devices/BluetoothService.swift`, `linuxhost_bt_rfkill.c` |
| `Sources` | preparing a patched source tree, by several builds | `tools/sources.py` |
| `WifiBridge_proofs` | theorems about `LinuxhostWifi` and `WifiBridge` | |
| `ChannelSteps_proofs`, `ChannelCalls_proofs`, `ControlChannel_proofs` | theorems about `ControlChannel` and its refinement of `RemoteCalls` | |
| `Services_proofs` | theorems about `Session`, `Sources`, `WifiPower`, `Trackpad` | |
| `Devices_proofs` | theorems about `ScanPages`, `Sidecar`, `Battery`, `Audio` | |
| `Camera_proofs` | theorems about `Camera` | |
| `Peripherals_proofs` | theorems about `Fido2` and `Bluetooth` | |
| `MC*` | instances for TLC | |

`WifiBridge` extends `LinuxhostWifi`: the bridge's ioctls are the driver's
actions, taken jointly. `ControlChannel` is shown to implement `RemoteCalls`.
In the running system the bridge and the radio service make their calls
through the control channel; `RemoteCalls` is the interface between the
models: a call that fails may or may not have been executed and may still be
executed later, and this is how the bridge's and the radio service's models
treat their calls to the Mac.

## The models

### Kernel driver (`LinuxhostWifi`)

State: the pending connection request (`conn`, `connection_sequence`), the
pending scan (`scan`), the two delayed works with their deadlines
(`connTime`, `scanTime`), the link (`link`), the signal sample (`signal`), one
cursor and poll state per open file (`reader`), the carrier, both locks and the
lower device. `cfg` is what cfg80211 has been told, `asked` what it asked for.

Every cfg80211 operation, ioctl, poll step, timeout worker, `stop_device` step
and lower-device event is an action. What runs under the wiphy mutex is one
step up to the points where it touches the carrier; notifications of the lower
device run under RTNL only and interleave with it, so a read and a write of
the carrier are separate steps. `stop_device` takes both locks and cancels the
works after it has released the mutex. Waiting for running readers
(`synchronize_net`) is over-approximated: nothing is assumed of it.

Data: networks and access points are model values; the information elements of
a scan record are the security class that `compatible_security` computes.
Request numbers keep their wrap-around (`SeqMod` for 2^32). Time is in ticks;
a timer may fire late but not early, and its worker may wait for the mutex.

Any process that holds the device open may issue any ioctl with any argument:
the driver's properties do not rest on a correct bridge.

### Bridge (`WifiBridge`)

`bridge` holds the program counter and locals of the single thread of
`wifi_bridge.py`: the serve loop, `handle_connection`, and `LinkFollower`.
Each call to the Mac is a step; between two steps the kernel may cancel or
replace the request, the Mac may roam or leave, and the bridge may die and be
restarted by systemd. `mac` is the Mac's association with the calls it has yet
to execute, `bss` the records cfg80211 knows, `history` is for the properties.

Assumption: `WiFiService` serves one connection at a time, in order
(`queue.sync`, and the serial accept loop of `IPC.swift`). A reply therefore
means that every earlier call, also one the bridge gave up on, has been
executed. `cfg80211_inform_bss` can refuse a record for reasons outside the
model (channel, memory): that refusal is a nondeterministic failure. The lower
device's events are left out of the composition, because the bridge reads
nothing of them; the runs keep its carrier on (`LowerHasCarrier`).

### Radio synchronisation (`WifiPower`)

`soft` is the kernel's switch, `queue` the unread rfkill events, `radio` the
`RadioIntent`, `loop` the main loop's flags and timers, `work` the worker's
turn. The worker's two calls are steps of their own. `finish` is split where it
writes the switch: it reads the queued events, then writes, and another process
may flip the switch in between. A failed power call has been executed, will be
executed late, or never. The status file's revision and session flag are the
key of `wifi_events.py`; losing the status for 25 seconds makes the key unknown,
which the service treats as active.

### Control channel (`ControlChannel`, `RemoteCalls`)

`broker`, `client` and `pending` are the guest process; `host`, `wire`,
`completions` and `workers` the host's engine, its port and its workers;
`toHost` and `toGuest` the two directions of the port. The port's open and
close events travel in `toHost` in order with the data. Frames written while
the guest has the port closed may be held and delivered to the next process
that opens it (any suffix survives). Call identifiers restart at 1 in every
broker; workers of closed generations run on and report late.

Faults are counted (`MaxFaults`): a crash or stall of the broker, a failed
write, a lost SPICE connection, and a host slower than the guest's 3 second
restart or 10 second handshake. Without a fault the host handles what is in
flight before the broker starts again. Session UUIDs and nonces are
numbered in the order in which they are drawn: none is drawn twice. The token comparison is not modelled: both ends hold the same token. Frames are
whole, and an invalid one has the effect of `fail` or of the broker's exit.

One detail carries the convergence of the handshake: a turn of the broker's loop
reads the port before it writes. A broker that is killed by a stale frame
has not yet sent its hello, so it leaves no stale welcome for its successor.

### Session and power (`Session`)

`sup` is the supervisor: where it stands between the network interfaces and the
reaping of its children, the STOP flag and the 60-second deadline. `qemu` holds
QEMU's state and the QMP events nobody has read; `service` the children of
`UserServices`; `app` the launcher's view of the app and its pending action,
`power` an action on its way through the helper. `acts` is history: which
actions were executed or withdrawn. A turn of the loop is one step from
`select` to `select`; QEMU, the app, the guest, signals and timers act between
any two. The action is armed by the guest, withdrawn by its 120 seconds, a
session switch or the end of the app, and handed on after `vm-stopped`.

### Audio (`Audio`)

`mac` and `pw` are the devices, defaults and levels of both sides, `bridge` and
`master` the state of `AudioBridge` and `OutputVolume`, `graph` what PipeWire's
monitor has told. PipeWire answers asynchronously: a new default lands later, a
node appears later, and an event may be read after a reconciliation has begun
(`overtaken` counts this). Levels are 1 and 2, and PipeWire's are their cubes, so
taking one scale for the other shows. Only output is modelled; input follows the
same code without a volume.

### Camera (`Camera`)

`demand` is the guest's service with its stream, `buffer` and `camera` the Mac's
frames, leases, capture and serial queue. `slots` is the shared memory as the
guest sees it, `stores` what the host has stored and the guest cannot yet see:
stores that no release orders become visible in any order; a slot's generation
and its pixels are stored apart. The guest's copy is a
check of the slot's number, a copy and a second check, so it can meet new pixels
under an old number. Python's `Event` is modelled with its lock, because a signal
handler in the thread that holds the lock waits for itself (see Findings).

### Trackpad, battery, scans, Sidecar

`Trackpad`: the serve loop with its buffers, the slots of the touchpad, and the
frontend's `applied` and `ready`. Time is in half seconds. `Battery`: the inotify
watch with its directory, the read with its age limit, the driver's watchdog;
time in units of five seconds. `ScanPages`: a network is its scan and its place
in it, so mixed or skipped pages show. `Sidecar`: what runs on the main queue is
one step; a child's output is read on a global queue and its result queued.

### FIDO2 (`Fido2`)

`relay` holds channels, the message under assembly, the one ceremony and the open
connections; `core` the Mac's transaction with its revocations. Every request
and cancellation is a connection of its own, so they overtake each other. What an
authenticator computes is abstracted to approval or status. Keepalives and error
reports change no state.

### Bluetooth (`Bluetooth`)

`bz` is the guest's stand-in for BlueZ: what it shows, its worker and refreshes,
timers and agents. `clients` are the two parties that run operations: BlueZ's
`Device1` methods and the local service. `service` and `host` are the Mac's
operation, pairing attempt and scan, `rfkill` the driver with its expiry. One
device is modelled. An operation's number also names its pairing code.

### Sources (`Sources`)

Each build computes the identity of its inputs, looks at the receipt, fetches or
reuses the archive, extracts and patches in a directory of its own, and renames.
A developer edits in between; a build may be killed at any step.

## What the runs check

| Run | Shows |
|---|---|
| `driver_safety` | cfg80211's view, the guest's request, the link and the signal agree (`LinkKept`); no request loses its timeout or is missed by a sleeping or new reader (`RequestGuarded`), or is timed out early (`NoEarlyTimeout`); the carrier is that of link and lower device, outside one race (`CarrierTruth`) |
| `bridge_safety` | a link the guest sees was real and is known to cfg80211 (`LinkReal`), and ends only when the Mac left it (`NoFalseLoss`); no request is performed twice (`HandledOnce`), an acknowledged disconnect is not undone by an older connect (`ConfirmedDisconnect`), and only complete scans are reported as finished (`ScanComplete`) |
| `bridge_requests` | `LinkReal` with two requests, a failure and a move of the Mac in any order |
| `control_calls` | the channel implements `RemoteCalls` (`ImplementsCalls`); worker budget and write queue are exact across reconnects (`LimitsKept`); no call is forgotten (`NoCallForgotten`) |
| `wifi_live` | every request of the guest ends without any bridge (`RequestsEnd`); a lasting loss on the Mac reaches the guest (`LossReported`) |
| `channel_live` | radio: no choice is submitted twice and no write of the service's own is taken for one (`ChoicesSubmittedOnce`), no older reply overrides a newer choice (`NewerChoiceKept`), switch and Mac agree in the end (`Converges`); control channel: the handshake converges after the last fault (`Reestablished`) |
| `devices` | session: an action leaves the app only after the guest's own shutdown and is not executed once withdrawn (`PowerAfterCleanStop`), nothing is left running or signalled astray (`EndsItsOwn`), a stop ends the session (`SessionEnds`); audio: only a user's level reaches the Mac unless an event came late (`EchoNeedsLateEvent`), the guest comes to the Mac's state (`AudioFollows`); camera: frames are whole and black is shown between streams (`FrameShown`), a stop ends its own capture only (`StopsItsOwn`), the camera follows its readers (`CameraFollows`); trackpad: slots are exclusive and released in time (`ContactsKept`), the pointer is given up only to a working touchpad (`PointerNeedsApplied`); battery (`BatteryShown`), scans (`ScansApart`), Sidecar (`HelpersApart`) |
| `services` | FIDO2: one final answer per ceremony, and only its own approval (`AnsweredForItself`), none after a revocation (`RevokedNotApproved`), a running ceremony keeps its connection and channel (`CeremonyKept`), ceremonies and prompts end (`CeremoniesEnd`); Bluetooth: one party per operation, the code confirmed is the code shown, outcomes are true (`OperationsApart`), operations end (`OperationEnds`), guest and rfkill come to the Mac's state or none (`BluetoothFollows`); sources (`BuildsFromItsInputs`) |
| `driver_race`, `session_stop`, `camera_stop`, `audio_deadline` | violations, see Findings |

The components of `devices`, and those of `services`, share no state. A
behaviour of these runs moves one of them, the `focus`, so that TLC explores
the sum of their state spaces and not the product. The same holds for
`channel_live` and `wifi_live`.

### Bounds

- Driver: two access points tell "the right one" from "a wrong one"; two
  requests or scans let a stale worker meet the next one. `SeqMod` is small and
  the first request number is just below the wrap, so wrap-around happens. Scans,
  lower-device events and a second connection request are explored apart
  (`OneDisturbance`): together they exceed a few minutes, and the theorems below
  hold without any of these bounds.
- Bridge: two access points of one network (a roam), two requests (an older
  answer and a newer request), two scans, one failure, one move of the Mac, one
  crash. Scans are explored without connection requests. One request meets every
  combination of crash, failure and move; two requests meet a crash or a failure
  (`OneDisturbance`). `bridge_requests` has two requests with a failure and a
  move: the mutant that answers the newer request with the older one's
  result survives `bridge_safety` and is caught here.
- Radio: two flips fit into one window between the service's read and its write;
  one change on the Mac, one of the session, one fault.
- Control channel: two calls with the same identifier in two sessions need two
  clients and one fault; a third client finds both workers busy and both
  connections taken. A second fault, during the recovery from the first, is
  explored for two clients (`TwoFaultsTwoCalls`).
- Session, audio, camera, FIDO2 and Bluetooth have *budgets*: a record of how
  often each event may still happen. An instance is a set of budgets
  (`SessionInstances`, `AudioInstances`, `CameraInstances`, `FidoInstances`,
  `BtInstances`), each an encounter of two or three events that race: an armed
  action with an end and a death, two captures with a late call, two
  ceremonies with a lost connection, an operation of each client with an agent.
  Restarts are allowed once more than the code retries (`MaxDisplayRetries`).
- Trackpad: three fingers for two slots, two frames, one end of the port, so that
  a frame can replace every contact. Battery: two files and one removal of the
  directory. Scans: two readers, four scans for two snapshots, sizes around
  the page of two. Sidecar: three requests, so that a late block of the first
  meets the third. FIDO2: two channels kept of three. Sources: two builds, two
  edits, one kill.

Symmetry (of access points, of clients) is used in safety runs only. Deadlock is
not checked in runs where users and clients may stop asking and the system rests:
the control channel, the radio, `devices` and `services`.

### Fairness

Every fairness condition is the running of a loop, a timer or a worker that the
code or systemd keeps running; none makes a user, a client or a fault act.

- Driver: timers fire, workers get the mutex (strongly fair: the mutex is
  released again and again), lock holders go on. Nothing is assumed of any
  bridge.
- Bridge: its thread runs, its calls return (they have timeouts) and its follow
  deadline comes again and again (strongly fair).
- Radio and control channel: event loops turn, calls return, the latest status is
  delivered, the port moves data, systemd restarts the broker.
- Session: the supervisor's loop turns, deadlines pass, a QEMU that was told to
  end ends (it is killed), the launcher sees the app's exit. The guest need not
  shut down.
- Audio: the event loop serves its sources, timers and retries; PipeWire carries
  out what it accepted.
- Camera: the guest's thread and the Mac's queue run, a stalled read ends, leases
  expire, notifications arrive.
- FIDO2: the relay's loop and timeouts; the Mac's deadline; a cancelled
  authenticator returns. No reply, cancellation or user is assumed.
- Bluetooth: the framework ends what it was told to do or its deadline passes, the
  service publishes changes, the guest's main loop and worker run, the driver's
  timer fires, D-Bus reports that a peer left.

## What is proved

All theorems hold for every value of the constants that the named assumptions
allow: any number of nodes, requests and faults, any timeout and bound.

Budgets and counts of events, where a model has them, are constants as well; a
theorem does not depend on their size. Every safety invariant and action property
that a run checks of the code is a theorem, except the four of the runs under
Findings, which are false.

### The driver and the bridge (`WifiBridge_proofs`)

Of the driver, from `ConstantsAssumption` (request numbers of more than one value,
positive timeouts):

- `TypeCorrect`: the type invariant, by a step lemma per action.
- `LinkContract`: `LinkKept`. It is not inductive: a pending request must already
  agree with what cfg80211 asked, so that the link it becomes does
  (`ContractInv`), and a sample must belong to the current access point whenever
  it is valid (`SignalInv`).
- `RequestsGuarded`: `RequestGuarded`, from the facts that timers never outlast
  deadlines and pending requests have non-zero numbers (`RequestInv`), and
  from `NoLostWakeup`, which is inductive with the types.
- `TimeoutNeverEarly`: the action property `NoEarlyTimeout`.
- `CarrierFollowsLink`: `CarrierTruth`, from an invariant over the lock holders'
  pending carrier writes (`CarrierInv`).

Of the composition, also from `BridgeAssumption` (the value for "not associated" is
no association):

- `BridgeImplementsDriver`: `BridgeSpec => Spec`. Every step of bridge and Mac is
  a step of the driver or leaves it alone; this needs the types of the bridge's
  locals (the numbers and addresses it passes are within range) and that the
  composition never holds RTNL for the lower device.
- `BridgeKeepsContract`: hence `LinkKept`, `RequestGuarded` and `CarrierTruth`
  hold of the composition.
- `DisconnectStaysConfirmed`: `ConfirmedDisconnect`. Inductive once one knows that
  every call the Mac has yet to execute is a disconnect (`QuietInv`): the reply
  that confirmed the disconnect came after all earlier calls.
- `FinishedScansComplete`: the action property `ScanComplete`; what was found and
  is not to be written any more has been written (`WrittenInv`).
- `LossesAreReal`: the action property `NoFalseLoss`. While `LinkFollower` looks at
  its snapshot the guest's link is that of the snapshot or over, and when it is
  about to take the link down the Mac has been off it (`LossInv`).
- `LinkStaysReal` and `RequestsHandledOnce`: `LinkReal` and `HandledOnce`, under
  `NumbersLast`: the guest makes fewer requests than there are request numbers
  (2^32 in the code). Without it they are false: a number that has come round is
  taken for the old request of the same number. `TruthInv` measures a request's
  number by its age, the requests made since. What the bridge serves is younger than
  what it answered last; if it is still pending it is the kernel's request itself,
  and then the association verified for it is one the Mac has visited since.

### The control channel (`ChannelSteps_proofs`, `ChannelCalls_proofs`, `ControlChannel_proofs`)

From `ControlAssumption` (finitely many clients, a write queue that is not empty of
places):

- `Limits`: `LimitsKept`; `CallsRemembered`: `NoCallForgotten`.
- `Implements`: the refinement `ImplementsCalls`. Every step of the channel is a step
  of `RemoteCalls` or a stutter, under the mapping `CallOf` of `ControlChannel`.

All three rest on one invariant (`Inv`). What can go wrong is a message of one
session that is taken for one of another, so most of it says where a session's
number may occur: nothing bears the number of a session that has not been drawn
(`Ages`), a session is offered to one broker and nothing belongs to it before
(`Offers`), the port's open event finds the engine closed (`Events`), and within
the broker's session an identifier names one call, from request to response
(`Matched`). `Writes` and `Budget` make the counts exact, `Remembered` says where a
call is that the broker waits for. The actions fall into kinds of steps
(`ChannelSteps_proofs`), and each conjunct is shown for each kind. Identifiers do not
run out because a client that has not called leaves room for its own (`HasRoom`).

### Session, sources, radio and trackpad (`Services_proofs`)

- `PowerOnlyAfterCleanStop`: `PowerAfterCleanStop`. `StopInv` follows the guest's
  shutdown from QEMU through the unread events to the supervisor and the app;
  `ActsInv` says that each action is in one place: pending in a running app,
  on its way, executed or withdrawn.
- `SessionEndsItsOwn`: `EndsItsOwn`, with `EndsInv`: a reaped service has had its
  group signalled, and nothing was signalled later.
- `PreparedFromInputs`: `BuildsFromItsInputs`, from what each build knows of its
  inputs (`BuildInv`) and what the tree's receipt says of the tree.
- `ChoicesGoOnce`: `ChoicesSubmittedOnce`, and `NewerChoiceWins`: the action property
  `NewerChoiceKept`. In `PowInv` a choice that is pending or about to be submitted is
  newer than all submitted ones, or is the one of this turn (`NotYet`); and the
  service's own event, while unread, is the next one and says what the service
  already knows, unless its write raced with a user's (`Echoes`). Reading the
  whole queue is a fold; what it does to a choice is shown by induction over the
  number of events read.
- `ContactsStayKept`: `ContactsKept`, and `PointerAfterApplied`:
  `PointerNeedsApplied`, for any finite set of fingers. Contacts have slots of their
  own, whatever a frame releases, moves and adds; the loop's clock runs no slower
  than that of the contacts it holds; and a reply that frames are applied is on its
  way or believed only after one was (`PadInv`).

### Scans, Sidecar, battery and audio (`Devices_proofs`)

- `ScansStayApart`: `ScansApart`. A reader holds the first networks of one scan
  (`ReaderHolds`); a scan that is not kept is 60 seconds old or was followed by as
  many as are kept (`KeptInv`), because the eviction takes the oldest.
- `HelpersStayApart`: `HelpersApart`. Every closed request has been answered by its
  own child, and the open request's child does not run once its result is queued
  (`SideInv`).
- `BatteryStaysTrue`: `BatteryShown`. The watch is installed before the first read
  (`WatchFirst`), and what is shown is older than the last write by at most the
  age a file may have (`AgeBound`).
- `EchoesAreLate`: `EchoNeedsLateEvent`, for any finite set of audio devices. `AudInv`
  has two parts. Always, the monitor's graph becomes PipeWire's nodes once the
  events on their way are read (`Piped`), and no node number is used again
  (`Numbers`). And as long as no event was overtaken (`Honest`), a node that no user
  has changed is at the level that the bridge holds for synchronised, in PipeWire
  and, while a reconciliation runs, in the graph, from which only users have changed
  nodes meanwhile. So a level that differs is a user's.

### Camera (`Camera_proofs`)

- `FramesStayWhole`: `FrameShown`. `CamInv` follows a frame from the host's buffer
  through the lease to the guest's copy. Of the guest's requests one is waited for,
  and once a stream runs no older request names it (`Talk`). What is left of a
  former capture is being wiped (`Memory`). The frame the guest was given is leased
  as long as the capture lasts; afterwards its slot loses the stream's mark before
  other pixels can be seen under it, in whatever order stores become visible
  (`Leased`).
- `StopsEndTheirOwn`: the action property `StopsItsOwn`, from the same invariant.

### FIDO2 and Bluetooth (`Peripherals_proofs`)

From `FidoAssumption`:

- `CeremoniesAnswered`: `AnsweredForItself`. `RelayOK` adds that the running
  ceremony is an accepted one on its own channel and that no later number has an
  answer. Every function of the relay's state (`complete`, `rpc`, `abort`,
  `finish`, `timeout`, `Expire`) has a lemma that it keeps this and makes no
  approval (`Proceeds`); an action is a composition of them.
- `RevokedStaysUnapproved`: `RevokedNotApproved`. An approval leaves the Mac only
  with the end of a transaction that was not revoked, so neither a reply that
  waits on a connection nor an answer in the log belongs to a revoked one
  (`CoreOK`); a request still on its way has neither been answered nor revoked
  (`WireOK`).
- `CeremoniesStayKept`: `CeremonyKept`. The relay's list of channels holds each
  once and no more than it may (`Kept`); the eviction takes the first that is
  neither busy nor under assembly, and there is one because two places are
  enough for both.

Of Bluetooth, `OperationsStayApart`: `OperationsApart`. One operation is under way, a
pairing or a connection, and bears the number of its attempt (`ServiceOwned`); what
a client is about to confirm was approved, and what it reports as done was done
(`ClientHonest`).

### How data is reasoned about

The library's induction theorems take an operator as a parameter, which the
provers cannot instantiate. Where an argument goes by induction (a fold over the
radio's events, the sorted order of a set of devices or fingers, the length of a
list without an element) it uses the least element of a set of counterexamples:
well-foundedness of the naturals is stated for sets, and a set can be given.

Only model-checked: all liveness (`RequestsEnd`, `LossReported`, `Converges`,
`Reestablished`, `SessionEnds`, `AudioFollows`, `CameraFollows`, `CeremoniesEnd`,
`OperationEnds`, `BluetoothFollows`), which is out of the prover's reach, as is
`ENABLED`.


## Findings

Four runs show that the code does not do what a comment or a document of the
repository says. Each is a race that needs an unlucky moment.

- `driver_race`. `lower_event` (`linuxhost_wifi.c:543`) decides the carrier from
  `connected` under RTNL while the end of a link runs under the wiphy mutex. A
  notification that saw the link can set the carrier after the link has ended,
  and the interface keeps carrier without a link until the next event. The
  comment at line 129 says of that code "stop presenting a usable guest link".
  `CarrierTruth` and its proof show that without such an overlap the interface
  never has carrier without a link between operations.
- `session_stop`. The supervisor's loop ends as soon as `qemu.poll()` reports the
  exit (`session.py:153`); events still unread in the QMP socket are never read.
  If QEMU exits between the last read and the test, a clean shutdown counts as
  none and the armed action is not performed, though `docs/ARCHITECTURE.md:65`
  says "A clean QMP guest shutdown completes an armed host power/restart/logout
  action."
- `camera_stop`. The signal handler of `camera_demand.py:23` sets an `Event`. The
  main thread may hold that event's lock, which is not reentrant, and the handler
  runs in the main thread: it waits for itself. `docs/DEVELOPMENT.md:201` says
  "Idle waits must not prevent shutdown or leave capture running when demand
  tracking fails."
- `audio_deadline`. `later` (`audio_events.py:136`) ignores a name that is armed.
  The deadline of a second volume write within 2.1 seconds of the first has no
  timer; if its acknowledgement never comes, because the user has restored the
  former level, nothing retries. `docs/ARCHITECTURE.md:96` says "a missing
  acknowledgement retries the display update instead of writing an old level back
  to macOS." `AudioFollows` holds because it excepts exactly these writes.

Smaller observations, without a document that says otherwise:

- `bluetooth_bluez.py:280` stamps a state with the revision that is current when
  the reply is applied, not when it was read. The newer revision has asked for
  another refresh, which corrects it (`BluetoothFollows`).
- An audio bridge that crashed leaves the configured default naming one of its
  nodes; its successor takes that for the user's original choice.
- `linuxhost-agent:134` answers before `systemctl poweroff` runs. If that fails,
  the action stays armed until its 120 seconds pass.
- Closing the Bluetooth service waits for its worker, up to 75 seconds.
- QEMU may crash after it has reported the guest's shutdown; the armed action is
  still performed, and `PowerAfterCleanStop` allows that.

## Not modelled

- *Status channel and guest agent*: a stateless relay that replaces one file
  atomically and forwards single requests. The file is part of `Battery`,
  `Bluetooth`, `WifiPower` and `Audio`, where its readers are.
- *PAM module*: one blocking exchange, with no state that could interleave.
- *Display layout*: a pure function that scales and rounds floating-point sizes,
  which TLA+ does not have.
- *Host services*: start order, permissions and one key derivation; no state
  that changes afterwards.
- *Video decoding, USB helper, shared-memory device*: plumbing between external
  drivers; the order of their operations is that of the drivers' own fences.
- *Frontend*: AppKit, Metal and SPICE glue, apart from the ports and processes
  modelled in `ControlChannel`, `Trackpad` and `Session`.
- *Build and installation tools* other than `sources.py`: sequential programs run
  by hand, which run commands and copy files.
- Within modelled components: the contents of frames, packets and D-Bus objects;
  cryptography, tokens and permissions; CoreWLAN, IOBluetooth, AVFoundation,
  PipeWire and cfg80211 beyond what the code uses of them. `PROJECT.json` says
  for each component what is left out.
