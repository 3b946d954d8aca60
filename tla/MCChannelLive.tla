--------------------------- MODULE MCChannelLive ---------------------------
(* The radio synchronisation, and the liveness of the control channel, for *)
(* TLC.  A behaviour moves one of the two, the focus.                      *)
EXTENDS WifiPower

CONSTANTS Client, MaxClients, MaxWorkers, MaxQueue, MaxChannelFaults

VARIABLES broker, client, pending, toHost, toGuest, host, wire, completions,
          workers, served, faults, focus

Channel == INSTANCE ControlChannel WITH MaxFaults <- MaxChannelFaults

channelVars == <<broker, client, pending, toHost, toGuest, host, wire,
                 completions, workers, served, faults>>

LiveInit ==
  /\ focus \in {"channel", "power"}
  /\ Init /\ Channel!Init
  /\ focus = "channel" => soft = 0 /\ mac.powered /\ mac.active

LiveNext ==
  /\ UNCHANGED focus
  /\ \/ focus = "power" /\ Next /\ UNCHANGED channelVars
     \/ focus = "channel" /\ Channel!Next /\ UNCHANGED vars

\* The fairness of the two specifications, each where it applies.
LiveFairness ==
  /\ WF_vars(focus = "power" /\ read_radio) /\ WF_vars(focus = "power" /\ refresh)
  /\ WF_vars(focus = "power" /\ submit) /\ WF_vars(focus = "power" /\ status)
  /\ WF_vars(focus = "power" /\ finish) /\ WF_vars(focus = "power" /\ apply)
  /\ WF_vars(focus = "power" /\ retry) /\ WF_vars(focus = "power" /\ read_host)
  /\ WF_vars(focus = "power" /\ MacLate)
  /\ WF_channelVars(focus = "channel" /\ Channel!Start)
  /\ WF_channelVars(focus = "channel" /\ Channel!HelloExpires)
  /\ WF_channelVars(focus = "channel" /\ Channel!receive)
  /\ WF_channelVars(focus = "channel" /\ Channel!write)
  /\ WF_channelVars(focus = "channel" /\ Channel!HostReceive)
  /\ WF_channelVars(focus = "channel" /\ Channel!Transmit)
  /\ WF_channelVars(focus = "channel" /\ \E d \in completions : Channel!Completed(d))

LiveSpec == LiveInit /\ [][LiveNext]_<<vars, channelVars, focus>> /\ LiveFairness

\* Once faults stop, the broker stays up with an authenticated session: stale
\* frames that QEMU holds for the next incarnation cannot keep killing it.
Reestablished ==
  <>[](focus = "channel" => broker.running /\ broker.session # Channel!None)
=============================================================================
