---------------------------- MODULE MCWifiLive ----------------------------
(* Liveness of the Wi-Fi driver and of the bridge for TLC.  A behaviour     *)
(* either has a bridge that follows the Mac, or a driver that no bridge    *)
(* ever opens: "focus" says which.                                         *)
EXTENDS MCWifiBridge

VARIABLE focus

\* The driver alone, with more requests than the bridge's instance.
Alone == INSTANCE LinuxhostWifi WITH
           BSSID <- {a1}, Reader <- {}, ConnTicks <- 2, MaxConnections <- 3,
           MaxScans <- 2

LiveInit ==
  \/ focus = "bridge" /\ BridgeInit /\ LowerHasCarrier
  \/ focus = "driver" /\ Alone!Init /\ BridgeDown

LiveNext ==
  /\ UNCHANGED focus
  /\ \/ focus = "bridge" /\ BridgeNext
     \/ focus = "driver" /\ Alone!Next /\ UNCHANGED <<bridge, mac, bss, history>>

\* The fairness of the two specifications, each where it applies.
LiveFairness ==
  /\ WF_driverVars(focus = "driver" /\ Alone!Tick)
  /\ WF_driverVars(focus = "driver" /\ Alone!FireConnectionTimer)
  /\ WF_driverVars(focus = "driver" /\ Alone!FireScanTimer)
  /\ SF_driverVars(focus = "driver" /\ Alone!connection_timeout)
  /\ SF_driverVars(focus = "driver" /\ Alone!scan_timeout)
  /\ WF_driverVars(focus = "driver" /\ Alone!CancelWork)
  /\ WF_driverVars(focus = "driver" /\ Alone!DecideCarrier)
  /\ WF_driverVars(focus = "driver" /\ Alone!SetCarrier)
  /\ WF_coreVars(focus = "bridge" /\ BridgeStep)
  /\ SF_coreVars(focus = "bridge" /\ FollowTurn)
  /\ WF_coreVars(focus = "bridge" /\ ConfirmationDelay)
  /\ WF_coreVars(focus = "bridge" /\ ExecuteLate)
  /\ WF_coreVars(focus = "bridge" /\ DecideCarrier /\ UNCHANGED <<bridge, mac, bss>>)
  /\ WF_coreVars(focus = "bridge" /\ SetCarrier /\ UNCHANGED <<bridge, mac, bss>>)

LiveSpec == LiveInit /\ [][LiveNext]_<<bridgeVars, focus>> /\ LiveFairness

\* Every request ends, even if no bridge ever answers it: the driver's own
\* timeouts see to it.
RequestsEnd ==
  \A n \in RequestNumbers :
    /\ []<>(focus = "driver" => ~(conn.operation # Idle /\ conn.sequence = n))
    /\ []<>(focus = "driver" => ~(scan.pending /\ scan.sequence = n))

=============================================================================
