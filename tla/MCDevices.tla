----------------------------- MODULE MCDevices -----------------------------
(* The session, audio, camera, trackpad, battery, Wi-Fi scan and Sidecar   *)
(* components for TLC.  They share no state, so each behaviour moves one    *)
(* of them, the focus, and leaves the others as they start: TLC explores   *)
(* the sum of the seven, not their product.                                *)
EXTENDS MCSession, MCAudio, MCCamera, Trackpad, Battery, ScanPages, Sidecar

VARIABLE focus    \* the component that moves

\* Only the focused component has a budget to choose.
Only(part, left, budgets) == focus # part => left = CHOOSE b \in budgets : TRUE

DevInit ==
  /\ focus \in {"session", "audio", "camera", "pad", "battery", "scan", "sidecar"}
  /\ SessInit /\ Only("session", sessLeft, SessionBudgets)
  /\ AudInit /\ Only("audio", audLeft, AudioBudgets)
  /\ CamInit /\ Only("camera", camLeft, CameraBudgets)
  /\ PadInit /\ BatInit /\ ScanInit /\ SideInit

DevNext ==
  /\ UNCHANGED focus
  /\ \/ /\ focus = "session" /\ SessNext
        /\ UNCHANGED <<audVars, camVars, padVars, batVars, scanVars, sideVars>>
     \/ /\ focus = "audio" /\ AudNext
        /\ UNCHANGED <<sessVars, camVars, padVars, batVars, scanVars, sideVars>>
     \/ /\ focus = "camera" /\ CamNext
        /\ UNCHANGED <<sessVars, audVars, padVars, batVars, scanVars, sideVars>>
     \/ /\ focus = "pad" /\ PadNext
        /\ UNCHANGED <<sessVars, audVars, camVars, batVars, scanVars, sideVars>>
     \/ /\ focus = "battery" /\ BatNext
        /\ UNCHANGED <<sessVars, audVars, camVars, padVars, scanVars, sideVars>>
     \/ /\ focus = "scan" /\ ScanNext
        /\ UNCHANGED <<sessVars, audVars, camVars, padVars, batVars, sideVars>>
     \/ /\ focus = "sidecar" /\ SideNext
        /\ UNCHANGED <<sessVars, audVars, camVars, padVars, batVars, scanVars>>

devVars == <<sessVars, audVars, camVars, padVars, batVars, scanVars, sideVars, focus>>

\* The fairness of each component, while it is the one that moves.
DevFairness ==
  /\ WF_sessVars(focus = "session" /\ SupStep)
  /\ WF_sessVars(focus = "session" /\ DeadlinePasses)
  /\ WF_sessVars(focus = "session" /\ QemuExit)
  /\ WF_sessVars(focus = "session" /\ applicationExited)
  /\ WF_sessVars(focus = "session" /\ PowerTimer)
  /\ WF_audVars(focus = "audio" /\ Sources)
  /\ WF_audVars(focus = "audio" /\ Reconcile)
  /\ WF_audVars(focus = "audio" /\ Retries)
  /\ WF_audVars(focus = "audio" /\ Deadlines)
  /\ WF_audVars(focus = "audio" /\ NodeAppears)
  /\ WF_audVars(focus = "audio" /\ DefaultLands)
  /\ WF_camVars(focus = "camera" /\ GuestStep)
  /\ WF_camVars(focus = "camera" /\ HostStep)
  /\ WF_camVars(focus = "camera" /\ NextStalled)
  /\ WF_camVars(focus = "camera" /\ LeaseExpires)
  /\ WF_camVars(focus = "camera" /\ Notify /\ GuestOnly)

DevSpec == DevInit /\ [][DevNext]_devVars /\ DevFairness

\* Once both users leave it alone, the guest shows the Mac's default output
\* at the Mac's level, whatever was lost, overtaken or restarted on the way;
\* except that a write which no deadline guards may be waited for until
\* something else happens.
AudioFollows == []<>(focus = "audio" => Settled)

=============================================================================
