------------------------------ MODULE MCAudio -------------------------------
(* Instances of Audio for TLC. *)
EXTENDS Audio

CONSTANTS d1, d2  \* the output devices; d2 has no volume control

Audio_(there, guest, host, plugs, switches, deaths, lags, losses, quits) ==
  [there |-> there, guest |-> guest, host |-> host, plugs |-> plugs,
   switches |-> switches, deaths |-> deaths, lags |-> lags, losses |-> losses,
   quits |-> quits]

\* A choice of each user; two of the Mac's with a reconciliation that overtakes
\* the graph; two devices and a stop; a device that goes and comes; the session
\* switching away and back; a loopback's death; the status feed lost and back.
AudioInstances ==
  {Audio_({d1}, 1, 1, 0, 0, 0, 0, 0, 0), Audio_({d1}, 0, 2, 0, 0, 0, 1, 0, 0),
   Audio_({d1, d2}, 1, 0, 0, 0, 0, 0, 0, 1), Audio_({d1, d2}, 0, 0, 2, 0, 0, 0, 0, 0),
   Audio_({d1}, 0, 1, 0, 2, 0, 0, 0, 0), Audio_({d1}, 0, 0, 0, 0, 1, 0, 0, 0),
   Audio_({d1}, 0, 1, 0, 0, 0, 0, 2, 0)}

\* One change of level or default by each user.
BothUsers == {Audio_({d1}, 1, 1, 0, 0, 0, 0, 0, 0)}

AudFairSpec == AudSpec /\ AudFairness
=============================================================================
