------------------------------ MODULE MCCamera ------------------------------
(* Instances of Camera for TLC. *)
EXTENDS Camera

Camera_(starts, frames, turns, late, resigns, ends) ==
  [starts |-> starts, frames |-> frames, turns |-> turns, late |-> late,
   resigns |-> resigns, ends |-> ends]

\* Two captures with a late call; a session change while frames move; the end
\* of a child; one capture with a late call.
CameraInstances ==
  {Camera_(2, 2, 1, 1, 0, 0), Camera_(1, 2, 2, 0, 1, 0),
   Camera_(1, 1, 2, 0, 0, 1), Camera_(1, 1, 2, 1, 0, 0)}

\* One capture, one change of demand and an end of the service.
OneStop == {Camera_(1, 1, 1, 0, 0, 1)}

CamFairSpec == CamSpec /\ CamFairness
=============================================================================
