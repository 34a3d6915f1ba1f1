----------------------------- MODULE MCFireLive -----------------------------
(* FireControl itself with a single actuator, for safety and liveness. *)
EXTENDS FireControl

OneActuator == <<Water>>
NoDevice    == {}
=============================================================================
