----------------------------- MODULE MCOtaFetch -----------------------------
(* OtaFetch with three timeout timers and two message ids. *)
EXTENDS OtaFetch

CONSTANTS m1, m2, w1, w2, w3

TwoMsgs     == {m1, m2}
ThreeTimers == {w1, w2, w3}
=============================================================================
