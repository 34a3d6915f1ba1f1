--------------------------- MODULE MCUserMapping ----------------------------
(* UserMapping with two users who may claim the node in turn. *)
EXTENDS UserMapping

CONSTANTS u1, u2, m1, m2

TwoUsers == {u1, u2}
TwoMsgs  == {m1, m2}
=============================================================================
