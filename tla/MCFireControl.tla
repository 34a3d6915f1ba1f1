---------------------------- MODULE MCFireControl ---------------------------
(* FireHistory with two actuators, one of them the fan app_main.c drives last. *)
EXTENDS FireHistory

TwoActuators == <<Water, Fan>>

NoDevice   == {}
AllTargets == Devices \cup {Panel}

\* Overlap is permanent: what the runs check of it is decided when it begins.
NoOverlapYet == ~overlap
=============================================================================
