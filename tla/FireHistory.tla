----------------------------- MODULE FireHistory ----------------------------
(***************************************************************************)
(* FireControl with history variables the code does not have: whether two  *)
(* handlers ever overlapped, whether the cloud ever wrote a device         *)
(* directly.  They let properties say what overlapping handlers break and  *)
(* what they do not.                                                       *)
(***************************************************************************)
EXTENDS FireControl

VARIABLES
  overlap,   \* two handlers have been in progress at once
  direct     \* the cloud has written a device other than the panel

Busy == {t \in Tasks : ~Idle(t)}

HInit == Init /\ overlap = FALSE /\ direct = FALSE

HNext ==
  /\ Next
  /\ overlap' = (overlap \/ \E t, u \in Busy' : t # u)
  /\ direct' = (direct \/ \E d \in CloudTargets \ {Panel}, v \in BOOLEAN :
                            todo'["cloud"] = CloudWrite(d, v))

hvars == <<vars, overlap, direct>>

HSpec == HInit /\ [][HNext]_hvars

-----------------------------------------------------------------------------
(* Properties *)

\* As long as no two handlers overlapped, every pin, flag and parameter agrees
\* whenever all handlers have finished, and the last alert tells the state.
AgreeUnlessOverlap ==
  ~overlap /\ AtRest =>
    /\ \A d \in Devices : On(d) = flag[d] /\ reported[d] = flag[d]
    /\ reported[Panel] = emergency /\ reported[Alert] = emergency

\* As long as no two handlers overlapped and the cloud wrote no device
\* directly, the fire actuators run exactly during an emergency.
ActuatorsFollowUnlessOverlap ==
  ~overlap /\ ~direct /\ AtRest => \A d \in FireSet : On(d) = emergency

\* "Operates water sprinklers and air extractors automatically": when every
\* handler has finished, an emergency has all its actuators running.
EmergencyRunsActuators ==
  AtRest /\ emergency => \A d \in FireSet : On(d)
=============================================================================
