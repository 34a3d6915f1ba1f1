---------------------------- MODULE TokenBucket -----------------------------
(***************************************************************************)
(* What a message budget promises, whatever holds it: a message leaves the *)
(* node only by taking a token, and tokens come back a few at a time up to *)
(* the capacity.  MqttBudgetSingle shows that the budget of the MQTT layer *)
(* is one when a single task publishes and every lock is obtained; with    *)
(* several publishing tasks it is not, and RateBound of MqttBudget holds.  *)
(***************************************************************************)
EXTENDS Naturals

CONSTANTS Capacity, Start, Burst

VARIABLES tokens, delivered

Init == tokens = Start /\ delivered = 0

Deliver ==
  /\ tokens > 0
  /\ tokens' = tokens - 1
  /\ delivered' = delivered + 1

Refill ==
  /\ \E k \in 0..Burst : tokens' = tokens + k
  /\ tokens' <= Capacity
  /\ UNCHANGED delivered

Next == Deliver \/ Refill

Spec == Init /\ [][Next]_<<tokens, delivered>>
=============================================================================
