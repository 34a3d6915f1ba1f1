---------------------------- MODULE MCMqttBudget ----------------------------
(* MqttBudget with three publishing tasks and a handful of credits. *)
EXTENDS MqttBudget, TLC

CONSTANTS t1, t2, t3

ThreeTasks == {t1, t2, t3}
TaskSymmetry == Permutations(ThreeTasks)
=============================================================================
