-------------------------- MODULE MqttBudgetSingle --------------------------
(***************************************************************************)
(* MqttBudget implements TokenBucket when one task publishes and no budget *)
(* call goes without the lock.  A token is spent when the client accepts   *)
(* the message, which is before decrease_budget runs: the messages not yet *)
(* charged are taken off the budget.                                       *)
(***************************************************************************)
EXTENDS MqttBudget

TB == INSTANCE TokenBucket WITH
        Capacity  <- MaxBudget,
        Start     <- DefaultBudget,
        Burst     <- ReviveCount,
        tokens    <- budget - Cardinality(Charging),
        delivered <- sent

\* The publish path of esp_rmaker_mqtt.c, run by one task, is a token bucket.
ImplementsTokenBucket == TB!Spec
=============================================================================
