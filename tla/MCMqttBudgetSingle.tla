------------------------- MODULE MCMqttBudgetSingle -------------------------
(* One publishing task, for the refinement and the drop-when-empty promise. *)
EXTENDS MqttBudgetSingle

CONSTANTS t1

OneTask == {t1}
=============================================================================
