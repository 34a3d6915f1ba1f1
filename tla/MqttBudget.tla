----------------------------- MODULE MqttBudget -----------------------------
(***************************************************************************)
(* The credit budget that limits how many MQTT messages the node sends,    *)
(* and the publish path that consults it.                                  *)
(*                                                                         *)
(*   src/components/esp_rainmaker/src/mqtt/esp_rmaker_mqtt_budget.c        *)
(*   src/components/esp_rainmaker/src/mqtt/esp_rmaker_mqtt.c               *)
(*                                                                         *)
(* esp_rmaker_mqtt_publish asks esp_rmaker_mqtt_is_budget_available, hands *)
(* the message to the MQTT client and then calls                           *)
(* esp_rmaker_mqtt_decrease_budget.  Each of the two budget calls holds    *)
(* mqtt_budget_lock on its own, nothing holds it across the three, so      *)
(* publishing tasks interleave between them.  A lock-protected section is  *)
(* one step here; giving up on the lock after 500 ms, or finding no lock,  *)
(* is a step of its own.                                                   *)
(***************************************************************************)
EXTENDS Integers, FiniteSets

CONSTANTS
  Tasks,          \* the tasks that publish
  DefaultBudget,  \* CONFIG_ESP_RMAKER_MQTT_DEFAULT_BUDGET
  MaxBudget,      \* CONFIG_ESP_RMAKER_MQTT_MAX_BUDGET
  ReviveCount,    \* CONFIG_ESP_RMAKER_MQTT_BUDGET_REVIVE_COUNT
  MaxGranted,     \* bound: credits the revive timer may add in a behaviour
  MaxWaived       \* bound: budget calls that may go without the lock

ASSUME BudgetAssumption ==
  /\ IsFiniteSet(Tasks) /\ Tasks # {}
  /\ DefaultBudget \in Nat /\ MaxBudget \in Nat /\ ReviveCount \in Nat
  /\ DefaultBudget <= MaxBudget
  /\ MaxGranted \in Nat /\ MaxWaived \in Nat

VARIABLES
  lock,     \* mqtt_budget_lock has been created
  timer,    \* mqtt_budget_timer: not created, stopped or running
  budget,   \* mqtt_budget
  pc,       \* where each task is in esp_rmaker_mqtt_publish
  sent,     \* history: messages the MQTT client accepted
  granted,  \* history: credits added by the revive timer
  waived    \* history: checks passed and charges skipped without the lock

vars == <<lock, timer, budget, pc, sent, granted, waived>>

-----------------------------------------------------------------------------
Min2(a, b) == IF a <= b THEN a ELSE b

\* Tasks between the check and the hand-over, and between it and the charge.
Publishing == {t \in Tasks : pc[t] = "publish"}
Charging   == {t \in Tasks : pc[t] = "charge"}

\* Credits spent so far: those the node started with and those revived, less
\* those left.
Consumed == DefaultBudget + granted - budget

Goto(t, from, to) == pc[t] = from /\ pc' = [pc EXCEPT ![t] = to]

\* A budget call that could not take the lock, or found none.
Waive == waived < MaxWaived /\ waived' = waived + 1

Init ==
  /\ lock = FALSE /\ timer = "none"
  /\ budget = DefaultBudget
  /\ pc = [t \in Tasks |-> "idle"]
  /\ sent = 0 /\ granted = 0 /\ waived = 0

-----------------------------------------------------------------------------
(* esp_rmaker_mqtt_publish *)

\* Mutant: the result of the check is ignored.
CheckAlways(t) ==
  /\ lock
  /\ Goto(t, "idle", "publish")
  /\ UNCHANGED <<lock, timer, budget, sent, granted, waived>>

\* is_budget_available under the lock: go on, or drop the message.
Check(t) ==
  /\ lock
  /\ Goto(t, "idle", IF budget # 0 THEN "publish" ELSE "idle")
  /\ UNCHANGED <<lock, timer, budget, sent, granted, waived>>

\* is_budget_available without the lock: "Allowing publish."
CheckWaived(t) ==
  /\ Goto(t, "idle", "publish")
  /\ Waive
  /\ UNCHANGED <<lock, timer, budget, sent, granted>>

\* g_mqtt_config.publish returned ESP_OK.
PublishOk(t) ==
  /\ Goto(t, "publish", "charge")
  /\ sent' = sent + 1
  /\ UNCHANGED <<lock, timer, budget, granted, waived>>

\* g_mqtt_config.publish failed (or none is registered): nothing is sent and
\* nothing is charged.
PublishFail(t) ==
  /\ Goto(t, "publish", "idle")
  /\ UNCHANGED <<lock, timer, budget, sent, granted, waived>>

\* Mutant: the message is not charged.
ChargeNothing(t) ==
  /\ lock
  /\ Goto(t, "charge", "idle")
  /\ UNCHANGED <<lock, timer, budget, sent, granted, waived>>

\* decrease_budget(1), clamped at zero.
Charge(t) ==
  /\ lock
  /\ Goto(t, "charge", "idle")
  /\ budget' = IF budget - 1 < 0 THEN 0 ELSE budget - 1
  /\ UNCHANGED <<lock, timer, sent, granted, waived>>

\* decrease_budget without the lock: the charge is skipped.
ChargeWaived(t) ==
  /\ Goto(t, "charge", "idle")
  /\ Waive
  /\ UNCHANGED <<lock, timer, budget, sent, granted>>

-----------------------------------------------------------------------------
(* the revive timer and the connection *)

\* revive_budget -> increase_budget(REVIVE_COUNT), capped at MAX_BUDGET.  A
\* callback that cannot take the lock adds nothing.
Revive ==
  /\ timer = "running" /\ lock
  /\ budget' = Min2(budget + ReviveCount, MaxBudget)
  /\ granted' = granted + (budget' - budget)
  /\ granted' <= MaxGranted
  /\ UNCHANGED <<lock, timer, pc, sent, waived>>

\* esp_rmaker_mqtt_connect -> budgeting_start, once the client connected.
Connect ==
  /\ timer # "none"
  /\ timer' = "running"
  /\ UNCHANGED <<lock, budget, pc, sent, granted, waived>>

\* esp_rmaker_mqtt_disconnect -> budgeting_stop.
Disconnect ==
  /\ timer # "none"
  /\ timer' = "stopped"
  /\ UNCHANGED <<lock, budget, pc, sent, granted, waived>>

\* esp_rmaker_mqtt_init -> budgeting_init.  Either allocation may fail; the
\* failure is logged and MQTT goes on without that part.  mqtt_budget keeps
\* its value.
BudgetingInit ==
  /\ timer = "none"
  /\ \/ lock' = FALSE /\ UNCHANGED timer          \* no mutex
     \/ lock' = TRUE /\ UNCHANGED timer           \* mutex, no timer
     \/ lock' = TRUE /\ timer' = "stopped"
  /\ UNCHANGED <<budget, pc, sent, granted, waived>>

\* esp_rmaker_mqtt_deinit -> budgeting_deinit.
BudgetingDeinit ==
  /\ lock' = FALSE /\ timer' = "none"
  /\ UNCHANGED <<budget, pc, sent, granted, waived>>

-----------------------------------------------------------------------------
Next ==
  \/ \E t \in Tasks :
       \/ Check(t) \/ CheckWaived(t)
       \/ PublishOk(t) \/ PublishFail(t)
       \/ Charge(t) \/ ChargeWaived(t)
  \/ Revive \/ Connect \/ Disconnect
  \/ BudgetingInit \/ BudgetingDeinit

Spec == Init /\ [][Next]_vars

-----------------------------------------------------------------------------
(* Properties *)

\* Types and ranges: the clamp in decrease_budget and the cap in
\* increase_budget keep mqtt_budget within 0..MAX_BUDGET.
TypeOK ==
  /\ lock \in BOOLEAN
  /\ timer \in {"none", "stopped", "running"}
  /\ budget \in 0..MaxBudget
  /\ pc \in [Tasks -> {"idle", "publish", "charge"}]
  /\ sent \in Nat /\ granted \in Nat /\ waived \in Nat

\* What the budget really limits.  Check and charge are separate, and a charge
\* at zero is lost, so one credit can let every publishing task send once: the
\* node sends at most that many messages per credit it ever had, plus those
\* whose check or charge went without the lock.
RateBound ==
  sent <= Cardinality(Tasks) * (DefaultBudget + granted) + waived

\* The inductive form: with credits left, the messages not yet charged are the
\* only excess; with none left, even those about to be handed over are covered.
CreditInv ==
  LET paid == Cardinality(Tasks) * Consumed + waived
  IN  /\ Consumed >= 0
      /\ budget = 0 => sent + Cardinality(Publishing) <= paid
      /\ budget > 0 => sent <= paid + Cardinality(Charging)
=============================================================================
