---------------------------- MODULE MessageProofs ----------------------------
(***************************************************************************)
(* The messages of the node, for every value of the constants.             *)
(*                                                                         *)
(* The budget (MqttBudget): it stays in range, the node never sends more   *)
(* than one message per task and credit, and with one publishing task the  *)
(* budget is a token bucket.                                               *)
(*                                                                         *)
(* Reports and commands (ParamReport, CmdResp): whatever the parameters    *)
(* and however the tasks cross, a value that the cloud does not have is    *)
(* one that a task is about to report or one that a report was lost for, a *)
(* parameter that persists is in NVS, about to be stored, or one that was  *)
(* stored in vain, and a command that waits is asked for after every       *)
(* connection, unless asking failed.                                       *)
(***************************************************************************)
EXTENDS MqttBudgetSingle, CmdResp, FiniteSetTheorems, SequenceTheorems, TLAPS

-----------------------------------------------------------------------------
(* The budget *)

PcStates == {"idle", "publish", "charge"}

\* mqtt_budget stays within 0..MAX_BUDGET and every task is in one of the
\* three places of esp_rmaker_mqtt_publish.
THEOREM BudgetTypeOK == Spec => []TypeOK
<1> USE BudgetAssumption
<1>1. Init => TypeOK
  <2> SUFFICES ASSUME Init PROVE TypeOK
    OBVIOUS
  <2>1. lock \in BOOLEAN
    BY Zenon DEF Init
  <2>2. budget \in 0..MaxBudget /\ sent \in Nat /\ granted \in Nat /\ waived \in Nat
    BY DEF Init
  <2>3. QED
    BY <2>1, <2>2 DEF Init, TypeOK
<1>2. TypeOK /\ [Next]_vars => TypeOK'
  <2> SUFFICES ASSUME TypeOK, [Next]_vars PROVE TypeOK'
    OBVIOUS
  <2> USE DEF TypeOK
  <2>1. ASSUME NEW t \in Tasks, Check(t) PROVE TypeOK'
    BY <2>1 DEF Check, Goto
  <2>2. ASSUME NEW t \in Tasks, CheckWaived(t) PROVE TypeOK'
    BY <2>2 DEF CheckWaived, Goto, Waive
  <2>3. ASSUME NEW t \in Tasks, PublishOk(t) PROVE TypeOK'
    BY <2>3 DEF PublishOk, Goto
  <2>4. ASSUME NEW t \in Tasks, PublishFail(t) PROVE TypeOK'
    BY <2>4 DEF PublishFail, Goto
  <2>5. ASSUME NEW t \in Tasks, Charge(t) PROVE TypeOK'
    BY <2>5 DEF Charge, Goto
  <2>6. ASSUME NEW t \in Tasks, ChargeWaived(t) PROVE TypeOK'
    BY <2>6 DEF ChargeWaived, Goto, Waive
  <2>7. CASE Revive
    BY <2>7 DEF Revive, Min2
  <2>8. CASE Connect \/ Disconnect \/ BudgetingInit \/ BudgetingDeinit
    BY <2>8 DEF Connect, Disconnect, BudgetingInit, BudgetingDeinit
  <2>9. CASE UNCHANGED vars
    BY <2>9 DEF vars
  <2>10. QED
    BY <2>1, <2>2, <2>3, <2>4, <2>5, <2>6, <2>7, <2>8, <2>9 DEF Next
<1>3. QED
  BY <1>1, <1>2, PTL DEF Spec

-----------------------------------------------------------------------------
(* Counting the tasks in flight *)

\* The tasks between check and hand-over and those between hand-over and charge
\* are finite, and together they are at most all the tasks.
LEMMA InFlightCounts ==
  ASSUME TypeOK
  PROVE  /\ IsFiniteSet(Publishing) /\ Cardinality(Publishing) \in Nat
         /\ IsFiniteSet(Charging) /\ Cardinality(Charging) \in Nat
         /\ Cardinality(Tasks) \in Nat /\ Cardinality(Tasks) >= 1
         /\ Cardinality(Publishing) + Cardinality(Charging) <= Cardinality(Tasks)
<1>1. Publishing \in SUBSET Tasks /\ Charging \in SUBSET Tasks
  BY DEF Publishing, Charging
<1>2. IsFiniteSet(Publishing) /\ IsFiniteSet(Charging)
  BY <1>1, BudgetAssumption, FS_Subset
<1>3. Publishing \cap Charging = {}
  BY DEF Publishing, Charging
<1>4. Publishing \cup Charging \in SUBSET Tasks
  BY <1>1
<1>5. Cardinality(Publishing \cup Charging)
        = Cardinality(Publishing) + Cardinality(Charging)
  <2>1. Cardinality(Publishing \cup Charging)
          = Cardinality(Publishing) + Cardinality(Charging)
              - Cardinality(Publishing \cap Charging)
    BY <1>2, FS_Union
  <2>2. Cardinality(Publishing \cap Charging) = 0
    BY <1>3, FS_EmptySet
  <2>3. Cardinality(Publishing) \in Nat /\ Cardinality(Charging) \in Nat
    BY <1>2, FS_CardinalityType
  <2>4. QED
    BY <2>1, <2>2, <2>3
<1>6. Cardinality(Publishing \cup Charging) <= Cardinality(Tasks)
  BY <1>4, BudgetAssumption, FS_Subset
<1>7. Cardinality(Tasks) \in Nat /\ Cardinality(Tasks) # 0
  BY BudgetAssumption, FS_CardinalityType, FS_EmptySet
<1>8. QED
  BY <1>2, <1>5, <1>6, <1>7, FS_CardinalityType

\* One task moving from one place of the publish path to another changes the
\* two counts accordingly.
LEMMA MoveCounts ==
  ASSUME TypeOK, NEW t \in Tasks,
         NEW from \in PcStates, NEW to \in PcStates, from # to,
         Goto(t, from, to)
  PROVE  /\ Cardinality(Publishing)' = Cardinality(Publishing)
              + (IF to = "publish" THEN 1 ELSE 0)
              - (IF from = "publish" THEN 1 ELSE 0)
         /\ Cardinality(Charging)' = Cardinality(Charging)
              + (IF to = "charge" THEN 1 ELSE 0)
              - (IF from = "charge" THEN 1 ELSE 0)
<1> USE InFlightCounts
<1>1. Publishing' = IF to = "publish" THEN Publishing \cup {t}
                    ELSE IF from = "publish" THEN Publishing \ {t}
                    ELSE Publishing
  BY DEF Publishing, Goto, TypeOK
<1>2. Charging' = IF to = "charge" THEN Charging \cup {t}
                  ELSE IF from = "charge" THEN Charging \ {t}
                  ELSE Charging
  BY DEF Charging, Goto, TypeOK
<1>3. /\ t \in Publishing <=> from = "publish"
      /\ t \in Charging <=> from = "charge"
  BY DEF Publishing, Charging, Goto
<1>4. /\ Cardinality(Publishing \cup {t})
           = IF t \in Publishing THEN Cardinality(Publishing)
             ELSE Cardinality(Publishing) + 1
      /\ Cardinality(Charging \cup {t})
           = IF t \in Charging THEN Cardinality(Charging)
             ELSE Cardinality(Charging) + 1
  BY FS_AddElement
<1>5. /\ Cardinality(Publishing \ {t})
           = IF t \in Publishing THEN Cardinality(Publishing) - 1
             ELSE Cardinality(Publishing)
      /\ Cardinality(Charging \ {t})
           = IF t \in Charging THEN Cardinality(Charging) - 1
             ELSE Cardinality(Charging)
  BY FS_RemoveElement
<1>6. Cardinality(Publishing)' = Cardinality(Publishing)
        + (IF to = "publish" THEN 1 ELSE 0)
        - (IF from = "publish" THEN 1 ELSE 0)
  BY <1>1, <1>3, <1>4, <1>5
<1>7. Cardinality(Charging)' = Cardinality(Charging)
        + (IF to = "charge" THEN 1 ELSE 0)
        - (IF from = "charge" THEN 1 ELSE 0)
  BY <1>2, <1>3, <1>4, <1>5
<1>8. QED
  BY <1>6, <1>7
-----------------------------------------------------------------------------
(* The rate bound *)

\* Arithmetic of one credit: N messages more are paid for.
LEMMA OneCreditMore ==
  ASSUME NEW N \in Nat, NEW c \in Int
  PROVE  N * (c + 1) = N * c + N
OBVIOUS

\* CreditInv holds of every reachable state: one credit pays for at most one
\* message of each task, and the tasks in flight account for the rest.
THEOREM BudgetCreditInv == Spec => []CreditInv
<1> DEFINE N == Cardinality(Tasks)
           P == Cardinality(Publishing)
           C == Cardinality(Charging)
<1> USE BudgetAssumption
<1>1. Init => CreditInv
  <2> SUFFICES ASSUME Init PROVE CreditInv
    OBVIOUS
  <2>1. Publishing = {} /\ Charging = {}
    BY DEF Init, Publishing, Charging
  <2>2. Cardinality(Publishing) = 0 /\ Cardinality(Charging) = 0
    BY <2>1, FS_EmptySet
  <2>3. Consumed = 0 /\ N \in Nat
    BY FS_CardinalityType DEF Init, Consumed
  <2>4. N * Consumed = 0
    BY <2>3
  <2>5. QED
    BY <2>2, <2>3, <2>4 DEF Init, CreditInv
<1>2. TypeOK /\ TypeOK' /\ CreditInv /\ [Next]_vars => CreditInv'
  <2> SUFFICES ASSUME TypeOK, TypeOK', CreditInv, [Next]_vars PROVE CreditInv'
    OBVIOUS
  <2>1. /\ P \in Nat /\ C \in Nat /\ N \in Nat /\ N >= 1 /\ P + C <= N
    BY InFlightCounts
  <2>2. /\ budget \in Nat /\ sent \in Nat /\ granted \in Nat /\ waived \in Nat
        /\ budget' \in Nat /\ sent' \in Nat /\ granted' \in Nat /\ waived' \in Nat
        /\ Consumed \in Int /\ DefaultBudget \in Nat
    BY DEF TypeOK, Consumed
  <2>3. N * Consumed \in Int
    BY <2>1, <2>2
  <2>4. /\ Consumed >= 0
        /\ budget = 0 => sent + P <= N * Consumed + waived
        /\ budget > 0 => sent <= N * Consumed + waived + C
    BY DEF CreditInv
  \* What has to be shown, once it is known how Consumed moves.
  <2>5. ASSUME Consumed' >= 0,
               budget' = 0 => sent' + P' <= N * Consumed' + waived',
               budget' > 0 => sent' <= N * Consumed' + waived' + C'
        PROVE  CreditInv'
    BY <2>5 DEF CreditInv
  <2> HIDE DEF N, P, C
  <2>6. ASSUME NEW t \in Tasks, Check(t) PROVE CreditInv'
    <3>1. Consumed' = Consumed /\ budget' = budget /\ sent' = sent /\ waived' = waived
      BY <2>6 DEF Check, Consumed
    <3>2. CASE budget # 0
      <4>1. C' = C
        BY <2>6, <3>2, MoveCounts, <2>1 DEF Check, PcStates, P, C
      <4>2. QED
        BY <2>2, <2>4, <2>5, <3>1, <3>2, <4>1
    <3>3. CASE budget = 0
      <4>1. P' = P /\ C' = C
        <5>1. pc' = pc
          BY <2>6, <3>3 DEF Check, Goto, TypeOK
        <5>2. QED
          BY <5>1 DEF P, C, Publishing, Charging
      <4>2. QED
        BY <2>4, <2>5, <3>1, <4>1
    <3>4. QED
      BY <3>2, <3>3
  <2>7. ASSUME NEW t \in Tasks, CheckWaived(t) PROVE CreditInv'
    <3>1. /\ Consumed' = Consumed /\ budget' = budget /\ sent' = sent
          /\ waived' = waived + 1
      BY <2>7 DEF CheckWaived, Waive, Consumed
    <3>2. P' = P + 1 /\ C' = C
      BY <2>7, MoveCounts, <2>1 DEF CheckWaived, PcStates, P, C
    <3>3. QED
      BY <2>1, <2>2, <2>3, <2>4, <2>5, <3>1, <3>2
  <2>8. ASSUME NEW t \in Tasks, PublishOk(t) PROVE CreditInv'
    <3>1. /\ Consumed' = Consumed /\ budget' = budget /\ sent' = sent + 1
          /\ waived' = waived
      BY <2>8 DEF PublishOk, Consumed
    <3>2. P' = P - 1 /\ C' = C + 1
      BY <2>8, MoveCounts, <2>1 DEF PublishOk, PcStates, P, C
    <3>3. QED
      BY <2>1, <2>2, <2>3, <2>4, <2>5, <3>1, <3>2
  <2>9. ASSUME NEW t \in Tasks, PublishFail(t) PROVE CreditInv'
    <3>1. /\ Consumed' = Consumed /\ budget' = budget /\ sent' = sent
          /\ waived' = waived
      BY <2>9 DEF PublishFail, Consumed
    <3>2. P' = P - 1 /\ C' = C
      BY <2>9, MoveCounts, <2>1 DEF PublishFail, PcStates, P, C
    <3>3. QED
      BY <2>1, <2>2, <2>3, <2>4, <2>5, <3>1, <3>2
  <2>10. ASSUME NEW t \in Tasks, Charge(t) PROVE CreditInv'
    <3>1. sent' = sent /\ waived' = waived /\ granted' = granted
      BY <2>10 DEF Charge
    <3>2. P' = P /\ C' = C - 1
      BY <2>10, MoveCounts, <2>1 DEF Charge, PcStates, P, C
    <3>3. CASE budget = 0
      <4>1. Consumed' = Consumed /\ budget' = 0
        BY <2>10, <3>3 DEF Charge, Consumed
      <4>2. QED
        BY <2>4, <2>5, <3>1, <3>2, <3>3, <4>1
    <3>4. CASE budget > 0
      <4>1. Consumed' = Consumed + 1 /\ budget' = budget - 1
        BY <2>2, <2>10, <3>4 DEF Charge, Consumed
      <4>2. N * Consumed' = N * Consumed + N
        BY <2>1, <2>2, <4>1, OneCreditMore
      <4>3. QED
        BY <2>1, <2>2, <2>3, <2>4, <2>5, <3>1, <3>2, <3>4, <4>1, <4>2
    <3>5. QED
      BY <2>2, <3>3, <3>4
  <2>11. ASSUME NEW t \in Tasks, ChargeWaived(t) PROVE CreditInv'
    <3>1. /\ Consumed' = Consumed /\ budget' = budget /\ sent' = sent
          /\ waived' = waived + 1
      BY <2>11 DEF ChargeWaived, Waive, Consumed
    <3>2. P' = P /\ C' = C - 1
      BY <2>11, MoveCounts, <2>1 DEF ChargeWaived, PcStates, P, C
    <3>3. QED
      BY <2>1, <2>2, <2>3, <2>4, <2>5, <3>1, <3>2
  <2>12. CASE Revive
    <3>1. /\ sent' = sent /\ waived' = waived /\ P' = P /\ C' = C
      BY <2>12 DEF Revive, P, C, Publishing, Charging
    <3>2. Consumed' = Consumed
      BY <2>2, <2>12 DEF Revive, Consumed
    <3>3. budget' >= budget
      BY <2>2, <2>12 DEF Revive, Min2, TypeOK
    <3>4. QED
      BY <2>1, <2>2, <2>3, <2>4, <2>5, <3>1, <3>2, <3>3
  <2>13. CASE Connect \/ Disconnect \/ BudgetingInit \/ BudgetingDeinit \/ UNCHANGED vars
    <3>1. UNCHANGED <<budget, pc, sent, granted, waived>>
      BY <2>13 DEF Connect, Disconnect, BudgetingInit, BudgetingDeinit, vars
    <3>2. Consumed' = Consumed /\ P' = P /\ C' = C
      BY <3>1 DEF Consumed, P, C, Publishing, Charging
    <3>3. QED
      BY <2>4, <2>5, <3>1, <3>2
  <2>14. QED
    BY <2>6, <2>7, <2>8, <2>9, <2>10, <2>11, <2>12, <2>13 DEF Next
<1>3. QED
  BY <1>1, <1>2, BudgetTypeOK, PTL DEF Spec

\* The node sends at most one message per task for each credit it ever had,
\* beyond those that went without the lock.
THEOREM BudgetRateBound == Spec => []RateBound
<1>1. TypeOK /\ CreditInv => RateBound
  <2> SUFFICES ASSUME TypeOK, CreditInv PROVE RateBound
    OBVIOUS
  <2> DEFINE N == Cardinality(Tasks)
             P == Cardinality(Publishing)
             C == Cardinality(Charging)
             G == DefaultBudget + granted
  <2>1. P \in Nat /\ C \in Nat /\ N \in Nat /\ N >= 1 /\ P + C <= N
    BY InFlightCounts
  <2>2. /\ budget \in Nat /\ sent \in Nat /\ granted \in Nat /\ waived \in Nat
        /\ Consumed \in Int /\ G \in Nat /\ Consumed = G - budget
    BY BudgetAssumption DEF TypeOK, Consumed
  <2>3. CASE budget = 0
    <3>1. sent + P <= N * Consumed + waived
      BY <2>3 DEF CreditInv
    <3>2. Consumed = G /\ N * G \in Int
      BY <2>1, <2>2, <2>3
    <3>3. QED
      BY <2>1, <2>2, <3>1, <3>2 DEF RateBound
  <2>4. CASE budget > 0
    <3>1. sent <= N * Consumed + waived + C
      BY <2>4 DEF CreditInv
    <3>2. N * Consumed + N = N * (Consumed + 1)
      BY <2>1, <2>2, OneCreditMore
    <3>3. Consumed + 1 <= G
      BY <2>2, <2>4
    <3> HIDE DEF N, G
    <3>4. N * (Consumed + 1) <= N * G
      <4>1. ASSUME NEW a \in Int, NEW b \in Int, NEW n \in Nat, a <= b
            PROVE  n * a <= n * b
        BY <4>1
      <4>2. QED
        BY <4>1, <2>1, <2>2, <3>3
    <3>5. N * Consumed \in Int /\ N * G \in Int
      BY <2>1, <2>2
    <3>6. sent <= N * G + waived
      BY <2>1, <2>2, <3>1, <3>2, <3>4, <3>5
    <3>7. QED
      BY <3>6 DEF RateBound, N, G
  <2>5. QED
    BY <2>2, <2>3, <2>4
<1>2. QED
  BY <1>1, BudgetTypeOK, BudgetCreditInv, PTL

-----------------------------------------------------------------------------
(* One publishing task: the budget is a token bucket *)

\* With one task and no call without the lock, a message on its way has a
\* credit behind it: the budget covers the tasks in flight.
Covered == waived = 0 /\ budget >= Cardinality(Publishing) + Cardinality(Charging)

\* Every behaviour of the publish path run by a single task is one of the token
\* bucket.
THEOREM SingleImplementsTokenBucket ==
  ASSUME Cardinality(Tasks) = 1, MaxWaived = 0
  PROVE  Spec => ImplementsTokenBucket
<1> DEFINE P == Cardinality(Publishing)
           C == Cardinality(Charging)
<1> USE BudgetAssumption
<1>1. Init => Covered /\ TB!Init
  <2> SUFFICES ASSUME Init PROVE Covered /\ TB!Init
    OBVIOUS
  <2>1. Publishing = {} /\ Charging = {}
    BY DEF Init, Publishing, Charging
  <2>2. P = 0 /\ C = 0
    BY <2>1, FS_EmptySet
  <2>3. QED
    BY <2>2 DEF Init, Covered, TB!Init
<1>2. TypeOK /\ TypeOK' /\ Covered /\ [Next]_vars
        => Covered' /\ [TB!Next]_<<budget - C, sent>>
  <2> SUFFICES ASSUME TypeOK, TypeOK', Covered, [Next]_vars
               PROVE  Covered' /\ [TB!Next]_<<budget - C, sent>>
    OBVIOUS
  <2>1. P \in Nat /\ C \in Nat /\ P + C <= 1
    BY InFlightCounts
  <2>2. /\ budget \in Nat /\ sent \in Nat /\ budget <= MaxBudget
        /\ budget' \in Nat /\ sent' \in Nat /\ budget' <= MaxBudget
        /\ waived = 0 /\ budget >= P + C /\ MaxBudget \in Nat /\ ReviveCount \in Nat
    BY DEF TypeOK, Covered
  <2>3. ASSUME budget' >= P' + C', waived' = 0 PROVE Covered'
    BY <2>3 DEF Covered
  <2>4. ASSUME UNCHANGED <<budget - C, sent>> PROVE [TB!Next]_<<budget - C, sent>>
    BY <2>4
  <2>5. ASSUME budget - C > 0, budget' - C' = budget - C - 1, sent' = sent + 1
        PROVE  [TB!Next]_<<budget - C, sent>>
    BY <2>5 DEF TB!Next, TB!Deliver
  <2>6. ASSUME NEW k \in 0..ReviveCount,
               budget' - C' = budget - C + k, budget' - C' <= MaxBudget,
               sent' = sent
        PROVE  [TB!Next]_<<budget - C, sent>>
    BY <2>6 DEF TB!Next, TB!Refill
  <2> HIDE DEF P, C
  <2>7. ASSUME NEW t \in Tasks, Check(t)
        PROVE  Covered' /\ [TB!Next]_<<budget - C, sent>>
    <3>1. budget' = budget /\ sent' = sent /\ waived' = waived
      BY <2>7 DEF Check
    <3>2. CASE budget # 0
      <4>1. P' = P + 1 /\ C' = C
        BY <2>7, <3>2, MoveCounts, <2>1 DEF Check, PcStates, P, C
      <4>2. P' + C' <= 1
        <5>1. P = 0 /\ C = 0
          <6>1. t \notin Publishing /\ t \notin Charging
            BY <2>7 DEF Check, Goto, Publishing, Charging
          <6>2. \A u \in Tasks : u = t
            BY FS_Singleton
          <6>3. Publishing = {} /\ Charging = {}
            BY <6>1, <6>2 DEF Publishing, Charging
          <6>4. QED
            BY <6>3, FS_EmptySet DEF P, C
        <5>2. QED
          BY <4>1, <5>1
      <4>3. QED
        BY <2>1, <2>2, <2>3, <2>4, <3>1, <3>2, <4>1, <4>2
    <3>3. CASE budget = 0
      <4>1. pc' = pc
        BY <2>7, <3>3 DEF Check, Goto, TypeOK
      <4>2. P' = P /\ C' = C
        BY <4>1 DEF P, C, Publishing, Charging
      <4>3. QED
        BY <2>2, <2>3, <2>4, <3>1, <4>2
    <3>4. QED
      BY <3>2, <3>3
  <2>8. ASSUME NEW t \in Tasks, CheckWaived(t) \/ ChargeWaived(t) PROVE FALSE
    BY <2>2, <2>8 DEF CheckWaived, ChargeWaived, Waive
  <2>9. ASSUME NEW t \in Tasks, PublishOk(t)
        PROVE  Covered' /\ [TB!Next]_<<budget - C, sent>>
    <3>1. budget' = budget /\ sent' = sent + 1 /\ waived' = waived
      BY <2>9 DEF PublishOk
    <3>2. P' = P - 1 /\ C' = C + 1
      BY <2>9, MoveCounts, <2>1 DEF PublishOk, PcStates, P, C
    <3>3. t \in Publishing
      BY <2>9 DEF PublishOk, Goto, Publishing
    <3>4. P >= 1
      BY <3>3, <2>1, InFlightCounts, FS_EmptySet DEF P
    <3>5. QED
      BY <2>1, <2>2, <2>3, <2>5, <3>1, <3>2, <3>4
  <2>10. ASSUME NEW t \in Tasks, PublishFail(t)
         PROVE  Covered' /\ [TB!Next]_<<budget - C, sent>>
    <3>1. budget' = budget /\ sent' = sent /\ waived' = waived
      BY <2>10 DEF PublishFail
    <3>2. P' = P - 1 /\ C' = C
      BY <2>10, MoveCounts, <2>1 DEF PublishFail, PcStates, P, C
    <3>3. QED
      BY <2>1, <2>2, <2>3, <2>4, <3>1, <3>2
  <2>11. ASSUME NEW t \in Tasks, Charge(t)
         PROVE  Covered' /\ [TB!Next]_<<budget - C, sent>>
    <3>1. sent' = sent /\ waived' = waived
      BY <2>11 DEF Charge
    <3>2. P' = P /\ C' = C - 1
      BY <2>11, MoveCounts, <2>1 DEF Charge, PcStates, P, C
    <3>3. t \in Charging
      BY <2>11 DEF Charge, Goto, Charging
    <3>4. C >= 1
      BY <3>3, <2>1, InFlightCounts, FS_EmptySet DEF C
    <3>5. budget' = budget - 1
      BY <2>1, <2>2, <2>11, <3>4 DEF Charge
    <3>6. QED
      BY <2>1, <2>2, <2>3, <2>4, <3>1, <3>2, <3>5
  <2>12. CASE Revive
    <3>1. sent' = sent /\ waived' = waived
      BY <2>12 DEF Revive
    <3>2. P' = P /\ C' = C
      BY <2>12 DEF Revive, P, C, Publishing, Charging
    <3>3. budget' - budget \in 0..ReviveCount /\ budget' >= budget
      BY <2>2, <2>12 DEF Revive, Min2
    <3>4. /\ budget' - C' = budget - C + (budget' - budget)
          /\ budget' - C' <= MaxBudget
      <4>1. C' \in Nat
        BY <2>1, <3>2
      <4>2. budget' - C' = budget - C + (budget' - budget)
        BY <2>1, <2>2, <3>2, <4>1
      <4>3. budget' - C' <= MaxBudget
        <5>1. budget' <= MaxBudget /\ budget' \in Nat
          BY <2>2
        <5>2. MaxBudget \in Nat
          BY <2>2
        <5>3. ASSUME NEW a \in Nat, NEW b \in Nat, NEW m \in Nat, a <= m PROVE a - b <= m
          BY <5>3
        <5>4. QED
          BY <5>1, <5>2, <5>3, <4>1
      <4>4. QED
        BY <4>2, <4>3
    <3>5. [TB!Next]_<<budget - C, sent>>
      BY <2>6, <3>1, <3>3, <3>4
    <3>6. budget' >= P' + C'
      <4>1. budget \in Nat /\ budget' \in Nat /\ budget >= P + C
        BY <2>2
      <4>2. budget' >= P + C
        BY <2>1, <3>3, <4>1
      <4>3. QED
        BY <3>2, <4>2
    <3>7. QED
      BY <2>2, <2>3, <3>1, <3>5, <3>6
  <2>13. CASE Connect \/ Disconnect \/ BudgetingInit \/ BudgetingDeinit \/ UNCHANGED vars
    <3>1. UNCHANGED <<budget, pc, sent, waived>>
      BY <2>13 DEF Connect, Disconnect, BudgetingInit, BudgetingDeinit, vars
    <3>2. P' = P /\ C' = C
      BY <3>1 DEF P, C, Publishing, Charging
    <3>3. QED
      BY <2>2, <2>3, <2>4, <3>1, <3>2
  <2>14. QED
    BY <2>7, <2>8, <2>9, <2>10, <2>11, <2>12, <2>13 DEF Next
<1>3. QED
  BY <1>1, <1>2, BudgetTypeOK, PTL DEF Spec, ImplementsTokenBucket, TB!Spec

-----------------------------------------------------------------------------
(* Reports: the steps of a call *)

\* The places of a report once its buffer is filled, and of an answer.
InReport == {"reset", "topic", "send"}
InAnswer == {"reset mine", "answer"}

\* A step that brings the changes to the cloud, or is going to.
Tells(e) == (e.op = "fill" /\ e.x = Change) \/ e.op \in {"fill mine", "started?"}

\* Steps that come one after the other: what comes next, ...
Open(e) ==
  \/ e.op \in {"set", "topic", "fill mine", "reset mine", "alert topic", "init done", "store"}
  \/ e.op = "flag" /\ e.x = {Change} /\ e.p \in Names
  \/ e.op = "fill" /\ e.x \in {Change, "all"}
  \/ e.op = "reset" /\ e.x = Change

Follows(e, f) ==
  /\ e.op = "set" => f.op = "flag" /\ f.p = e.p /\ f.x = {Change}
  /\ e.op = "flag" /\ e.x = {Change} /\ e.p \in Names => f.op = "store" /\ f.x = e.p
  /\ e.op = "store" => f.op = "put" /\ f.x = e.x
  /\ e.op = "fill" /\ e.x = Change => f.op = "reset" /\ f.x = Change
  /\ e.op = "fill" /\ e.x = "all" => f.op = "topic" /\ f.x = "init"
  /\ e.op = "reset" /\ e.x = Change => f.op = "topic" /\ f.x = "local"
  /\ e.op = "topic" => f.op = "send"
  /\ e.op = "fill mine" => f.op = "reset mine"
  /\ e.op = "reset mine" => f.op = "answer"
  /\ e.op = "alert topic" => f.op = "send alert"
  /\ e.op = "init done" => f.op = "fill" /\ f.x = "all"

\* ... and what came before.
Bound(e) == e.op \in InReport \cup InAnswer \cup {"init done"}

Precedes(e, f) ==
  /\ f.op = "reset" => e.op = "fill" /\ e.x = f.x
  /\ f.op = "topic" => e.op \in {"fill", "reset"}
  /\ f.op = "send" => e.op = "topic"
  /\ f.op = "reset mine" => e.op = "fill mine"
  /\ f.op = "answer" => e.op = "reset mine"
  /\ f.op = "init done" => e.op = "subscribe"

\* Every step has the one before and after it that it needs, and every change
\* has a step after it that tells it.
Linked(s) ==
  \A i \in 1..Len(s) :
    /\ Open(s[i]) => i + 1 <= Len(s) /\ Follows(s[i], s[i + 1])
    /\ i + 1 <= Len(s) => Precedes(s[i], s[i + 1])

Told(s) ==
  \A i \in 1..Len(s) : s[i].op \in {"write", "set", "flag"} =>
    \E j \in 1..Len(s) : i < j /\ Tells(s[j])

\* What is among the steps left.
HasTell(s) == \E j \in 1..Len(s) : Tells(s[j])
HasAll(s) == \E i \in 1..Len(s) : s[i].op = "fill" /\ s[i].x = "all"
HasInit(s) == \E i \in 1..Len(s) : s[i].op = "init done"
Marked(s, p) == \E i \in 1..Len(s) : s[i].op = "flag" /\ s[i].p = p
Stored(s, p) == \E i \in 1..Len(s) : s[i].op = "put" /\ s[i].x = p

\* A list of steps that a call may begin with.
First(s) == Len(s) > 0 => ~Bound(s[1])
Whole(s) == Linked(s) /\ Told(s) /\ First(s)

StartsWhole(s) ==
  \A i \in 1..Len(s) : s[i].op = "started?" => Whole(s[i].x) /\ HasTell(s[i].x)

Good(s) == Linked(s) /\ Told(s) /\ StartsWhole(s)

Calls == \A t \in Callers : Good(prog[t])

-----------------------------------------------------------------------------
(* Reports: what is under way *)

\* A change that is going to be flagged, one that is flagged and going to be
\* told, and one that is in the buffer of the only report, or of the answer.
ToFlag(p) == \E t \in Callers : Marked(prog[t], p)

Telling == \E t \in Callers : HasTell(prog[t])

Resetting(t) == (At(t, "reset") /\ Arg(t) = Change) \/ At(t, "reset mine")

ToTell(p) ==
  /\ Change \in flags[p]
  /\ Telling
  /\ \A t \in Callers : ~Resetting(t)

Carrying(t) ==
  \/ At(t, "reset") /\ Arg(t) = Change
  \/ At(t, "topic") /\ Arg(t) \in {"local", "init"}
  \/ At(t, "send") /\ topic \in {"local", "init"}

InBuffer(p) ==
  /\ p \in DOMAIN buf /\ buf[p] = value[p]
  /\ \E t \in Callers : Carrying(t) /\ \A u \in Others(t) : ~Reporting(u)

Answering == At("cloud", "reset mine") \/ At("cloud", "answer")

InMine(p) == p \in DOMAIN mine /\ mine[p] = value[p] /\ Answering

Carried(p) == p \in missed \/ ToFlag(p) \/ ToTell(p) \/ InMine(p)

\* The parameters have been reported, or are being reported, as a whole.
Reported ==
  /\ initDone
  /\ \A t \in Callers : ~HasAll(prog[t])

\* What the cloud does not have is on its way, or missed, and so is what a
\* buffer that is about to be published no longer has right.
ValuesInv ==
  Reported =>
    /\ \A p \in Params : cloud[p] = value[p] \/ Carried(p) \/ InBuffer(p)
    /\ (\E t \in Callers : Reporting(t)) =>
         \A p \in DOMAIN buf : buf[p] = value[p] \/ Carried(p)

RunningInv ==
  /\ initDone => running /\ listening
  /\ \A t \in Callers : At(t, "init done") => listening
  /\ \A t \in Callers : HasInit(prog[t]) => running

AlertInv ==
  alert => "alert" \in missed \/ At("app", "alert topic") \/ (At("app", "send alert") /\ topic = "alert")

\* A value that is not in NVS is going to be stored, but for those that storing
\* has lost.
ToStore(p) == \E t \in Callers : Stored(prog[t], p)

StoreInv == \A p \in Names : nvs[p] = value[p] \/ ToStore(p) \/ p \in unstored

PursueInv ==
  /\ link = "new" => events = 0 /\ drops = 0
  /\ events <= drops + (IF link = "up" THEN 1 ELSE 0)
  /\ link = "up" /\ events = 0 => (subscribed /\ (command = "waiting" => asked)) \/ unheard

-----------------------------------------------------------------------------
(* Reports: types *)

\* What a parameter was given, and the content of a message.
Contents == UNION {[P -> Values] : P \in SUBSET Params}

\* The steps of a report that waits for the node to run, and all others.
Inner ==
  [op : {"flag"}, p : Params, x : {{Change}, {Change, Notify}}]
    \cup [op : {"fill", "reset"}, x : {Change, Notify}]
    \cup [op : {"topic"}, x : {"local", "alert"}]
    \cup [op : {"send"}]

Steps ==
  Inner
    \cup [op : {"set"}, p : Params, x : Values]
    \cup [op : {"store", "put"}, x : Names]
    \cup [op : {"started?"}, x : Seq(Inner)]
    \cup [op : {"write"}, x : Contents]
    \cup [op : {"fill"}, x : {"all"}]
    \cup [op : {"topic"}, x : {"init"}]
    \cup [op : {"fill mine", "reset mine"}, x : {Change}]
    \cup [op : {"answer", "alert topic", "send alert", "subscribe", "init done"}]

ParamTypes ==
  /\ value \in [Params -> Values] /\ cloud \in [Params -> Values \cup {Before}]
  /\ nvs \in [Names -> Values \cup {Junk}] /\ freed \subseteq Callers /\ unstored \subseteq Names
  /\ flags \in [Params -> SUBSET {Change, Notify}]
  /\ buf \in Contents /\ mine \in Contents
  /\ topic \in {"none", "local", "alert", "init"}
  /\ prog \in [Callers -> Seq(Steps)]
  /\ missed \subseteq Params \cup {"alert"}

FlagTypes ==
  /\ running \in BOOLEAN /\ listening \in BOOLEAN /\ initDone \in BOOLEAN /\ alert \in BOOLEAN

CountTypes == updates \in 0..MaxUpdates /\ failures \in 0..MaxFailures

\* What the steps have, by their kind.
Fields(e) ==
  /\ e.op \in Ops
  /\ e.op = "set" => e.p \in Params /\ e.x \in Values
  /\ e.op = "flag" => e.p \in Params /\ e.x \in {{Change}, {Change, Notify}}
  /\ e.op \in {"store", "put"} => e.x \in Names
  /\ e.op = "started?" => e.x \in Seq(Inner)
  /\ e.op = "write" => e.x \in Contents
  /\ e.op = "fill" => e.x \in {Change, Notify, "all"}
  /\ e.op = "reset" => e.x \in {Change, Notify}
  /\ e.op = "topic" => e.x \in {"local", "alert", "init"}
  /\ e.op \in {"fill mine", "reset mine"} => e.x = Change

LEMMA StepFields == ASSUME NEW e \in Steps PROVE Fields(e)
<1>1. CASE e \in Inner
  BY <1>1 DEF Inner, Ops, Fields
<1>2. CASE e \notin Inner
  BY <1>2 DEF Steps, Ops, Fields
<1> QED
  BY <1>1, <1>2

-----------------------------------------------------------------------------
(* Reports: sequences of steps *)

\* What taking the first step leaves.
LEMMA TailFacts ==
  ASSUME NEW S, NEW s \in Seq(S), s # <<>>
  PROVE  /\ Tail(s) \in Seq(S) /\ Len(s) \in Nat /\ Len(s) >= 1 /\ 1 \in 1..Len(s)
         /\ Len(Tail(s)) = Len(s) - 1 /\ Head(s) = s[1] /\ s[1] \in S
         /\ \A i \in 1..Len(Tail(s)) : Tail(s)[i] = s[i + 1]
         /\ Tail(s) # <<>> => Len(s) >= 2 /\ Head(Tail(s)) = s[2] /\ s[2] \in S
         /\ Len(s) >= 2 => Tail(s) # <<>>
OBVIOUS

LEMMA TailGood ==
  ASSUME NEW s \in Seq(Steps), s # <<>>, Good(s)
  PROVE  Good(Tail(s))
<1> DEFINE u == Tail(s)
<1>1. /\ Len(u) = Len(s) - 1 /\ \A i \in 1..Len(u) : u[i] = s[i + 1]
      /\ Len(s) \in Nat
  BY TailFacts
<1> HIDE DEF u
<1>2. Linked(u)
  <2> SUFFICES ASSUME NEW i \in 1..Len(u)
               PROVE  /\ Open(u[i]) => i + 1 <= Len(u) /\ Follows(u[i], u[i + 1])
                      /\ i + 1 <= Len(u) => Precedes(u[i], u[i + 1])
    BY DEF Linked
  <2>1. i + 1 \in 1..Len(s) /\ u[i] = s[i + 1]
    BY <1>1
  <2>2. i + 1 <= Len(u) => u[i + 1] = s[i + 2] /\ (i + 1) + 1 = i + 2
    BY <1>1
  <2>3. /\ Open(s[i + 1]) => i + 2 <= Len(s) /\ Follows(s[i + 1], s[i + 2])
        /\ i + 2 <= Len(s) => Precedes(s[i + 1], s[i + 2])
    <3>1. (i + 1) + 1 = i + 2
      BY <1>1
    <3> QED
      BY <2>1, <3>1 DEF Good, Linked
  <2> QED
    BY <1>1, <2>1, <2>2, <2>3
<1>3. Told(u)
  <2> SUFFICES ASSUME NEW i \in 1..Len(u), u[i].op \in {"write", "set", "flag"}
               PROVE  \E j \in 1..Len(u) : i < j /\ Tells(u[j])
    BY DEF Told
  <2>1. i + 1 \in 1..Len(s) /\ s[i + 1].op \in {"write", "set", "flag"}
    BY <1>1
  <2>3. PICK j \in 1..Len(s) : i + 1 < j /\ Tells(s[j])
    BY <2>1, Zenon DEF Good, Told
  <2>2. j - 1 \in 1..Len(u) /\ u[j - 1] = s[j] /\ i < j - 1
    BY <1>1, <2>3
  <2> QED
    BY <2>3, <2>2
<1>4. StartsWhole(u)
  BY <1>1 DEF Good, StartsWhole
<1> QED
  BY <1>2, <1>3, <1>4 DEF Good, u

\* Joining two lists of steps.
LEMMA JoinFacts ==
  ASSUME NEW S, NEW s \in Seq(S), NEW u \in Seq(S)
  PROVE  /\ s \o u \in Seq(S) /\ Len(s) \in Nat /\ Len(u) \in Nat
         /\ Len(s \o u) = Len(s) + Len(u)
         /\ \A i \in 1..Len(s) : i \in 1..Len(s \o u) /\ (s \o u)[i] = s[i]
         /\ \A i \in 1..Len(u) : Len(s) + i \in 1..Len(s \o u) /\ (s \o u)[Len(s) + i] = u[i]
         /\ \A i \in 1..Len(s \o u) :
              i \in 1..Len(s) \/ (i - Len(s) \in 1..Len(u) /\ (s \o u)[i] = u[i - Len(s)])
OBVIOUS

LEMMA JoinLinked ==
  ASSUME NEW s \in Seq(Steps), NEW u \in Seq(Steps), Linked(s), Linked(u), First(u),
         StartsWhole(s), StartsWhole(u)
  PROVE  Linked(s \o u) /\ StartsWhole(s \o u) /\ (First(s) => First(s \o u))
<1> DEFINE w == s \o u
<1>1. /\ Len(s) \in Nat /\ Len(u) \in Nat /\ Len(w) = Len(s) + Len(u)
      /\ \A i \in 1..Len(s) : w[i] = s[i]
      /\ \A i \in 1..Len(u) : w[Len(s) + i] = u[i]
      /\ \A i \in 1..Len(w) : i \in 1..Len(s) \/ (i - Len(s) \in 1..Len(u) /\ w[i] = u[i - Len(s)])
  BY JoinFacts
<1> HIDE DEF w
<1>2. ASSUME NEW i \in 1..Len(w)
      PROVE  /\ Open(w[i]) => i + 1 <= Len(w) /\ Follows(w[i], w[i + 1])
             /\ i + 1 <= Len(w) => Precedes(w[i], w[i + 1])
  <2>1. CASE i \in 1..Len(s) /\ i + 1 <= Len(s)
    <3>1. w[i] = s[i] /\ w[i + 1] = s[i + 1]
      BY <1>1, <2>1
    <3> QED
      BY <1>1, <2>1, <3>1 DEF Linked
  <2>2. CASE i = Len(s)
    <3>1. w[i] = s[i] /\ ~Open(s[i])
      BY <1>1, <1>2, <2>2 DEF Linked
    <3>2. i + 1 <= Len(w) => w[i + 1] = u[1] /\ ~Bound(u[1])
      BY <1>1, <2>2 DEF First
    <3> QED
      BY <3>1, <3>2 DEF Precedes, Bound, InReport, InAnswer
  <2>3. CASE i > Len(s)
    <3>1. PICK k : k = i - Len(s)
      OBVIOUS
    <3>2. k \in 1..Len(u) /\ w[i] = u[k] /\ i = Len(s) + k
      BY <1>1, <2>3, <3>1
    <3>3. k + 1 <= Len(u) => w[i + 1] = u[k + 1]
      <4>1. i + 1 = Len(s) + (k + 1)
        BY <1>1, <3>2
      <4> QED
        BY <1>1, <3>2, <4>1
    <3> QED
      BY <1>1, <3>2, <3>3 DEF Linked
  <2> QED
    BY <1>1, <2>1, <2>2, <2>3
<1>3. Linked(w)
  BY <1>2 DEF Linked
<1>4. StartsWhole(w)
  BY <1>1 DEF StartsWhole
<1>5. First(s) => First(w)
  <2>1. CASE Len(s) = 0
    <3>1. Len(w) > 0 => w[1] = u[1] /\ Len(u) > 0
      BY <1>1, <2>1
    <3> QED
      BY <3>1 DEF First
  <2>2. CASE Len(s) > 0
    BY <1>1, <2>2 DEF First
  <2> QED
    BY <1>1, <2>1, <2>2
<1> QED
  BY <1>3, <1>4, <1>5 DEF w

\* What is told in either part, or in what follows, is told.
LEMMA JoinTold ==
  ASSUME NEW s \in Seq(Steps), NEW u \in Seq(Steps), Told(u), Told(s) \/ HasTell(u)
  PROVE  Told(s \o u)
<1> DEFINE w == s \o u
<1>1. /\ Len(s) \in Nat /\ Len(u) \in Nat /\ Len(w) = Len(s) + Len(u)
      /\ \A i \in 1..Len(s) : i \in 1..Len(w) /\ w[i] = s[i]
      /\ \A i \in 1..Len(u) : Len(s) + i \in 1..Len(w) /\ w[Len(s) + i] = u[i]
      /\ \A i \in 1..Len(w) : i \in 1..Len(s) \/ (i - Len(s) \in 1..Len(u) /\ w[i] = u[i - Len(s)])
  BY JoinFacts
<1> HIDE DEF w
<1>2. ASSUME NEW i \in 1..Len(w), w[i].op \in {"write", "set", "flag"}
      PROVE  \E j \in 1..Len(w) : i < j /\ Tells(w[j])
  <2>1. CASE i \in 1..Len(s) /\ Told(s)
    <3>1. PICK j \in 1..Len(s) : i < j /\ Tells(s[j])
      BY <1>1, <1>2, <2>1 DEF Told
    <3> QED
      BY <1>1, <3>1
  <2>2. CASE i \in 1..Len(s) /\ HasTell(u)
    <3>1. PICK j \in 1..Len(u) : Tells(u[j])
      BY <2>2 DEF HasTell
    <3>2. i < Len(s) + j
      BY <1>1, <2>2, <3>1
    <3> QED
      BY <1>1, <3>1, <3>2
  <2>3. CASE i \notin 1..Len(s)
    <3>1. PICK k : k = i - Len(s)
      OBVIOUS
    <3>2. k \in 1..Len(u) /\ w[i] = u[k]
      BY <1>1, <2>3, <3>1
    <3>3. PICK j \in 1..Len(u) : k < j /\ Tells(u[j])
      BY <1>2, <3>2 DEF Told
    <3>4. i < Len(s) + j
      BY <1>1, <3>1, <3>3
    <3> QED
      BY <1>1, <3>3, <3>4
  <2> QED
    BY <2>1, <2>2, <2>3
<1> QED
  BY <1>2 DEF Told, w

\* What the steps left are going to do, they were going to do, and but for the
\* first step what was going to be done still is.
Keeps(s, u) ==
  /\ \A p \in Params : Marked(s, p) => Marked(u, p)
  /\ \A p \in Params : Stored(s, p) => Stored(u, p)
  /\ HasTell(s) => HasTell(u)
  /\ HasAll(s) => HasAll(u)

LEMMA TailKeeps ==
  ASSUME NEW s \in Seq(Steps), s # <<>>
  PROVE  /\ \A p \in Params : Marked(s, p) => Marked(Tail(s), p) \/ (s[1].op = "flag" /\ s[1].p = p)
         /\ \A p \in Params : Stored(s, p) => Stored(Tail(s), p) \/ (s[1].op = "put" /\ s[1].x = p)
         /\ HasTell(s) => HasTell(Tail(s)) \/ Tells(s[1])
         /\ HasAll(s) => HasAll(Tail(s)) \/ (s[1].op = "fill" /\ s[1].x = "all")
         /\ HasInit(Tail(s)) => HasInit(s)
<1> DEFINE u == Tail(s)
<1>1. /\ Len(u) = Len(s) - 1 /\ \A i \in 1..Len(u) : u[i] = s[i + 1]
      /\ Len(s) \in Nat
  BY TailFacts
<1>2. \A i \in 1..Len(s) : i = 1 \/ (i - 1 \in 1..Len(u) /\ u[i - 1] = s[i])
  BY <1>1
<1>0. \A i \in 1..Len(u) : i + 1 \in 1..Len(s) /\ s[i + 1] = u[i]
  BY <1>1
<1> HIDE DEF u
<1>3. \A p \in Params : Marked(s, p) => Marked(u, p) \/ (s[1].op = "flag" /\ s[1].p = p)
  BY <1>2 DEF Marked
<1>4. \A p \in Params : Stored(s, p) => Stored(u, p) \/ (s[1].op = "put" /\ s[1].x = p)
  BY <1>2 DEF Stored
<1>5. HasTell(s) => HasTell(u) \/ Tells(s[1])
  BY <1>2 DEF HasTell
<1>6. HasAll(s) => HasAll(u) \/ (s[1].op = "fill" /\ s[1].x = "all")
  BY <1>2 DEF HasAll
<1>7. HasInit(u) => HasInit(s)
  BY <1>0 DEF HasInit
<1> QED
  BY <1>3, <1>4, <1>5, <1>6, <1>7 DEF u

LEMMA JoinKeeps ==
  ASSUME NEW s \in Seq(Steps), NEW u \in Seq(Steps)
  PROVE  /\ Keeps(s, s \o u) /\ Keeps(u, s \o u)
         /\ HasInit(s \o u) => HasInit(s) \/ HasInit(u)
<1> DEFINE w == s \o u
<1>1. /\ Len(s) \in Nat
      /\ \A i \in 1..Len(s) : i \in 1..Len(w) /\ w[i] = s[i]
      /\ \A i \in 1..Len(u) : Len(s) + i \in 1..Len(w) /\ w[Len(s) + i] = u[i]
      /\ \A i \in 1..Len(w) : i \in 1..Len(s) \/ (i - Len(s) \in 1..Len(u) /\ w[i] = u[i - Len(s)])
  BY JoinFacts
<1> HIDE DEF w
<1>2. Keeps(s, w)
  BY <1>1 DEF Keeps, Marked, Stored, HasTell, HasAll
<1>3. Keeps(u, w)
  <2>0. \A i \in 1..Len(u) : \E k \in 1..Len(w) : w[k] = u[i]
    BY <1>1
  <2>1. \A p \in Params : Marked(u, p) => Marked(w, p)
    BY <2>0 DEF Marked
  <2>2. \A p \in Params : Stored(u, p) => Stored(w, p)
    BY <2>0 DEF Stored
  <2>3. HasTell(u) => HasTell(w)
    BY <2>0 DEF HasTell
  <2>4. HasAll(u) => HasAll(w)
    BY <2>0 DEF HasAll
  <2> QED
    BY <2>1, <2>2, <2>3, <2>4 DEF Keeps
<1>4. HasInit(w) => HasInit(s) \/ HasInit(u)
  BY <1>1 DEF HasInit
<1> QED
  BY <1>2, <1>3, <1>4 DEF w

-----------------------------------------------------------------------------
(* Reports: the calls *)

\* What any part of a call is, whatever comes after it.
Fits(s) ==
  /\ s \in Seq(Steps) /\ Linked(s) /\ StartsWhole(s) /\ First(s)
  /\ ~HasAll(s) /\ ~HasInit(s)

LEMMA EmptyFits == Fits(<<>>) /\ Told(<<>>)
BY DEF Fits, Linked, Told, StartsWhole, First, HasAll, HasInit

LEMMA JoinFits ==
  ASSUME NEW s, NEW u, Fits(s), Fits(u) PROVE Fits(s \o u)
<1>1. s \in Seq(Steps) /\ u \in Seq(Steps)
  BY DEF Fits
<1>2. s \o u \in Seq(Steps) /\ Linked(s \o u) /\ StartsWhole(s \o u) /\ First(s \o u)
  BY <1>1, JoinLinked, JoinFacts DEF Fits
<1>3. ~HasAll(s \o u)
  <2>1. \A i \in 1..Len(s \o u) :
          \/ i \in 1..Len(s) /\ (s \o u)[i] = s[i]
          \/ (i - Len(s) \in 1..Len(u) /\ (s \o u)[i] = u[i - Len(s)])
    BY <1>1, JoinFacts
  <2> QED
    BY <2>1 DEF Fits, HasAll
<1>4. ~HasInit(s \o u)
  BY <1>1, JoinKeeps DEF Fits
<1> QED
  BY <1>2, <1>3, <1>4 DEF Fits

\* One step that needs no other.
LEMMA OneFits ==
  ASSUME NEW e \in Steps, ~Open(e), ~Bound(e), e.op # "started?"
  PROVE  /\ Linked(<<e>>) /\ StartsWhole(<<e>>) /\ First(<<e>>)
         /\ e.op \notin {"write", "set", "flag"} => Told(<<e>>)
<1>1. Len(<<e>>) = 1 /\ <<e>>[1] = e
  OBVIOUS
<1>2. \A i \in 1..1 : i = 1 /\ ~(i + 1 <= 1)
  OBVIOUS
<1>3. Linked(<<e>>)
  BY <1>1, <1>2 DEF Linked
<1>4. StartsWhole(<<e>>)
  BY <1>1, <1>2 DEF StartsWhole
<1>5. First(<<e>>)
  BY <1>1 DEF First
<1>6. e.op \notin {"write", "set", "flag"} => Told(<<e>>)
  BY <1>1, <1>2 DEF Told
<1> QED
  BY <1>3, <1>4, <1>5, <1>6

LEMMA StoreValueFits ==
  ASSUME NEW p \in Names PROVE Fits(StoreValue(p)) /\ Told(StoreValue(p))
<1> DEFINE c == Of("store", p)
           d == Of("put", p)
           s == <<c, d>>
<1>1. /\ c.op = "store" /\ c.x = p
      /\ d.op = "put" /\ d.x = p
  BY DEF Of
<1>2. c \in Steps /\ d \in Steps
  BY DEF Of, Steps
<1> HIDE DEF c, d
<1>3. s \in Seq(Steps) /\ Len(s) = 2 /\ s[1] = c /\ s[2] = d
  BY <1>2
<1> HIDE DEF s
<1>4. \A i \in 1..Len(s) : i = 1 \/ i = 2
  BY <1>3
<1>5. Linked(s)
  <2>1. (Open(c) => Follows(c, d)) /\ Precedes(c, d) /\ ~Open(d)
    BY <1>1 DEF Open, Follows, Precedes
  <2>2. \A i \in 1..Len(s) :
          \/ s[i] = c /\ s[i + 1] = d /\ i + 1 <= Len(s)
          \/ s[i] = d /\ ~(i + 1 <= Len(s))
    BY <1>3, <1>4
  <2> QED
    BY <2>1, <2>2 DEF Linked
<1>6. StartsWhole(s) /\ First(s) /\ ~HasAll(s) /\ ~HasInit(s) /\ Told(s)
  BY <1>1, <1>3, <1>4 DEF StartsWhole, First, Bound, InReport, InAnswer, HasAll, HasInit, Told
<1>7. s = StoreValue(p)
  BY DEF s, c, d, StoreValue
<1> QED
  BY <1>3, <1>5, <1>6, <1>7 DEF Fits

LEMMA UpdateFits ==
  ASSUME NEW p \in Params, NEW v \in Values PROVE Fits(Update(p, v))
<1> DEFINE a == On("set", p, v)
           b == On("flag", p, {Change})
           r == StoreValue(p)
           s == <<a, b>> \o r
<1>1. /\ a.op = "set" /\ a.p = p /\ a.x = v
      /\ b.op = "flag" /\ b.p = p /\ b.x = {Change}
  BY DEF On
<1>2. a \in Steps /\ b \in Steps
  BY DEF On, Steps, Inner
<1>3. Fits(r) /\ r \in Seq(Steps)
  <2>1. CASE p \in Names
    BY <2>1, StoreValueFits DEF Fits
  <2>2. CASE p \notin Names
    <3>1. r = <<>>
      BY <2>2 DEF StoreValue
    <3> QED
      BY <3>1, EmptyFits DEF Fits
  <2> QED
    BY <2>1, <2>2
<1>4. /\ p \in Names => Len(r) >= 1 /\ r[1].op = "store" /\ r[1].x = p
      /\ Len(r) >= 1 => p \in Names
      /\ Len(r) \in Nat
  BY DEF StoreValue, Of
<1> HIDE DEF a, b, r
<1>5. /\ s \in Seq(Steps) /\ Len(s) = 2 + Len(r) /\ s[1] = a /\ s[2] = b
      /\ \A i \in 1..Len(r) : s[i + 2] = r[i]
  BY <1>2, <1>3
<1> HIDE DEF s
<1>6. \A i \in 1..Len(s) : i = 1 \/ i = 2 \/ (i - 2 \in 1..Len(r) /\ s[i] = r[i - 2])
  BY <1>4, <1>5
<1>7. Linked(s)
  <2>1. /\ Follows(a, b) /\ Precedes(a, b)
        /\ Len(r) >= 1 => Follows(b, r[1]) /\ Precedes(b, r[1])
        /\ Open(b) => Len(r) >= 1
    BY <1>1, <1>4 DEF Open, Follows, Precedes
  <2>2. ASSUME NEW i \in 1..Len(s)
        PROVE  /\ Open(s[i]) => i + 1 <= Len(s) /\ Follows(s[i], s[i + 1])
               /\ i + 1 <= Len(s) => Precedes(s[i], s[i + 1])
    <3>1. CASE i = 1
      <4>1. s[i] = a /\ s[i + 1] = b /\ i + 1 <= Len(s)
        BY <1>4, <1>5, <3>1
      <4> QED
        BY <2>1, <4>1
    <3>2. CASE i = 2
      <4>1. s[i] = b /\ (i + 1 <= Len(s) <=> Len(r) >= 1)
        BY <1>4, <1>5, <3>2
      <4>2. Len(r) >= 1 => s[i + 1] = r[1]
        BY <1>4, <1>5, <3>2
      <4> QED
        BY <2>1, <4>1, <4>2
    <3>3. CASE i - 2 \in 1..Len(r) /\ s[i] = r[i - 2]
      <4> DEFINE j == i - 2
      <4>1. j \in 1..Len(r) /\ s[i] = r[j] /\ (i + 1 <= Len(s) <=> j + 1 <= Len(r))
        BY <1>4, <1>5, <3>3
      <4>2. j + 1 <= Len(r) => s[i + 1] = r[j + 1]
        <5>1. j \in Int /\ i + 1 = (j + 1) + 2
          BY <3>3
        <5> QED
          BY <1>4, <1>5, <4>1, <5>1
      <4>3. /\ Open(r[j]) => j + 1 <= Len(r) /\ Follows(r[j], r[j + 1])
            /\ j + 1 <= Len(r) => Precedes(r[j], r[j + 1])
        BY <1>3, <4>1 DEF Fits, Linked
      <4> QED
        BY <4>1, <4>2, <4>3
    <3> QED
      BY <1>6, <3>1, <3>2, <3>3
  <2> QED
    BY <2>2 DEF Linked
<1>8. StartsWhole(s)
  <2> SUFFICES ASSUME NEW i \in 1..Len(s), s[i].op = "started?" PROVE Whole(s[i].x) /\ HasTell(s[i].x)
    BY DEF StartsWhole
  <2>1. i - 2 \in 1..Len(r) /\ s[i] = r[i - 2]
    BY <1>1, <1>5, <1>6
  <2> QED
    BY <1>3, <2>1 DEF Fits, StartsWhole
<1>9. First(s)
  BY <1>1, <1>5 DEF First, Bound, InReport, InAnswer
<1>10. ~HasAll(s) /\ ~HasInit(s)
  <2>1. \A i \in 1..Len(r) : ~(r[i].op = "fill" /\ r[i].x = "all") /\ r[i].op # "init done"
    BY <1>3 DEF Fits, HasAll, HasInit
  <2>2. \A i \in 1..Len(s) : ~(s[i].op = "fill" /\ s[i].x = "all") /\ s[i].op # "init done"
    BY <1>1, <1>5, <1>6, <2>1
  <2> QED
    BY <2>2 DEF HasAll, HasInit
<1>11. s = Update(p, v)
  BY DEF s, a, b, r, Update
<1> QED
  BY <1>5, <1>7, <1>8, <1>9, <1>10, <1>11 DEF Fits

LEMMA InnerSteps == \A s \in Seq(Inner) : s \in Seq(Steps)
<1>1. Inner \subseteq Steps
  BY DEF Steps
<1> QED
  BY <1>1

LEMMA ReportFits ==
  ASSUME NEW k \in {Change, Notify}
  PROVE  /\ Report(k) \in Seq(Inner) /\ Fits(Report(k)) /\ Told(Report(k))
         /\ k = Change => HasTell(Report(k))
<1> DEFINE a == Of("fill", k)
           b == Of("reset", k)
           c == Of("topic", IF k = Change THEN "local" ELSE "alert")
           d == Step("send")
           s == <<a, b, c, d>>
<1>1. /\ a.op = "fill" /\ a.x = k
      /\ b.op = "reset" /\ b.x = k
      /\ c.op = "topic" /\ (k = Change => c.x = "local")
      /\ d.op = "send"
  BY DEF Of, Step
<1>2. a \in Inner /\ b \in Inner /\ c \in Inner /\ d \in Inner
  BY DEF Of, Step, Inner
<1> HIDE DEF a, b, c, d
<1>3. s \in Seq(Inner) /\ Len(s) = 4 /\ s[1] = a /\ s[2] = b /\ s[3] = c /\ s[4] = d
  BY <1>2
<1> HIDE DEF s
<1>4. \A i \in 1..Len(s) : i = 1 \/ i = 2 \/ i = 3 \/ i = 4
  BY <1>3
<1>5. Linked(s)
  <2>1. /\ (Open(a) => Follows(a, b)) /\ Precedes(a, b)
        /\ (Open(b) => Follows(b, c)) /\ Precedes(b, c)
        /\ (Open(c) => Follows(c, d)) /\ Precedes(c, d)
    BY <1>1 DEF Open, Follows, Precedes, Change, Notify
  <2>2. ~Open(d)
    BY <1>1 DEF Open
  <2>3. ASSUME NEW i \in 1..Len(s), i = 1
        PROVE  /\ Open(s[i]) => i + 1 <= Len(s) /\ Follows(s[i], s[i + 1])
               /\ i + 1 <= Len(s) => Precedes(s[i], s[i + 1])
    <3>1. s[i] = a /\ s[i + 1] = b /\ i + 1 <= Len(s)
      BY <1>3, <2>3
    <3> QED
      BY <2>1, <3>1
  <2>4. ASSUME NEW i \in 1..Len(s), i = 2
        PROVE  /\ Open(s[i]) => i + 1 <= Len(s) /\ Follows(s[i], s[i + 1])
               /\ i + 1 <= Len(s) => Precedes(s[i], s[i + 1])
    <3>1. s[i] = b /\ s[i + 1] = c /\ i + 1 <= Len(s)
      BY <1>3, <2>4
    <3> QED
      BY <2>1, <3>1
  <2>5. ASSUME NEW i \in 1..Len(s), i = 3
        PROVE  /\ Open(s[i]) => i + 1 <= Len(s) /\ Follows(s[i], s[i + 1])
               /\ i + 1 <= Len(s) => Precedes(s[i], s[i + 1])
    <3>1. s[i] = c /\ s[i + 1] = d /\ i + 1 <= Len(s)
      BY <1>3, <2>5
    <3> QED
      BY <2>1, <3>1
  <2>6. ASSUME NEW i \in 1..Len(s), i = 4
        PROVE  /\ Open(s[i]) => i + 1 <= Len(s) /\ Follows(s[i], s[i + 1])
               /\ i + 1 <= Len(s) => Precedes(s[i], s[i + 1])
    <3>1. s[i] = d /\ ~(i + 1 <= Len(s))
      BY <1>3, <2>6
    <3> QED
      BY <2>2, <3>1
  <2> QED
    BY <1>4, <2>3, <2>4, <2>5, <2>6 DEF Linked
<1>6. StartsWhole(s) /\ First(s) /\ ~HasAll(s) /\ ~HasInit(s) /\ Told(s)
  BY <1>1, <1>3, <1>4 DEF StartsWhole, First, Bound, InReport, InAnswer, HasAll, HasInit, Told, Change, Notify
<1>7. k = Change => HasTell(s)
  <2>1. 1 \in 1..Len(s) /\ (k = Change => Tells(s[1]))
    <3>1. 1 \in 1..Len(s) /\ s[1] = a
      BY <1>3
    <3> QED
      BY <1>1, <3>1 DEF Tells
  <2> QED
    BY <2>1 DEF HasTell
<1>8. s = Report(k)
  BY DEF s, a, b, c, d, Report
<1> QED
  BY <1>3, <1>5, <1>6, <1>7, <1>8, InnerSteps DEF Fits

\* A report that waits until the node runs.
LEMMA StartedFits ==
  ASSUME NEW r \in Seq(Inner), Whole(r), HasTell(r)
  PROVE  LET s == <<Of("started?", r)>> IN Fits(s) /\ Told(s) /\ HasTell(s)
<1> DEFINE e == Of("started?", r)
           s == <<e>>
<1>1. e.op = "started?" /\ e.x = r
  BY DEF Of
<1>2. e \in Steps
  BY DEF Of, Steps
<1> HIDE DEF e
<1>3. s \in Seq(Steps) /\ Len(s) = 1 /\ s[1] = e
  BY <1>2
<1> HIDE DEF s
<1>4. \A i \in 1..Len(s) : i = 1
  BY <1>3
<1>5. Linked(s)
  <2>1. ~Open(e)
    BY <1>1 DEF Open
  <2>2. \A i \in 1..Len(s) : s[i] = e /\ ~(i + 1 <= Len(s))
    BY <1>3
  <2> QED
    BY <2>1, <2>2 DEF Linked
<1>6. StartsWhole(s) /\ First(s) /\ ~HasAll(s) /\ ~HasInit(s) /\ Told(s)
  BY <1>1, <1>3, <1>4 DEF StartsWhole, First, Bound, InReport, InAnswer, HasAll, HasInit, Told
<1>7. HasTell(s)
  <2>1. 1 \in 1..Len(s) /\ Tells(s[1])
    <3>1. 1 \in 1..Len(s) /\ s[1] = e
      BY <1>3
    <3> QED
      BY <1>1, <3>1 DEF Tells
  <2> QED
    BY <2>1 DEF HasTell
<1> QED
  BY <1>3, <1>5, <1>6, <1>7 DEF Fits, s, e

LEMMA JoinHasTell ==
  ASSUME NEW s, NEW u, Fits(s), Fits(u)
  PROVE  /\ HasTell(s) \/ HasTell(u) => HasTell(s \o u)
         /\ Told(u) /\ (Told(s) \/ HasTell(u)) => Told(s \o u)
BY JoinKeeps, JoinTold DEF Fits, Keeps

LEMMA UpdateAndReportFits ==
  ASSUME NEW p \in Params, NEW v \in Values
  PROVE  LET s == UpdateAndReport(p, v) IN Fits(s) /\ Told(s)
<1> DEFINE u == <<Of("started?", Report(Change))>>
<1>1. Fits(u) /\ Told(u) /\ HasTell(u)
  BY ReportFits, StartedFits DEF Whole, Fits
<1>2. Fits(Update(p, v))
  BY UpdateFits
<1> HIDE DEF u
<1>3. Fits(Update(p, v) \o u) /\ Told(Update(p, v) \o u)
  BY <1>1, <1>2, JoinFits, JoinHasTell
<1> QED
  BY <1>3 DEF UpdateAndReport, u

LEMMA UpdateAndNotifyFits ==
  ASSUME NEW p \in Params, NEW v \in Values
  PROVE  LET s == UpdateAndNotify(p, v) IN Fits(s) /\ Told(s)
<1> DEFINE e == On("flag", p, {Change, Notify})
           f == <<e>>
           r == (f \o Report(Notify)) \o Report(Change)
           u == <<Of("started?", r)>>
<1>0. /\ e \in Inner /\ e \in Steps
      /\ e.op = "flag" /\ e.x = {Change, Notify}
  BY DEF On, Steps, Inner
<1>1. ~Open(e) /\ ~Bound(e)
  <2>1. {Change, Notify} # {Change}
    BY DEF Change, Notify
  <2> QED
    BY <1>0, <2>1 DEF Open, Bound, InReport, InAnswer
<1> HIDE DEF e
<1>2. f \in Seq(Inner) /\ f \in Seq(Steps) /\ Len(f) = 1 /\ f[1] = e
  BY <1>0
<1>3. Fits(f)
  <2>1. Linked(f) /\ StartsWhole(f) /\ First(f)
    BY <1>0, <1>1, OneFits
  <2>2. ~HasAll(f) /\ ~HasInit(f)
    <3>1. \A i \in 1..Len(f) : f[i] = e
      BY <1>2
    <3> QED
      BY <1>0, <3>1 DEF HasAll, HasInit
  <2> QED
    BY <1>2, <2>1, <2>2 DEF Fits
<1> HIDE DEF f
<1>4. /\ Report(Notify) \in Seq(Inner) /\ Fits(Report(Notify))
      /\ Report(Change) \in Seq(Inner) /\ Fits(Report(Change))
      /\ Told(Report(Change)) /\ HasTell(Report(Change))
  BY ReportFits
<1>5. f \o Report(Notify) \in Seq(Inner) /\ Fits(f \o Report(Notify))
  BY <1>2, <1>3, <1>4, JoinFits, JoinFacts
<1>6. r \in Seq(Inner) /\ Fits(r) /\ Told(r) /\ HasTell(r)
  BY <1>4, <1>5, JoinFits, JoinHasTell, JoinFacts
<1> HIDE DEF r
<1>7. Fits(u) /\ Told(u) /\ HasTell(u)
  BY <1>6, StartedFits DEF Whole, Fits
<1>8. Fits(Update(p, v))
  BY UpdateFits
<1> HIDE DEF u
<1>9. Fits(Update(p, v) \o u) /\ Told(Update(p, v) \o u)
  BY <1>7, <1>8, JoinFits, JoinHasTell
<1> QED
  BY <1>9 DEF UpdateAndNotify, u, r, f, e

\* The parameters of a request, which anything that tells may follow.
LEMMA WriteFits ==
  ASSUME NEW p \in Params, NEW v \in Values PROVE Fits(Write(p, v))
BY UpdateFits, UpdateAndReportFits DEF Write

LEMMA ContentFacts ==
  /\ \A c \in Contents : DOMAIN c \subseteq Params /\ \A p \in DOMAIN c : c[p] \in Values
  /\ \A P \in SUBSET Params : [P -> Values] \subseteq Contents
  /\ Nothing \in Contents /\ DOMAIN Nothing = {}
<1>1. \A c \in Contents : DOMAIN c \subseteq Params /\ \A p \in DOMAIN c : c[p] \in Values
  BY DEF Contents
<1>2. \A P \in SUBSET Params : [P -> Values] \subseteq Contents
  BY DEF Contents
<1>3. DOMAIN Nothing = {}
  BY DEF Nothing
<1>4. Nothing \in [{} -> Values]
  BY DEF Nothing
<1> QED
  BY <1>1, <1>2, <1>3, <1>4

LEMMA WritesFits ==
  ASSUME NEW W \in Contents PROVE Fits(Writes(W))
<1>1. CASE DOMAIN W = {}
  BY <1>1, EmptyFits DEF Writes
<1>2. CASE DOMAIN W # {}
  <2> DEFINE e == Of("write", W)
             s == <<e>>
  <2>1. e \in Steps /\ e.op = "write"
    BY DEF Of, Steps
  <2>2. ~Open(e) /\ ~Bound(e)
    BY <2>1 DEF Open, Bound, InReport, InAnswer
  <2> HIDE DEF e
  <2>3. s \in Seq(Steps) /\ Len(s) = 1 /\ s[1] = e
    BY <2>1
  <2>4. Linked(s) /\ StartsWhole(s) /\ First(s)
    BY <2>1, <2>2, OneFits
  <2> HIDE DEF s
  <2>5. ~HasAll(s) /\ ~HasInit(s)
    <3>1. \A i \in 1..Len(s) : s[i] = e
      BY <2>3
    <3> QED
      BY <2>1, <3>1 DEF HasAll, HasInit
  <2>6. Fits(s)
    BY <2>3, <2>4, <2>5 DEF Fits
  <2> QED
    BY <1>2, <2>6 DEF Writes, s, e
<1> QED
  BY <1>1, <1>2

LEMMA SetParamsFits ==
  ASSUME NEW W \in Contents
  PROVE  LET s == SetParams(W) IN Fits(s) /\ Told(s)
<1>1. Fits(Writes(W)) /\ Fits(Report(Change)) /\ Told(Report(Change)) /\ HasTell(Report(Change))
  BY WritesFits, ReportFits
<1> QED
  BY <1>1, JoinFits, JoinHasTell DEF SetParams

LEMMA CommandFits ==
  ASSUME NEW W \in Contents
  PROVE  LET s == Command(W) IN Fits(s) /\ Told(s)
<1> DEFINE a == Of("fill mine", Change)
           b == Of("reset mine", Change)
           c == Step("answer")
           s == <<a, b, c>>
<1>1. a.op = "fill mine" /\ b.op = "reset mine" /\ c.op = "answer"
  BY DEF Of, Step
<1>2. a \in Steps /\ b \in Steps /\ c \in Steps
  BY DEF Of, Step, Steps
<1> HIDE DEF a, b, c
<1>3. s \in Seq(Steps) /\ Len(s) = 3 /\ s[1] = a /\ s[2] = b /\ s[3] = c
  BY <1>2
<1> HIDE DEF s
<1>4. \A i \in 1..Len(s) : i = 1 \/ i = 2 \/ i = 3
  BY <1>3
<1>5. Linked(s)
  <2>1. /\ (Open(a) => Follows(a, b)) /\ Precedes(a, b)
        /\ (Open(b) => Follows(b, c)) /\ Precedes(b, c)
    BY <1>1 DEF Open, Follows, Precedes
  <2>2. ~Open(c)
    BY <1>1 DEF Open
  <2>3. ASSUME NEW i \in 1..Len(s), i = 1
        PROVE  /\ Open(s[i]) => i + 1 <= Len(s) /\ Follows(s[i], s[i + 1])
               /\ i + 1 <= Len(s) => Precedes(s[i], s[i + 1])
    <3>1. s[i] = a /\ s[i + 1] = b /\ i + 1 <= Len(s)
      BY <1>3, <2>3
    <3> QED
      BY <2>1, <3>1
  <2>4. ASSUME NEW i \in 1..Len(s), i = 2
        PROVE  /\ Open(s[i]) => i + 1 <= Len(s) /\ Follows(s[i], s[i + 1])
               /\ i + 1 <= Len(s) => Precedes(s[i], s[i + 1])
    <3>1. s[i] = b /\ s[i + 1] = c /\ i + 1 <= Len(s)
      BY <1>3, <2>4
    <3> QED
      BY <2>1, <3>1
  <2>5. ASSUME NEW i \in 1..Len(s), i = 3
        PROVE  /\ Open(s[i]) => i + 1 <= Len(s) /\ Follows(s[i], s[i + 1])
               /\ i + 1 <= Len(s) => Precedes(s[i], s[i + 1])
    <3>1. s[i] = c /\ ~(i + 1 <= Len(s))
      BY <1>3, <2>5
    <3> QED
      BY <2>2, <3>1
  <2> QED
    BY <1>4, <2>3, <2>4, <2>5 DEF Linked
<1>6. StartsWhole(s) /\ First(s) /\ ~HasAll(s) /\ ~HasInit(s) /\ Told(s) /\ HasTell(s)
  <2>1. StartsWhole(s) /\ First(s) /\ ~HasAll(s) /\ ~HasInit(s) /\ Told(s)
    BY <1>1, <1>3, <1>4 DEF StartsWhole, First, Bound, InReport, InAnswer, HasAll, HasInit, Told
  <2>2. 1 \in 1..Len(s) /\ Tells(s[1])
    <3>1. 1 \in 1..Len(s) /\ s[1] = a
      BY <1>3
    <3> QED
      BY <1>1, <3>1 DEF Tells
  <2> QED
    BY <2>1, <2>2 DEF HasTell
<1>7. Fits(s)
  BY <1>3, <1>5, <1>6 DEF Fits
<1>8. Fits(Writes(W))
  BY WritesFits
<1>9. Fits(Writes(W) \o s) /\ Told(Writes(W) \o s)
  BY <1>6, <1>7, <1>8, JoinFits, JoinHasTell
<1> QED
  BY <1>9 DEF Command, s, a, b, c

LEMMA AlertFits ==
  LET s == <<Step("alert topic"), Step("send alert")>> IN Fits(s) /\ Told(s) /\ Head(s).op = "alert topic"
<1> DEFINE a == Step("alert topic")
           b == Step("send alert")
           s == <<a, b>>
<1>1. a.op = "alert topic" /\ b.op = "send alert"
  BY DEF Step
<1>2. a \in Steps /\ b \in Steps
  BY DEF Step, Steps
<1> HIDE DEF a, b
<1>3. s \in Seq(Steps) /\ Len(s) = 2 /\ s[1] = a /\ s[2] = b /\ Head(s) = a
  BY <1>2
<1> HIDE DEF s
<1>4. \A i \in 1..Len(s) : i = 1 \/ i = 2
  BY <1>3
<1>5. Linked(s)
  <2>1. /\ (Open(a) => Follows(a, b)) /\ Precedes(a, b)
    BY <1>1 DEF Open, Follows, Precedes
  <2>2. ~Open(b)
    BY <1>1 DEF Open
  <2>3. ASSUME NEW i \in 1..Len(s), i = 1
        PROVE  /\ Open(s[i]) => i + 1 <= Len(s) /\ Follows(s[i], s[i + 1])
               /\ i + 1 <= Len(s) => Precedes(s[i], s[i + 1])
    <3>1. s[i] = a /\ s[i + 1] = b /\ i + 1 <= Len(s)
      BY <1>3, <2>3
    <3> QED
      BY <2>1, <3>1
  <2>4. ASSUME NEW i \in 1..Len(s), i = 2
        PROVE  /\ Open(s[i]) => i + 1 <= Len(s) /\ Follows(s[i], s[i + 1])
               /\ i + 1 <= Len(s) => Precedes(s[i], s[i + 1])
    <3>1. s[i] = b /\ ~(i + 1 <= Len(s))
      BY <1>3, <2>4
    <3> QED
      BY <2>2, <3>1
  <2> QED
    BY <1>4, <2>3, <2>4 DEF Linked
<1>6. StartsWhole(s) /\ First(s) /\ ~HasAll(s) /\ ~HasInit(s) /\ Told(s)
  BY <1>1, <1>3, <1>4 DEF StartsWhole, First, Bound, InReport, InAnswer, HasAll, HasInit, Told
<1> QED
  BY <1>1, <1>3, <1>5, <1>6 DEF Fits, s, a, b

LEMMA JoinFive ==
  ASSUME NEW S, NEW a \in S, NEW b \in S, NEW c \in S, NEW d \in S, NEW e \in S
  PROVE  <<a, b>> \o <<c, d, e>> = <<a, b, c, d, e>>
<1>1. <<a, b>> \in Seq(S) /\ <<c, d, e>> \in Seq(S) /\ <<a, b, c, d, e>> \in Seq(S)
  OBVIOUS
<1>2. Len(<<a, b>> \o <<c, d, e>>) = 5 /\ <<a, b>> \o <<c, d, e>> \in Seq(S)
  BY <1>1, ConcatProperties
<1>3. \A i \in 1..5 : i = 1 \/ i = 2 \/ i = 3 \/ i = 4 \/ i = 5
  OBVIOUS
<1>4. \A i \in 1..5 : (<<a, b>> \o <<c, d, e>>)[i] = <<a, b, c, d, e>>[i]
  BY <1>1, <1>3
<1> QED
  BY <1>1, <1>2, <1>4, SeqEqual

LEMMA InitGood ==
  LET s == MqttInit IN s \in Seq(Steps) /\ Good(s) /\ First(s)
<1> DEFINE a == Step("subscribe")
           b == Step("init done")
           c == Of("fill", "all")
           d == Of("topic", "init")
           e == Step("send")
           s == <<a, b, c, d, e>>
<1>1. /\ a.op = "subscribe" /\ b.op = "init done" /\ c.op = "fill" /\ c.x = "all"
      /\ d.op = "topic" /\ d.x = "init" /\ e.op = "send"
  BY DEF Of, Step
<1>2. a \in Steps /\ b \in Steps /\ c \in Steps /\ d \in Steps /\ e \in Steps
  BY DEF Of, Step, Steps, Inner
<1>0. MqttInit = s
  <2>1. MqttInit = <<a, b>> \o <<c, d, e>>
    BY DEF MqttInit, NodeState
  <2> HIDE DEF a, b, c, d, e
  <2>2. <<a, b>> \o <<c, d, e>> = <<a, b, c, d, e>>
    BY <1>2, JoinFive
  <2> QED
    BY <2>1, <2>2
<1> HIDE DEF a, b, c, d, e
<1>3. s \in Seq(Steps) /\ Len(s) = 5 /\ s[1] = a /\ s[2] = b /\ s[3] = c /\ s[4] = d /\ s[5] = e
  BY <1>2
<1> HIDE DEF s
<1>4. \A i \in 1..Len(s) : i = 1 \/ i = 2 \/ i = 3 \/ i = 4 \/ i = 5
  BY <1>3
<1>5. Linked(s)
  <2>1. /\ (Open(a) => Follows(a, b)) /\ Precedes(a, b)
        /\ (Open(b) => Follows(b, c)) /\ Precedes(b, c)
        /\ (Open(c) => Follows(c, d)) /\ Precedes(c, d)
        /\ (Open(d) => Follows(d, e)) /\ Precedes(d, e)
    BY <1>1 DEF Open, Follows, Precedes, Change
  <2>2. ~Open(e)
    BY <1>1 DEF Open
  <2>3. ASSUME NEW i \in 1..Len(s), i = 1
        PROVE  /\ Open(s[i]) => i + 1 <= Len(s) /\ Follows(s[i], s[i + 1])
               /\ i + 1 <= Len(s) => Precedes(s[i], s[i + 1])
    <3>1. s[i] = a /\ s[i + 1] = b /\ i + 1 <= Len(s)
      BY <1>3, <2>3
    <3> QED
      BY <2>1, <3>1
  <2>4. ASSUME NEW i \in 1..Len(s), i = 2
        PROVE  /\ Open(s[i]) => i + 1 <= Len(s) /\ Follows(s[i], s[i + 1])
               /\ i + 1 <= Len(s) => Precedes(s[i], s[i + 1])
    <3>1. s[i] = b /\ s[i + 1] = c /\ i + 1 <= Len(s)
      BY <1>3, <2>4
    <3> QED
      BY <2>1, <3>1
  <2>5. ASSUME NEW i \in 1..Len(s), i = 3
        PROVE  /\ Open(s[i]) => i + 1 <= Len(s) /\ Follows(s[i], s[i + 1])
               /\ i + 1 <= Len(s) => Precedes(s[i], s[i + 1])
    <3>1. s[i] = c /\ s[i + 1] = d /\ i + 1 <= Len(s)
      BY <1>3, <2>5
    <3> QED
      BY <2>1, <3>1
  <2>6. ASSUME NEW i \in 1..Len(s), i = 4
        PROVE  /\ Open(s[i]) => i + 1 <= Len(s) /\ Follows(s[i], s[i + 1])
               /\ i + 1 <= Len(s) => Precedes(s[i], s[i + 1])
    <3>1. s[i] = d /\ s[i + 1] = e /\ i + 1 <= Len(s)
      BY <1>3, <2>6
    <3> QED
      BY <2>1, <3>1
  <2>7. ASSUME NEW i \in 1..Len(s), i = 5
        PROVE  /\ Open(s[i]) => i + 1 <= Len(s) /\ Follows(s[i], s[i + 1])
               /\ i + 1 <= Len(s) => Precedes(s[i], s[i + 1])
    <3>1. s[i] = e /\ ~(i + 1 <= Len(s))
      BY <1>3, <2>7
    <3> QED
      BY <2>2, <3>1
  <2> QED
    BY <1>4, <2>3, <2>4, <2>5, <2>6, <2>7 DEF Linked
<1>6. StartsWhole(s) /\ First(s) /\ Told(s)
  BY <1>1, <1>3, <1>4 DEF StartsWhole, First, Bound, InReport, InAnswer, Told
<1> QED
  BY <1>0, <1>3, <1>5, <1>6 DEF Good

-----------------------------------------------------------------------------
(* Reports: what a step leaves of the calls *)

\* A step of t takes nothing from what the calls are going to do, but for itself.
Continues(t, e) ==
  /\ prog' \in [Callers -> Seq(Steps)] /\ Calls'
  /\ \A u \in Others(t) : prog'[u] = prog[u]
  /\ \A p \in Params : ToFlag(p) => ToFlag(p)' \/ (e.op = "flag" /\ e.p = p)
  /\ \A p \in Params : ToStore(p) => ToStore(p)' \/ (e.op = "put" /\ e.x = p)
  /\ Telling => Telling' \/ Tells(e)
  /\ \A u \in Callers : HasAll(prog[u]) => HasAll(prog'[u]) \/ (u = t /\ e.op = "fill" /\ e.x = "all")

\* The step t takes next, and the steps it has left.
Front(t, s, e) ==
  /\ s = prog[t] /\ s \in Seq(Steps) /\ s # <<>> /\ e = Head(s) /\ e = s[1]
  /\ e \in Steps /\ Fields(e) /\ Good(s) /\ Len(s) \in Nat /\ Len(s) >= 1 /\ 1 \in 1..Len(s)

LEMMA FrontFacts ==
  ASSUME ParamTypes, Calls, NEW t \in Callers, ~Idle(t)
  PROVE  Front(t, prog[t], Head(prog[t]))
<1>1. prog[t] \in Seq(Steps) /\ prog[t] # <<>> /\ Good(prog[t])
  BY DEF ParamTypes, Calls, Idle
<1>2. Head(prog[t]) = prog[t][1] /\ prog[t][1] \in Steps /\ Len(prog[t]) \in Nat /\ Len(prog[t]) >= 1
      /\ 1 \in 1..Len(prog[t])
  BY <1>1, TailFacts
<1> QED
  BY <1>1, <1>2, StepFields DEF Front

\* From what the task itself has left, to all calls.
LEMMA ContinuesAll ==
  ASSUME ParamTypes, Calls, NEW t \in Callers, NEW e, NEW s \in Seq(Steps), Good(s),
         prog' = [prog EXCEPT ![t] = s],
         \A p \in Params : Marked(prog[t], p) => Marked(s, p) \/ (e.op = "flag" /\ e.p = p),
         \A p \in Params : Stored(prog[t], p) => Stored(s, p) \/ (e.op = "put" /\ e.x = p),
         HasTell(prog[t]) => HasTell(s) \/ Tells(e),
         HasAll(prog[t]) => HasAll(s) \/ (e.op = "fill" /\ e.x = "all")
  PROVE  Continues(t, e) /\ prog'[t] = s
<1>1. prog \in [Callers -> Seq(Steps)]
  BY DEF ParamTypes
<1>2. /\ prog' \in [Callers -> Seq(Steps)] /\ prog'[t] = s
      /\ \A u \in Callers : u # t => prog'[u] = prog[u]
  BY <1>1
<1>3. Calls'
  <2>1. \A u \in Callers : Good(prog'[u])
    BY <1>2 DEF Calls
  <2> QED
    BY <2>1 DEF Calls
<1>4. \A p \in Params : ToFlag(p) => ToFlag(p)' \/ (e.op = "flag" /\ e.p = p)
  <2> SUFFICES ASSUME NEW p \in Params, NEW u \in Callers, Marked(prog[u], p)
               PROVE  (\E r \in Callers : Marked(prog'[r], p)) \/ (e.op = "flag" /\ e.p = p)
    BY DEF ToFlag
  <2> QED
    BY <1>2
<1>5. \A p \in Params : ToStore(p) => ToStore(p)' \/ (e.op = "put" /\ e.x = p)
  <2> SUFFICES ASSUME NEW p \in Params, NEW u \in Callers, Stored(prog[u], p)
               PROVE  (\E r \in Callers : Stored(prog'[r], p)) \/ (e.op = "put" /\ e.x = p)
    BY DEF ToStore
  <2> QED
    BY <1>2
<1>6. Telling => Telling' \/ Tells(e)
  <2> SUFFICES ASSUME NEW u \in Callers, HasTell(prog[u])
               PROVE  (\E r \in Callers : HasTell(prog'[r])) \/ Tells(e)
    BY DEF Telling
  <2> QED
    BY <1>2
<1> QED
  BY <1>2, <1>3, <1>4, <1>5, <1>6 DEF Continues, Others

\* The first two steps.
LEMMA FirstTwo ==
  ASSUME NEW s \in Seq(Steps), s # <<>>, Good(s)
  PROVE  /\ Open(s[1]) => Len(s) >= 2 /\ Follows(s[1], s[2])
         /\ Len(s) >= 2 => Precedes(s[1], s[2])
<1>1. Len(s) \in Nat /\ Len(s) >= 1
  BY TailFacts
<1>2. 1 \in 1..Len(s) /\ 1 + 1 = 2
  BY <1>1
<1> QED
  BY <1>1, <1>2 DEF Good, Linked

\* Taking the step that comes next, and no other.
Succeeds(t, e) ==
  /\ Continues(t, e)
  /\ prog'[t] # <<>> => Precedes(e, Head(prog'[t]))
  /\ Open(e) => prog'[t] # <<>> /\ Follows(e, Head(prog'[t]))
  /\ e.op = "flag" => HasTell(prog'[t])
  /\ e.op = "set" /\ e.p \in Names => Stored(prog'[t], e.p)
  /\ \A u \in Callers : HasInit(prog'[u]) => HasInit(prog[u])

LEMMA DoneSucceeds ==
  ASSUME ParamTypes, Calls, NEW t \in Callers, ~Idle(t), Done(t)
  PROVE  Succeeds(t, Head(prog[t])) /\ prog'[t] = Tail(prog[t])
<1> DEFINE s == prog[t]
           e == Head(s)
           u == Tail(s)
<1>1. Front(t, s, e)
  BY FrontFacts
<1>2. u \in Seq(Steps) /\ Good(u)
  BY <1>1, TailFacts, TailGood DEF Front
<1>3. /\ \A p \in Params : Marked(s, p) => Marked(u, p) \/ (e.op = "flag" /\ e.p = p)
      /\ \A p \in Params : Stored(s, p) => Stored(u, p) \/ (e.op = "put" /\ e.x = p)
      /\ HasTell(s) => HasTell(u) \/ Tells(e)
      /\ HasAll(s) => HasAll(u) \/ (e.op = "fill" /\ e.x = "all")
      /\ HasInit(u) => HasInit(s)
  BY <1>1, TailKeeps DEF Front
<1>4. prog' = [prog EXCEPT ![t] = u]
  BY DEF Done
<1>5. /\ u # <<>> => Len(s) >= 2 /\ Head(u) = s[2]
      /\ Len(s) >= 2 => u # <<>>
      /\ Len(u) = Len(s) - 1 /\ \A i \in 1..Len(u) : u[i] = s[i + 1]
  BY <1>1, TailFacts DEF Front
<1> HIDE DEF s, e, u
<1>6. Continues(t, e) /\ prog'[t] = u
  BY <1>2, <1>3, <1>4, ContinuesAll DEF s
<1>7. /\ Open(s[1]) => Len(s) >= 2 /\ Follows(s[1], s[2])
      /\ Len(s) >= 2 => Precedes(s[1], s[2])
  BY <1>1, FirstTwo DEF Front
<1>8. e.op = "flag" => HasTell(u)
  <2> SUFFICES ASSUME e.op = "flag" PROVE HasTell(u)
    OBVIOUS
  <2>1. PICK j \in 1..Len(s) : 1 < j /\ Tells(s[j])
    BY <1>1 DEF Front, Good, Told
  <2>2. j - 1 \in 1..Len(u) /\ u[j - 1] = s[j]
    BY <1>1, <1>5, <2>1 DEF Front
  <2> QED
    BY <2>1, <2>2 DEF HasTell
<1>9. e.op = "set" /\ e.p \in Names => Stored(u, e.p)
  <2> SUFFICES ASSUME e.op = "set", e.p \in Names PROVE Stored(u, e.p)
    OBVIOUS
  <2>1. Len(s) >= 2 /\ s[2].op = "flag" /\ s[2].p = e.p /\ s[2].x = {Change}
    BY <1>1, <1>7 DEF Front, Open, Follows
  <2>2. Open(s[2])
    BY <2>1 DEF Open
  <2>3. 2 + 1 <= Len(s) /\ Follows(s[2], s[2 + 1])
    BY <1>1, <2>1, <2>2 DEF Front, Good, Linked
  <2>4. s[3].op = "store" /\ s[3].x = e.p
    BY <2>1, <2>3 DEF Follows
  <2>5. 3 + 1 <= Len(s) /\ Follows(s[3], s[3 + 1])
    <3>1. Open(s[3])
      BY <2>4 DEF Open
    <3> QED
      BY <1>1, <2>3, <3>1 DEF Front, Good, Linked
  <2>6. s[4].op = "put" /\ s[4].x = e.p
    BY <2>4, <2>5 DEF Follows
  <2>7. 3 \in 1..Len(u) /\ u[3] = s[4]
    BY <1>1, <1>5, <2>5 DEF Front
  <2> QED
    BY <2>6, <2>7 DEF Stored
<1>10. \A r \in Callers : HasInit(prog'[r]) => HasInit(prog[r])
  BY <1>3, <1>6 DEF Continues, Others, s
<1>11. Precedes(e, Head(u)) \/ u = <<>>
  BY <1>1, <1>5, <1>7 DEF Front
<1>12. Open(e) => u # <<>> /\ Follows(e, Head(u))
  BY <1>1, <1>5, <1>7 DEF Front
<1> QED
  BY <1>6, <1>8, <1>9, <1>10, <1>11, <1>12 DEF Succeeds, s, e, u

Skip(t) == prog' = [prog EXCEPT ![t] = Tail(Tail(@))]

\* A report with nothing to publish, or an answer with nothing to reset, leaves
\* out the step after.
LEMMA SkipContinues ==
  ASSUME ParamTypes, Calls, NEW t \in Callers, ~Idle(t), Head(prog[t]).op \in {"topic", "fill mine"}, Skip(t)
  PROVE  /\ Continues(t, Head(prog[t])) /\ \A u \in Callers : HasInit(prog'[u]) => HasInit(prog[u])
         /\ prog'[t] # <<>> => Head(prog'[t]).op \notin InReport \cup {"reset mine", "init done"}
         /\ prog'[t] # <<>> /\ Head(prog[t]).op = "topic" => Head(prog'[t]).op # "answer"
<1> DEFINE s == prog[t]
           e == Head(s)
           u == Tail(s)
           f == Head(u)
           w == Tail(u)
<1>1. Front(t, s, e)
  BY FrontFacts
<1>2. u \in Seq(Steps) /\ Good(u)
  BY <1>1, TailFacts, TailGood DEF Front
<1>3. /\ \A p \in Params : Marked(s, p) => Marked(u, p) \/ (e.op = "flag" /\ e.p = p)
      /\ \A p \in Params : Stored(s, p) => Stored(u, p) \/ (e.op = "put" /\ e.x = p)
      /\ HasTell(s) => HasTell(u) \/ Tells(e)
      /\ HasAll(s) => HasAll(u) \/ (e.op = "fill" /\ e.x = "all")
      /\ HasInit(u) => HasInit(s)
  BY <1>1, TailKeeps DEF Front
<1>4. prog' = [prog EXCEPT ![t] = w]
  BY DEF Skip
<1>5. /\ u # <<>> => Len(s) >= 2 /\ f = s[2]
      /\ Len(s) >= 2 => u # <<>>
      /\ Len(u) = Len(s) - 1
  BY <1>1, TailFacts DEF Front
<1>6. Open(s[1]) /\ Len(s) >= 2 /\ Follows(s[1], s[2])
  <2>1. s[1].op \in {"topic", "fill mine"}
    BY <1>1 DEF Front
  <2>2. Open(s[1])
    BY <2>1 DEF Open
  <2> QED
    BY <1>1, <2>2, FirstTwo DEF Front
<1>7. u # <<>> /\ f.op = (IF e.op = "topic" THEN "send" ELSE "reset mine")
  BY <1>1, <1>5, <1>6 DEF Front, Follows
<1>8. /\ w \in Seq(Steps) /\ Good(w) /\ f = u[1] /\ Len(u) \in Nat
      /\ w # <<>> => Len(u) >= 2 /\ Head(w) = u[2]
  BY <1>2, <1>7, TailFacts, TailGood
<1>9. /\ \A p \in Params : Marked(u, p) => Marked(w, p) \/ (f.op = "flag" /\ f.p = p)
      /\ \A p \in Params : Stored(u, p) => Stored(w, p) \/ (f.op = "put" /\ f.x = p)
      /\ HasTell(u) => HasTell(w) \/ Tells(f)
      /\ HasAll(u) => HasAll(w) \/ (f.op = "fill" /\ f.x = "all")
      /\ HasInit(w) => HasInit(u)
  BY <1>2, <1>7, <1>8, TailKeeps
<1>10. e.op \in {"topic", "fill mine"}
  OBVIOUS
<1> HIDE DEF s, e, u, f, w
<1>11. Tells(f) => FALSE
  BY <1>7 DEF Tells
<1>12. /\ \A p \in Params : Marked(s, p) => Marked(w, p) \/ (e.op = "flag" /\ e.p = p)
       /\ \A p \in Params : Stored(s, p) => Stored(w, p) \/ (e.op = "put" /\ e.x = p)
       /\ HasTell(s) => HasTell(w) \/ Tells(e)
       /\ HasAll(s) => HasAll(w) \/ (e.op = "fill" /\ e.x = "all")
       /\ HasInit(w) => HasInit(s)
  BY <1>3, <1>7, <1>9, <1>11
<1>13. Continues(t, e) /\ prog'[t] = w
  BY <1>4, <1>8, <1>12, ContinuesAll DEF s
<1>14. w # <<>> => Precedes(f, Head(w))
  BY <1>2, <1>7, <1>8, FirstTwo
<1>15. w # <<>> => /\ Head(w).op \notin InReport \cup {"reset mine", "init done"}
                   /\ e.op = "topic" => Head(w).op # "answer"
  BY <1>7, <1>14 DEF Precedes, InReport
<1>16. \A r \in Callers : HasInit(prog'[r]) => HasInit(prog[r])
  BY <1>12, <1>13 DEF Continues, Others, s
<1> QED
  BY <1>13, <1>15, <1>16 DEF e, s

\* The next step is not in the middle of anything.
Fresh(t) == prog'[t] # <<>> => ~Bound(Head(prog'[t]))

\* The steps a step is replaced by come before the others.
LEMMA JoinFresh ==
  ASSUME NEW s \in Seq(Steps), First(s), s # <<>> PROVE ~Bound(Head(s))
<1>1. Len(s) > 0 /\ Head(s) = s[1]
  BY TailFacts
<1> QED
  BY <1>1 DEF First

LEMMA ReplaceContinues ==
  ASSUME ParamTypes, Calls, NEW t \in Callers, ~Idle(t), NEW s \in Seq(Steps),
         Linked(s), StartsWhole(s), First(s), ~HasInit(s),
         Head(prog[t]).op \in {"write", "started?"},
         Head(prog[t]).op = "started?" => Told(s),
         prog' = [prog EXCEPT ![t] = s \o Tail(@)]
  PROVE  /\ Continues(t, Head(prog[t])) /\ Fresh(t)
         /\ HasTell(s) \/ Head(prog[t]).op = "write" => Telling'
         /\ \A u \in Callers : HasInit(prog'[u]) => HasInit(prog[u])
<1> DEFINE v == prog[t]
           e == Head(v)
           u == Tail(v)
           w == s \o u
<1>1. Front(t, v, e)
  BY FrontFacts
<1>2. u \in Seq(Steps) /\ Good(u)
  BY <1>1, TailFacts, TailGood DEF Front
<1>3. /\ \A p \in Params : Marked(v, p) => Marked(u, p) \/ (e.op = "flag" /\ e.p = p)
      /\ \A p \in Params : Stored(v, p) => Stored(u, p) \/ (e.op = "put" /\ e.x = p)
      /\ HasTell(v) => HasTell(u) \/ Tells(e)
      /\ HasAll(v) => HasAll(u) \/ (e.op = "fill" /\ e.x = "all")
      /\ HasInit(u) => HasInit(v)
  BY <1>1, TailKeeps DEF Front
<1>4. prog' = [prog EXCEPT ![t] = w]
  BY DEF Skip
<1>5. Len(v) >= 2 \/ u = <<>>
  BY <1>1, TailFacts DEF Front
<1>6. First(u)
  <2> SUFFICES ASSUME Len(u) > 0 PROVE ~Bound(u[1])
    BY DEF First
  <2>1. u[1] = v[2] /\ 1 \in 1..Len(v) /\ 1 + 1 = 2 /\ 1 + 1 <= Len(v)
    BY <1>1, TailFacts DEF Front
  <2>2. Precedes(v[1], v[2])
    BY <1>1, <2>1 DEF Front, Good, Linked
  <2>3. v[1].op \in {"write", "started?"}
    BY <1>1 DEF Front
  <2> QED
    BY <2>1, <2>2, <2>3 DEF Precedes, Bound, InReport, InAnswer
<1>7. e.op = "write" => HasTell(u)
  <2> SUFFICES ASSUME e.op = "write" PROVE HasTell(u)
    OBVIOUS
  <2>1. PICK j \in 1..Len(v) : 1 < j /\ Tells(v[j])
    BY <1>1 DEF Front, Good, Told
  <2>2. j - 1 \in 1..Len(u) /\ u[j - 1] = v[j]
    BY <1>1, <2>1, TailFacts DEF Front
  <2> QED
    BY <2>1, <2>2 DEF HasTell
<1>8. e.op \in {"write", "started?"} /\ (e.op = "started?" => Told(s))
  OBVIOUS
<1> HIDE DEF v, e, u
<1>9. w \in Seq(Steps) /\ Good(w) /\ First(w)
  BY <1>2, <1>6, <1>7, <1>8, JoinFacts, JoinLinked, JoinTold DEF Good
<1>10. Keeps(u, w) /\ Keeps(s, w) /\ (HasInit(w) => HasInit(u))
  BY <1>2, JoinKeeps
<1> HIDE DEF w
<1>11. Continues(t, e) /\ prog'[t] = w
  <2>1. /\ \A p \in Params : Marked(v, p) => Marked(w, p) \/ (e.op = "flag" /\ e.p = p)
        /\ \A p \in Params : Stored(v, p) => Stored(w, p) \/ (e.op = "put" /\ e.x = p)
        /\ HasTell(v) => HasTell(w) \/ Tells(e)
        /\ HasAll(v) => HasAll(w) \/ (e.op = "fill" /\ e.x = "all")
    BY <1>3, <1>10 DEF Keeps
  <2>2. w \in Seq(Steps) /\ Good(w)
    BY <1>9
  <2> QED
    BY <1>4, <2>1, <2>2, ContinuesAll DEF v
<1>12. Fresh(t)
  BY <1>9, <1>11, JoinFresh DEF Fresh
<1>13. HasTell(s) \/ e.op = "write" => Telling'
  BY <1>7, <1>10, <1>11 DEF Keeps, Telling
<1>14. \A r \in Callers : HasInit(prog'[r]) => HasInit(prog[r])
  BY <1>3, <1>10, <1>11 DEF Continues, Others, v
<1> QED
  BY <1>11, <1>12, <1>13, <1>14 DEF e, v

\* A new call.
LEMMA CallContinues ==
  ASSUME ParamTypes, Calls, NEW t \in Callers, NEW s \in Seq(Steps), Good(s), First(s), Call(t, s)
  PROVE  /\ Continues(t, Step("call")) /\ Fresh(t) /\ prog'[t] = s
         /\ ~HasInit(s) => \A u \in Callers : HasInit(prog'[u]) => HasInit(prog[u])
<1>1. /\ \A p \in Params : ~Marked(prog[t], p) /\ ~Stored(prog[t], p)
      /\ ~HasTell(prog[t]) /\ ~HasAll(prog[t])
  <2>1. Len(prog[t]) = 0
    BY DEF Call, Idle
  <2> QED
    BY <2>1 DEF Marked, Stored, HasTell, HasAll
<1>2. prog' = [prog EXCEPT ![t] = s]
  BY DEF Call
<1>3. Continues(t, Step("call")) /\ prog'[t] = s
  BY <1>1, <1>2, ContinuesAll
<1>4. Fresh(t)
  BY <1>3, JoinFresh DEF Fresh
<1>5. ~HasInit(s) => \A u \in Callers : HasInit(prog'[u]) => HasInit(prog[u])
  BY <1>3 DEF Continues, Others
<1> QED
  BY <1>3, <1>4, <1>5

-----------------------------------------------------------------------------
(* Reports: what the cloud has *)

Fine(p) == cloud[p] = value[p] \/ Carried(p) \/ InBuffer(p)

BufferFine ==
  (\E t \in Callers : Reporting(t)) => \A p \in DOMAIN buf : buf[p] = value[p] \/ Carried(p)

LEMMA ValuesParts == ValuesInv <=> (Reported => (\A p \in Params : Fine(p)) /\ BufferFine)
BY DEF ValuesInv, Fine, BufferFine

\* A step of t does not move the others.
LEMMA OthersStay ==
  ASSUME NEW t \in Callers, NEW e, Continues(t, e)
  PROVE  \A u \in Callers : u # t =>
           /\ Reporting(u)' <=> Reporting(u)
           /\ Resetting(u)' <=> Resetting(u)
           /\ topic' = topic => (Carrying(u)' <=> Carrying(u))
           /\ \A op : At(u, op)' <=> At(u, op)
           /\ Arg(u)' = Arg(u)
<1> SUFFICES ASSUME NEW u \in Callers, u # t
             PROVE  /\ Reporting(u)' <=> Reporting(u)
                    /\ Resetting(u)' <=> Resetting(u)
                    /\ topic' = topic => (Carrying(u)' <=> Carrying(u))
                    /\ \A op : At(u, op)' <=> At(u, op)
                    /\ Arg(u)' = Arg(u)
  OBVIOUS
<1>1. prog'[u] = prog[u]
  BY DEF Continues, Others
<1>2. (\A op : At(u, op)' <=> At(u, op)) /\ Arg(u)' = Arg(u)
  BY <1>1 DEF At, Arg, Idle
<1>3. Reporting(u)' <=> Reporting(u)
  BY <1>1 DEF Reporting, At, Idle
<1>4. Resetting(u)' <=> Resetting(u)
  BY <1>1 DEF Resetting, At, Arg, Idle
<1>5. topic' = topic => (Carrying(u)' <=> Carrying(u))
  BY <1>1 DEF Carrying, At, Arg, Idle
<1> QED
  BY <1>2, <1>3, <1>4, <1>5

\* A task that is neither reporting nor answering.
Apart(t) == ~Reporting(t) /\ ~At(t, "reset mine") /\ ~At(t, "answer")

LEMMA ApartFacts ==
  ASSUME NEW t \in Callers, Apart(t)
  PROVE  ~Reporting(t) /\ ~Resetting(t) /\ ~Carrying(t) /\ (t = "cloud" => ~Answering)
BY DEF Apart, Reporting, Resetting, Carrying, Answering

LEMMA ApartPrime ==
  ASSUME NEW t \in Callers, Apart(t)'
  PROVE  ~Reporting(t)' /\ ~Resetting(t)' /\ ~Carrying(t)' /\ (t = "cloud" => ~Answering')
BY DEF Apart, Reporting, Resetting, Carrying, Answering

LEMMA FreshApart == ASSUME NEW t \in Callers, Fresh(t) PROVE Apart(t)'
BY DEF Fresh, Apart, Reporting, At, Idle, Bound, InReport, InAnswer

\* A step that does not report may change values, and what carries them.
LEMMA OtherStep ==
  ASSUME ParamTypes, ValuesInv, NEW t \in Callers, NEW e, Continues(t, e), Apart(t), Apart(t)',
         buf' = buf, mine' = mine, cloud' = cloud, topic' = topic,
         Reported' => Reported, Telling => Telling',
         \A p \in Params : \/ Carried(p)'
                           \/ /\ value'[p] = value[p] /\ flags[p] \subseteq flags'[p]
                              /\ p \in missed => p \in missed'
                              /\ ToFlag(p) => Carried(p)'
  PROVE  ValuesInv'
<1>1. /\ \A u \in Callers : Reporting(u)' <=> Reporting(u)
      /\ \A u \in Callers : Resetting(u)' <=> Resetting(u)
      /\ \A u \in Callers : Carrying(u)' <=> Carrying(u)
  BY OthersStay, ApartFacts, ApartPrime
<1>2. Answering' <=> Answering
  <2>1. CASE t = "cloud"
    BY <2>1, ApartFacts, ApartPrime
  <2>2. CASE t # "cloud"
    BY <2>2, OthersStay DEF Answering, Callers
  <2> QED
    BY <2>1, <2>2
<1>3. ASSUME NEW p \in Params, Carried(p) PROVE Carried(p)'
  <2> SUFFICES ASSUME ~Carried(p)' PROVE FALSE
    OBVIOUS
  <2>1. value'[p] = value[p] /\ flags[p] \subseteq flags'[p] /\ (p \in missed => p \in missed') /\ ~ToFlag(p)
    OBVIOUS
  <2>2. p \notin missed
    BY <2>1 DEF Carried
  <2>3. ~ToTell(p)
    <3>1. ToTell(p) => ToTell(p)'
      BY <1>1, <2>1 DEF ToTell
    <3> QED
      BY <3>1 DEF Carried
  <2>4. ~InMine(p)
    <3>1. InMine(p) => InMine(p)'
      BY <1>2, <2>1 DEF InMine
    <3> QED
      BY <3>1 DEF Carried
  <2> QED
    BY <1>3, <2>1, <2>2, <2>3, <2>4 DEF Carried
<1>4. ASSUME NEW p \in Params, InBuffer(p) PROVE Carried(p)' \/ InBuffer(p)'
  <2> SUFFICES ASSUME value'[p] = value[p] PROVE InBuffer(p)'
    OBVIOUS
  <2> QED
    BY <1>1, <1>4 DEF InBuffer, Others
<1>5. ASSUME NEW p \in Params, Fine(p) PROVE Fine(p)'
  BY <1>3, <1>4, <1>5 DEF Fine
<1>6. BufferFine => BufferFine'
  <2> SUFFICES ASSUME BufferFine, NEW u \in Callers, Reporting(u)', NEW p \in DOMAIN buf
               PROVE  buf[p] = value'[p] \/ Carried(p)'
    BY DEF BufferFine
  <2>1. p \in Params
    BY ContentFacts DEF ParamTypes
  <2>2. buf[p] = value[p] \/ Carried(p)
    BY <1>1 DEF BufferFine
  <2> QED
    BY <1>3, <2>1, <2>2
<1>7. (Reported' => (\A p \in Params : Fine(p)') /\ BufferFine')
  BY <1>5, <1>6, ValuesParts
<1> QED
  BY <1>7 DEF ValuesInv, Fine, BufferFine

LEMMA ReportedBack ==
  ASSUME NEW t \in Callers, NEW e, Continues(t, e), initDone' = initDone, ~(e.op = "fill" /\ e.x = "all")
  PROVE  Reported' => Reported
BY DEF Continues, Reported

LEMMA SucceedsApart ==
  ASSUME NEW t \in Callers, NEW e, Succeeds(t, e),
         e.op \notin {"fill", "reset", "topic", "fill mine", "reset mine"}
  PROVE  Apart(t)'
<1>1. prog'[t] # <<>> => Head(prog'[t]).op \notin InReport \cup InAnswer
  BY DEF Succeeds, Precedes, InReport, InAnswer
<1> QED
  BY <1>1 DEF Apart, Reporting, At, Idle, InReport, InAnswer

LEMMA SetValues ==
  ASSUME ParamTypes, Calls, ValuesInv, NEW t \in Callers, Set(t)
  PROVE  ValuesInv'
<1> DEFINE e == Head(prog[t])
<1>1. At(t, "set") /\ Done(t)
  BY DEF Set
<1>2. ~Idle(t) /\ e.op = "set" /\ Apart(t)
  BY <1>1 DEF At, Apart, Reporting
<1>3. Succeeds(t, e) /\ Continues(t, e)
  BY <1>1, <1>2, DoneSucceeds DEF Succeeds
<1>4. Front(t, prog[t], e)
  BY <1>2, FrontFacts
<1>5. UNCHANGED <<flags, buf, mine, cloud, topic, missed, initDone>>
  BY DEF Set, report, reached
<1>0. PICK q \in Params : q = e.p
  BY <1>2, <1>4 DEF Front, Fields
<1>6. \A p \in Params : p # q => value'[p] = value[p]
  BY <1>0, <1>2, <1>4 DEF Set, Front, Fields, ParamTypes
<1> HIDE DEF e
<1>7. Apart(t)'
  BY <1>2, <1>3, SucceedsApart
<1>8. ToFlag(q)'
  <2>1. Marked(prog'[t], q)
    <3>1. prog'[t] # <<>> /\ Head(prog'[t]).op = "flag" /\ Head(prog'[t]).p = q
      BY <1>0, <1>2, <1>3 DEF Succeeds, Open, Follows
    <3>2. prog'[t] \in Seq(Steps)
      BY <1>3 DEF Continues
    <3>3. 1 \in 1..Len(prog'[t]) /\ Head(prog'[t]) = prog'[t][1]
      BY <3>1, <3>2, TailFacts
    <3> QED
      BY <3>1, <3>3 DEF Marked
  <2> QED
    BY <2>1 DEF ToFlag
<1>9. Reported' => Reported
  BY <1>2, <1>3, <1>5, ReportedBack
<1>10. Telling => Telling'
  BY <1>2, <1>3 DEF Continues, Tells
<1>11. \A p \in Params : Carried(p)' \/ /\ value'[p] = value[p] /\ flags[p] \subseteq flags'[p]
                                        /\ p \in missed => p \in missed'
                                        /\ ToFlag(p) => Carried(p)'
  BY <1>0, <1>2, <1>3, <1>5, <1>6, <1>8 DEF Continues, Carried
<1> QED
  BY <1>2, <1>3, <1>5, <1>7, <1>9, <1>10, <1>11, OtherStep

LEMMA FlagValues ==
  ASSUME ParamTypes, Calls, ValuesInv, NEW t \in Callers, Flag(t)
  PROVE  ValuesInv'
<1> DEFINE e == Head(prog[t])
<1>1. At(t, "flag") /\ Done(t)
  BY DEF Flag
<1>2. ~Idle(t) /\ e.op = "flag" /\ Apart(t)
  BY <1>1 DEF At, Apart, Reporting
<1>3. Succeeds(t, e) /\ Continues(t, e)
  BY <1>1, <1>2, DoneSucceeds DEF Succeeds
<1>4. Front(t, prog[t], e)
  BY <1>2, FrontFacts
<1>5. UNCHANGED <<value, buf, mine, cloud, topic, initDone>>
  BY DEF Flag, report
<1>0. PICK q \in Params : q = e.p
  BY <1>2, <1>4 DEF Front, Fields
<1>6. /\ Change \in e.x
      /\ \A p \in Params : flags'[p] = IF p = q THEN flags[p] \cup e.x ELSE flags[p]
  BY <1>0, <1>2, <1>4 DEF Flag, Front, Fields, ParamTypes, Arg
<1>7. /\ missed \subseteq missed'
      /\ (\E u \in Others(t) : At(u, "reset") \/ At(u, "reset mine")) => q \in missed'
  BY <1>0 DEF Flag
<1> HIDE DEF e
<1>8. Apart(t)'
  BY <1>2, <1>3, SucceedsApart
<1>9. Telling'
  BY <1>2, <1>3 DEF Succeeds, Telling
<1>10. Carried(q)'
  <2>1. CASE \E u \in Others(t) : At(u, "reset") \/ At(u, "reset mine")
    BY <1>7, <2>1 DEF Carried
  <2>2. CASE ~\E u \in Others(t) : At(u, "reset") \/ At(u, "reset mine")
    <3>1. \A u \in Callers : ~Resetting(u)'
      <4> SUFFICES ASSUME NEW u \in Callers PROVE ~Resetting(u)'
        OBVIOUS
      <4>1. CASE u = t
        BY <1>8, <4>1, ApartPrime
      <4>2. CASE u # t
        BY <1>3, <2>2, <4>2, OthersStay DEF Resetting, Others
      <4> QED
        BY <4>1, <4>2
    <3>2. Change \in flags'[q]
      BY <1>6
    <3>3. ToTell(q)'
      BY <1>9, <3>1, <3>2 DEF ToTell
    <3> QED
      BY <3>3 DEF Carried
  <2> QED
    BY <2>1, <2>2
<1>11. Reported' => Reported
  BY <1>2, <1>3, <1>5, ReportedBack
<1>12. \A p \in Params : \/ Carried(p)'
                         \/ /\ value'[p] = value[p] /\ flags[p] \subseteq flags'[p]
                            /\ p \in missed => p \in missed'
                            /\ ToFlag(p) => Carried(p)'
  <2> SUFFICES ASSUME NEW p \in Params, p # q
               PROVE  /\ value'[p] = value[p] /\ flags[p] \subseteq flags'[p]
                      /\ p \in missed => p \in missed'
                      /\ ToFlag(p) => Carried(p)'
    BY <1>10
  <2> QED
    BY <1>0, <1>2, <1>3, <1>5, <1>6, <1>7 DEF Continues, Carried
<1> QED
  BY <1>2, <1>3, <1>5, <1>8, <1>9, <1>11, <1>12, OtherStep

\* A step that changes nothing that is reported.
LEMMA QuietValues ==
  ASSUME ParamTypes, ValuesInv, NEW t \in Callers, NEW e, Continues(t, e), Apart(t), Apart(t)',
         e.op # "flag", UNCHANGED <<value, flags, buf, mine, cloud, topic>>,
         \A p \in Params : p \in missed => p \in missed', Reported' => Reported, Telling => Telling'
  PROVE  ValuesInv'
<1>1. \A p \in Params : ToFlag(p) => Carried(p)'
  BY DEF Continues, Carried
<1>2. \A p \in Params : flags[p] \subseteq flags'[p] /\ value'[p] = value[p]
  OBVIOUS
<1> QED
  BY <1>1, <1>2, OtherStep

LEMMA FillValues ==
  ASSUME ParamTypes, Calls, ValuesInv, NEW t \in Callers, Fill(t)
  PROVE  ValuesInv'
<1> DEFINE e == Head(prog[t])
           crossed == \E u \in Others(t) : Reporting(u)
<1>1. /\ At(t, "fill") /\ Done(t)
      /\ UNCHANGED <<value, flags, topic, initDone, mine, cloud>>
  BY DEF Fill, params
<1>2. ~Idle(t) /\ e.op = "fill" /\ ~Reporting(t) /\ ~Resetting(t) /\ Apart(t)
  BY <1>1 DEF At, Reporting, Resetting, Apart
<1>3. Succeeds(t, e) /\ Continues(t, e)
  BY <1>1, <1>2, DoneSucceeds DEF Succeeds
<1>4. Front(t, prog[t], e)
  BY <1>2, FrontFacts
<1>0. PICK k \in {Change, Notify, "all"} : k = e.x
  BY <1>2, <1>4 DEF Front, Fields
<1>5. /\ buf' = Content(k) \/ (crossed /\ buf' = Nothing)
      /\ missed' = IF crossed THEN missed \cup DOMAIN buf \cup DOMAIN Content(k) ELSE missed
  BY <1>0 DEF Fill, Arg
<1>6. /\ DOMAIN Content(k) = Flagged(k) /\ \A p \in Flagged(k) : Content(k)[p] = value[p]
      /\ DOMAIN Nothing = {} /\ Flagged(k) \subseteq Params
      /\ k = "all" => Flagged(k) = Params
      /\ \A p \in Params : k = Change /\ Change \in flags[p] => p \in Flagged(k)
  BY ContentFacts DEF Content, Flagged
<1> HIDE DEF e, crossed
<1>7. \A u \in Callers : u # t => /\ Reporting(u)' <=> Reporting(u)
                                  /\ Resetting(u)' <=> Resetting(u)
                                  /\ Carrying(u)' <=> Carrying(u)
  BY <1>1, <1>3, OthersStay
<1>8. /\ k = Change => prog'[t] # <<>> /\ Head(prog'[t]).op = "reset" /\ Head(prog'[t]).x = Change
      /\ k = "all" => prog'[t] # <<>> /\ Head(prog'[t]).op = "topic" /\ Head(prog'[t]).x = "init"
  BY <1>0, <1>2, <1>3 DEF Succeeds, Open, Follows, Change
<1>9. k # Change => ~Resetting(t)'
  <2>1. prog'[t] # <<>> => Precedes(e, Head(prog'[t]))
    BY <1>3 DEF Succeeds
  <2> QED
    BY <1>0, <1>2, <2>1 DEF Precedes, Resetting, At, Arg, Idle
<1>10. k \in {Change, "all"} => Carrying(t)'
  BY <1>8 DEF Carrying, At, Arg, Idle
<1>11. Answering' <=> Answering
  <2>1. CASE t = "cloud"
    <3>1. prog'[t] # <<>> => Precedes(e, Head(prog'[t]))
      BY <1>3 DEF Succeeds
    <3> QED
      BY <1>1, <1>2, <2>1, <3>1 DEF Answering, At, Idle, Precedes
  <2>2. CASE t # "cloud"
    BY <1>3, <2>2, OthersStay DEF Answering, Callers
  <2> QED
    BY <2>1, <2>2
<1>12. \A p \in Params : InMine(p) => InMine(p)'
  BY <1>1, <1>11 DEF InMine
<1>13. \A p \in Params : ToFlag(p) => ToFlag(p)'
  BY <1>2, <1>3 DEF Continues
<1>14. k # Change => \A p \in Params : ToTell(p) => ToTell(p)'
  <2> SUFFICES ASSUME k # Change, NEW p \in Params, ToTell(p) PROVE ToTell(p)'
    OBVIOUS
  <2>1. Telling'
    BY <1>0, <1>2, <1>3 DEF Continues, Tells, ToTell
  <2>2. \A u \in Callers : ~Resetting(u)'
    BY <1>7, <1>9 DEF ToTell
  <2> QED
    BY <1>1, <2>1, <2>2 DEF ToTell
<1>15. \A p \in DOMAIN buf' : buf'[p] = value'[p] /\ p \in Flagged(k)
  BY <1>1, <1>5, <1>6
<1>16. BufferFine'
  <2>1. \A p \in DOMAIN buf' : buf'[p] = value'[p]
    BY <1>15
  <2> QED
    BY <2>1 DEF BufferFine
<1>17. k # "all" => (Reported' => Reported)
  BY <1>0, <1>1, <1>3, ReportedBack
<1>18. CASE crossed
  <2>1. \A p \in Flagged(k) : p \in missed'
    BY <1>5, <1>6, <1>18
  <2>2. k # "all" => \A p \in Params : Fine(p) => Fine(p)'
    <3> SUFFICES ASSUME k # "all", NEW p \in Params, Fine(p), p \notin missed' PROVE Fine(p)'
      BY DEF Fine, Carried
    <3>1. p \notin Flagged(k) /\ p \notin missed /\ p \notin DOMAIN buf
      BY <1>5, <1>6, <1>18, <2>1
    <3>2. ~InBuffer(p)
      BY <3>1 DEF InBuffer
    <3>3. ToTell(p) => ToTell(p)'
      BY <1>6, <1>14, <3>1 DEF ToTell
    <3>4. Carried(p) => Carried(p)'
      BY <1>12, <1>13, <3>1, <3>3 DEF Carried
    <3> QED
      BY <1>1, <3>2, <3>4 DEF Fine
  <2>3. k = "all" => \A p \in Params : Fine(p)'
    BY <1>6, <2>1 DEF Fine, Carried
  <2>4. Reported' => \A p \in Params : Fine(p)'
    BY <1>17, <2>2, <2>3, ValuesParts
  <2> QED
    BY <1>16, <2>4 DEF ValuesInv, Fine, BufferFine
<1>19. CASE ~crossed
  <2>1. missed' = missed /\ buf' = Content(k)
    BY <1>5, <1>19
  <2>2. \A u \in Callers : u # t => ~Reporting(u)' /\ ~Reporting(u)
    BY <1>7, <1>19 DEF crossed, Others
  <2>3. k \in {Change, "all"} => \A p \in Flagged(k) : InBuffer(p)'
    <3> SUFFICES ASSUME k \in {Change, "all"}, NEW p \in Flagged(k) PROVE InBuffer(p)'
      OBVIOUS
    <3>1. p \in DOMAIN buf' /\ buf'[p] = value'[p]
      BY <1>1, <1>6, <2>1
    <3>2. Carrying(t)' /\ \A u \in Others(t) : ~Reporting(u)'
      BY <1>10, <2>2 DEF Others
    <3> QED
      BY <3>1, <3>2 DEF InBuffer, Others
  <2>4. \A p \in Params : ~InBuffer(p)
    BY <1>2, <2>2 DEF InBuffer, Carrying, Reporting
  <2>5. k # "all" => \A p \in Params : Fine(p) => Fine(p)'
    <3> SUFFICES ASSUME k # "all", NEW p \in Params, Fine(p) PROVE Fine(p)'
      OBVIOUS
    <3>1. ToTell(p) => ToTell(p)' \/ InBuffer(p)'
      BY <1>6, <1>14, <2>3 DEF ToTell
    <3>2. Carried(p) => Carried(p)' \/ InBuffer(p)'
      BY <1>12, <1>13, <2>1, <3>1 DEF Carried
    <3> QED
      BY <1>1, <2>4, <3>2 DEF Fine
  <2>6. k = "all" => \A p \in Params : Fine(p)'
    BY <1>6, <2>3 DEF Fine
  <2>7. Reported' => \A p \in Params : Fine(p)'
    BY <1>17, <2>5, <2>6, ValuesParts
  <2> QED
    BY <1>16, <2>7 DEF ValuesInv, Fine, BufferFine
<1> QED
  BY <1>18, <1>19

LEMMA ResetValues ==
  ASSUME ParamTypes, Calls, ValuesInv, NEW t \in Callers, Reset(t)
  PROVE  ValuesInv'
<1> DEFINE e == Head(prog[t])
<1>1. /\ At(t, "reset") /\ Done(t)
      /\ UNCHANGED <<value, buf, topic, initDone, mine, cloud, missed>>
  BY DEF Reset, report, reached
<1>2. ~Idle(t) /\ e.op = "reset" /\ Reporting(t)
  BY <1>1 DEF At, Reporting
<1>3. Succeeds(t, e) /\ Continues(t, e)
  BY <1>1, <1>2, DoneSucceeds DEF Succeeds
<1>4. Front(t, prog[t], e)
  BY <1>2, FrontFacts
<1>0. PICK k \in {Change, Notify} : k = e.x
  BY <1>2, <1>4 DEF Front, Fields
<1>5. flags' = [p \in Params |-> flags[p] \ {k}]
  BY <1>0 DEF Reset, Arg
<1>6. k = Change => Resetting(t)
  BY <1>0, <1>1 DEF Resetting, Arg
<1>7. k # Change => ~Carrying(t)
  BY <1>0, <1>2 DEF Carrying, At, Arg
<1> HIDE DEF e
<1>8. \A u \in Callers : u # t => /\ Reporting(u)' <=> Reporting(u)
                                  /\ Resetting(u)' <=> Resetting(u)
                                  /\ Carrying(u)' <=> Carrying(u)
  BY <1>1, <1>3, OthersStay
<1>9. prog'[t] # <<>> => Precedes(e, Head(prog'[t]))
  BY <1>3 DEF Succeeds
<1>10. ~Resetting(t)'
  BY <1>2, <1>9 DEF Precedes, Resetting, At, Arg, Idle
<1>11. k = Change => Carrying(t)'
  <2>1. k = Change => prog'[t] # <<>> /\ Head(prog'[t]).op = "topic" /\ Head(prog'[t]).x = "local"
    BY <1>0, <1>2, <1>3 DEF Succeeds, Open, Follows
  <2> QED
    BY <2>1 DEF Carrying, At, Arg, Idle
<1>12. Answering' <=> Answering
  <2>1. CASE t = "cloud"
    BY <1>1, <1>2, <1>9, <2>1 DEF Answering, At, Idle, Precedes
  <2>2. CASE t # "cloud"
    BY <1>3, <2>2, OthersStay DEF Answering, Callers
  <2> QED
    BY <2>1, <2>2
<1>13. \A p \in Params : ToTell(p) => ToTell(p)'
  <2> SUFFICES ASSUME NEW p \in Params, ToTell(p) PROVE ToTell(p)'
    OBVIOUS
  <2>1. k # Change
    BY <1>6 DEF ToTell
  <2>2. Telling'
    BY <1>2, <1>3 DEF Continues, Tells, ToTell
  <2>3. \A u \in Callers : ~Resetting(u)'
    BY <1>8, <1>10 DEF ToTell
  <2>4. Change \in flags'[p]
    BY <1>5, <2>1 DEF ToTell
  <2> QED
    BY <2>2, <2>3, <2>4 DEF ToTell
<1>14. \A p \in Params : Carried(p) => Carried(p)'
  BY <1>1, <1>2, <1>3, <1>12, <1>13 DEF Continues, Carried, InMine
<1>15. \A p \in Params : InBuffer(p) => InBuffer(p)'
  <2> SUFFICES ASSUME NEW p \in Params, InBuffer(p) PROVE InBuffer(p)'
    OBVIOUS
  <2>1. PICK u \in Callers : Carrying(u) /\ \A r \in Others(u) : ~Reporting(r)
    BY DEF InBuffer
  <2>2. u = t
    BY <1>2, <2>1 DEF Others
  <2>3. Carrying(t)'
    BY <1>7, <1>11, <1>0, <2>1, <2>2
  <2>4. \A r \in Others(t) : ~Reporting(r)'
    BY <1>8, <2>1, <2>2 DEF Others
  <2> QED
    BY <1>1, <2>3, <2>4 DEF InBuffer, Others
<1>16. \A p \in Params : Fine(p) => Fine(p)'
  BY <1>1, <1>14, <1>15 DEF Fine
<1>17. BufferFine => BufferFine'
  <2>1. DOMAIN buf \subseteq Params
    BY ContentFacts DEF ParamTypes
  <2> QED
    BY <1>1, <1>2, <1>14, <2>1 DEF BufferFine
<1>18. Reported' => Reported
  BY <1>1, <1>2, <1>3, ReportedBack
<1>19. Reported' => (\A p \in Params : Fine(p)') /\ BufferFine'
  BY <1>16, <1>17, <1>18, ValuesParts
<1> QED
  BY <1>19 DEF ValuesInv, Fine, BufferFine

\* A step after which what is carried still is, and what is in a buffer too.
LEMMA CarryOn ==
  ASSUME ParamTypes, ValuesInv, Reported' => Reported,
         \A p \in Params : Carried(p) => Carried(p)',
         \A p \in Params : InBuffer(p) => InBuffer(p)' \/ Carried(p)',
         UNCHANGED <<value, cloud>>,
         buf' = buf /\ (\E u \in Callers : Reporting(u)') => (\E u \in Callers : Reporting(u)),
         buf' = buf \/ BufferFine'
  PROVE  ValuesInv'
<1>1. \A p \in Params : Fine(p) => Fine(p)'
  BY DEF Fine
<1>2. BufferFine => BufferFine'
  <2>1. DOMAIN buf \subseteq Params
    BY ContentFacts DEF ParamTypes
  <2> QED
    BY <2>1 DEF BufferFine
<1>3. Reported' => (\A p \in Params : Fine(p)') /\ BufferFine'
  BY <1>1, <1>2, ValuesParts
<1> QED
  BY <1>3 DEF ValuesInv, Fine, BufferFine

\* The steps of other tasks, and of an answer, seen from the one that moves.
LEMMA AnsweringStays ==
  ASSUME NEW t \in Callers, NEW e, Continues(t, e), t = "cloud" => ~Answering /\ ~Answering'
  PROVE  Answering' <=> Answering
<1>1. CASE t = "cloud"
  BY <1>1
<1>2. CASE t # "cloud"
  BY <1>2, OthersStay DEF Answering, Callers
<1> QED
  BY <1>1, <1>2

LEMMA ToTellStays ==
  ASSUME NEW t \in Callers, NEW e, Continues(t, e), ~Tells(e), ~Resetting(t)',
         flags' = flags
  PROVE  \A p \in Params : ToTell(p) => ToTell(p)'
<1>1. \A u \in Callers : u # t => (Resetting(u)' <=> Resetting(u))
  BY OthersStay
<1> QED
  BY <1>1 DEF ToTell, Continues

LEMMA TopicValues ==
  ASSUME ParamTypes, Calls, ValuesInv, NEW t \in Callers, Topic(t)
  PROVE  ValuesInv'
<1> DEFINE e == Head(prog[t])
<1>1. /\ At(t, "topic")
      /\ (Skip(t) /\ buf = Nothing) \/ (Done(t) /\ topic' = e.x)
      /\ UNCHANGED <<value, flags, buf, initDone, mine, cloud>> /\ missed \subseteq missed'
  BY DEF Topic, params, Skip, Arg
<1>2. t = "cloud" => ~Answering
  BY <1>1 DEF At, Answering
<1>0. ~Idle(t) /\ e.op = "topic" /\ Reporting(t)
  BY <1>1 DEF At, Reporting
<1>3. Skip(t) => /\ Continues(t, e)
                 /\ prog'[t] # <<>> => Head(prog'[t]).op \notin InReport \cup InAnswer
  BY <1>0, SkipContinues DEF InAnswer
<1>4. Done(t) => Succeeds(t, e) /\ Continues(t, e)
  BY <1>0, DoneSucceeds DEF Succeeds
<1>5. Done(t) => prog'[t] # <<>> /\ Head(prog'[t]).op = "send"
  BY <1>0, <1>4 DEF Succeeds, Open, Follows
<1>6. Carrying(t) => e.x \in {"local", "init"}
  BY <1>0 DEF Carrying, At, Arg
<1> HIDE DEF e
<1>7. Continues(t, e) /\ ~Tells(e)
  BY <1>0, <1>1, <1>3, <1>4 DEF Tells
<1>8. ~Resetting(t)' /\ (t = "cloud" => ~Answering')
  BY <1>1, <1>3, <1>5 DEF Resetting, Answering, At, Idle, InReport, InAnswer
<1>9. Answering' <=> Answering
  BY <1>2, <1>7, <1>8, AnsweringStays
<1>10. \A p \in Params : Carried(p) => Carried(p)'
  <2>1. \A p \in Params : ToTell(p) => ToTell(p)'
    BY <1>1, <1>7, <1>8, ToTellStays
  <2> QED
    BY <1>0, <1>1, <1>7, <1>9, <2>1 DEF Continues, Carried, InMine
<1>11. \A p \in Params : InBuffer(p) => InBuffer(p)'
  <2> SUFFICES ASSUME NEW p \in Params, InBuffer(p) PROVE InBuffer(p)'
    OBVIOUS
  <2>1. PICK u \in Callers : Carrying(u) /\ \A r \in Others(u) : ~Reporting(r)
    BY DEF InBuffer
  <2>2. u = t
    BY <1>0, <2>1 DEF Others
  <2>3. buf # Nothing
    BY ContentFacts DEF InBuffer
  <2>4. topic' \in {"local", "init"} /\ Done(t)
    BY <1>1, <1>6, <2>1, <2>2, <2>3
  <2>5. Carrying(t)'
    BY <1>5, <2>4 DEF Carrying, At, Idle
  <2>6. \A r \in Others(t) : ~Reporting(r)'
    BY <1>7, <2>1, <2>2, OthersStay DEF Others
  <2> QED
    BY <1>1, <2>5, <2>6 DEF InBuffer, Others
<1>12. Reported' => Reported
  BY <1>0, <1>1, <1>7, ReportedBack
<1> QED
  BY <1>0, <1>1, <1>10, <1>11, <1>12, CarryOn

LEMMA AlertTopicValues ==
  ASSUME ParamTypes, Calls, ValuesInv, NEW t \in Callers, AlertTopic(t)
  PROVE  ValuesInv'
<1> DEFINE e == Head(prog[t])
<1>1. /\ At(t, "alert topic") /\ Done(t) /\ missed \subseteq missed'
      /\ UNCHANGED <<value, flags, buf, initDone, mine, cloud>>
  BY DEF AlertTopic, params
<1>2. ~Idle(t) /\ e.op = "alert topic" /\ Apart(t)
  BY <1>1 DEF At, Apart, Reporting
<1>3. Succeeds(t, e) /\ Continues(t, e)
  BY <1>1, <1>2, DoneSucceeds DEF Succeeds
<1> HIDE DEF e
<1>4. Apart(t)' /\ ~Tells(e)
  BY <1>2, <1>3, SucceedsApart DEF Tells
<1>5. Answering' <=> Answering
  BY <1>2, <1>3, <1>4, ApartFacts, ApartPrime, AnsweringStays
<1>6. \A p \in Params : Carried(p) => Carried(p)'
  <2>1. \A p \in Params : ToTell(p) => ToTell(p)'
    BY <1>1, <1>3, <1>4, ApartPrime, ToTellStays
  <2> QED
    BY <1>1, <1>2, <1>3, <1>5, <2>1 DEF Continues, Carried, InMine
<1>7. \A p \in Params : InBuffer(p) => InBuffer(p)' \/ Carried(p)'
  <2> SUFFICES ASSUME NEW p \in Params, InBuffer(p) PROVE InBuffer(p)' \/ Carried(p)'
    OBVIOUS
  <2>1. PICK u \in Callers : Carrying(u) /\ \A r \in Others(u) : ~Reporting(r)
    BY DEF InBuffer
  <2>2. u # t
    BY <1>2, <2>1, ApartFacts
  <2>3. CASE At(u, "send")
    <3>1. u \in {o \in Others(t) : At(o, "send")} /\ p \in DOMAIN buf
      BY <2>2, <2>3 DEF Others, InBuffer
    <3>2. p \in missed'
      BY <3>1 DEF AlertTopic
    <3> QED
      BY <3>2 DEF Carried
  <2>4. CASE ~At(u, "send")
    <3>1. (\A op : At(u, op)' <=> At(u, op)) /\ Arg(u)' = Arg(u)
      BY <1>3, <2>2, OthersStay
    <3>2. Carrying(u)'
      BY <2>1, <2>4, <3>1 DEF Carrying
    <3>3. \A r \in Others(u) : ~Reporting(r)'
      BY <1>3, <1>4, <2>1, OthersStay, ApartPrime DEF Others
    <3> QED
      BY <1>1, <3>2, <3>3 DEF InBuffer, Others
  <2> QED
    BY <2>3, <2>4
<1>8. Reported' => Reported
  BY <1>1, <1>2, <1>3, ReportedBack
<1>9. (\E u \in Callers : Reporting(u)') => (\E u \in Callers : Reporting(u))
  BY <1>3, <1>4, ApartPrime, OthersStay
<1> QED
  BY <1>1, <1>6, <1>7, <1>8, <1>9, CarryOn

LEMMA SendValues ==
  ASSUME ParamTypes, Calls, ValuesInv, NEW t \in Callers, Send(t)
  PROVE  ValuesInv'
<1> DEFINE e == Head(prog[t])
<1>1. /\ At(t, "send") /\ Done(t)
      /\ UNCHANGED <<value, flags, buf, topic, initDone, mine>>
  BY DEF Send, params, report
<1>2. ~Idle(t) /\ e.op = "send" /\ Reporting(t) /\ ~Resetting(t)
  BY <1>1 DEF At, Reporting, Resetting
<1>3. Succeeds(t, e) /\ Continues(t, e)
  BY <1>1, <1>2, DoneSucceeds DEF Succeeds
<1>4. t = "cloud" => ~Answering
  BY <1>1 DEF At, Answering
<1> HIDE DEF e
<1>5. Apart(t)' /\ ~Tells(e)
  BY <1>2, <1>3, SucceedsApart DEF Tells
<1>6. Answering' <=> Answering
  BY <1>3, <1>4, <1>5, ApartPrime, AnsweringStays
<1>7. \A p \in Params : /\ ToTell(p) => ToTell(p)'
                        /\ ToFlag(p) => ToFlag(p)'
                        /\ InMine(p) => InMine(p)'
  <2>1. \A p \in Params : ToTell(p) => ToTell(p)'
    BY <1>1, <1>3, <1>5, ApartPrime, ToTellStays
  <2> QED
    BY <1>1, <1>2, <1>3, <1>6, <2>1 DEF Continues, InMine
<1>8. DOMAIN buf \subseteq Params
  BY ContentFacts DEF ParamTypes
<1>9. Reported' => Reported
  BY <1>1, <1>2, <1>3, ReportedBack
<1>10. \A p \in Params : InBuffer(p) => Carrying(t)
  <2> SUFFICES ASSUME NEW p \in Params, InBuffer(p) PROVE Carrying(t)
    OBVIOUS
  <2>1. PICK u \in Callers : Carrying(u) /\ \A r \in Others(u) : ~Reporting(r)
    BY DEF InBuffer
  <2> QED
    BY <1>2, <2>1 DEF Others
<1>11. Carrying(t) => topic \in {"local", "init"}
  BY <1>1 DEF Carrying, At
<1>12. CASE Reach(buf)
  <2>1. /\ \A p \in Params : cloud'[p] = IF p \in DOMAIN buf THEN buf[p] ELSE cloud[p]
        /\ \A p \in Params : p \in missed => p \in missed' \/ (p \in DOMAIN buf /\ buf[p] = value[p])
    BY <1>12 DEF Reach, With
  <2>2. \A p \in Params : Carried(p) => Carried(p)' \/ (p \in DOMAIN buf /\ buf[p] = value[p])
    BY <1>7, <2>1 DEF Carried
  <2>3. Reported => \A p \in Params : Fine(p)'
    <3> SUFFICES ASSUME Reported, NEW p \in Params PROVE Fine(p)'
      OBVIOUS
    <3>1. Fine(p) /\ BufferFine
      BY ValuesParts
    <3>2. CASE p \in DOMAIN buf
      <4>1. buf[p] = value[p] \/ Carried(p)
        BY <1>2, <3>1, <3>2 DEF BufferFine
      <4> QED
        BY <1>1, <2>1, <2>2, <3>2, <4>1 DEF Fine
    <3>3. CASE p \notin DOMAIN buf
      <4>1. ~InBuffer(p)
        BY <3>3 DEF InBuffer
      <4> QED
        BY <1>1, <2>1, <2>2, <3>1, <3>3, <4>1 DEF Fine
    <3> QED
      BY <3>2, <3>3
  <2>4. Reported => BufferFine'
    <3> SUFFICES ASSUME Reported, NEW p \in DOMAIN buf PROVE buf[p] = value[p] \/ Carried(p)'
      BY <1>1 DEF BufferFine
    <3>1. buf[p] = value[p] \/ Carried(p)
      BY <1>2, ValuesParts DEF BufferFine
    <3> QED
      BY <1>8, <2>2, <3>1
  <2> QED
    BY <1>9, <2>3, <2>4 DEF ValuesInv, Fine, BufferFine
<1>13. CASE cloud' = cloud /\ missed' = missed /\ topic \notin {"local", "init"}
  <2>1. \A p \in Params : Carried(p) => Carried(p)'
    BY <1>7, <1>13 DEF Carried
  <2>2. \A p \in Params : ~InBuffer(p)
    BY <1>10, <1>11, <1>13
  <2> QED
    BY <1>1, <1>2, <1>9, <1>13, <2>1, <2>2, CarryOn
<1>14. CASE Refuse(DOMAIN buf)
  <2>1. cloud' = cloud /\ missed' = missed \cup DOMAIN buf
    BY <1>14 DEF Refuse
  <2>2. \A p \in Params : Carried(p) => Carried(p)'
    BY <1>7, <2>1 DEF Carried
  <2>3. \A p \in Params : InBuffer(p) => Carried(p)'
    BY <2>1 DEF InBuffer, Carried
  <2> QED
    BY <1>1, <1>2, <1>9, <2>1, <2>2, <2>3, CarryOn
<1>15. CASE ~initDone
  BY <1>1, <1>15 DEF ValuesInv, Reported
<1>16. \/ Reach(buf) \/ Refuse(DOMAIN buf) \/ ~initDone
       \/ cloud' = cloud /\ missed' = missed /\ topic = "alert"
  BY DEF Send
<1> QED
  BY <1>12, <1>13, <1>14, <1>15, <1>16

LEMMA FillMineValues ==
  ASSUME ParamTypes, Calls, ValuesInv, FillMine("cloud")
  PROVE  ValuesInv'
<1> DEFINE t == "cloud"
           e == Head(prog[t])
<1>1. /\ At(t, "fill mine") /\ mine' = Content(Arg(t))
      /\ IF mine' = Nothing THEN Skip(t) ELSE Done(t)
      /\ UNCHANGED <<value, flags, buf, topic, initDone, cloud, missed>>
  BY DEF FillMine, params, report, reached, Skip, Done
<1>0. t \in Callers
  BY DEF Callers
<1>2. ~Idle(t) /\ e.op = "fill mine" /\ Apart(t) /\ ~Answering
  BY <1>1 DEF At, Apart, Reporting, Answering
<1>3. Front(t, prog[t], e)
  BY <1>0, <1>2, FrontFacts
<1>4. Arg(t) = Change
  BY <1>2, <1>3 DEF Front, Fields, Arg
<1>5. Skip(t) => /\ Continues(t, e)
                 /\ prog'[t] # <<>> => Head(prog'[t]).op \notin InReport
  BY <1>0, <1>2, SkipContinues
<1>6. Done(t) => Succeeds(t, e) /\ Continues(t, e)
  BY <1>0, <1>2, DoneSucceeds DEF Succeeds
<1>7. Done(t) => prog'[t] # <<>> /\ Head(prog'[t]).op = "reset mine"
  BY <1>2, <1>6 DEF Succeeds, Open, Follows
<1> HIDE DEF e
<1>8. Continues(t, e) /\ e.op \notin {"flag", "fill"}
  BY <1>1, <1>2, <1>5, <1>6
<1>9. ~Reporting(t)' /\ ~Carrying(t)'
  BY <1>1, <1>5, <1>7 DEF Reporting, Carrying, At, Idle, InReport
<1>10. \A u \in Callers : (Reporting(u)' <=> Reporting(u)) /\ (Carrying(u)' <=> Carrying(u))
  <2>1. ~Reporting(t) /\ ~Carrying(t)
    BY <1>0, <1>2, ApartFacts
  <2> QED
    BY <1>0, <1>1, <1>8, <1>9, <2>1, OthersStay
<1>11. \A p \in Params : Change \in flags[p] => p \in DOMAIN mine' /\ mine'[p] = value[p]
  BY <1>1, <1>4 DEF Content, Flagged
<1>12. \A p \in Params : Carried(p) => Carried(p)'
  <2> SUFFICES ASSUME NEW p \in Params, Carried(p) PROVE Carried(p)'
    OBVIOUS
  <2>1. ToFlag(p) => ToFlag(p)'
    BY <1>8 DEF Continues
  <2>2. ~InMine(p)
    BY <1>2 DEF InMine
  <2>3. ToTell(p) => InMine(p)'
    <3> SUFFICES ASSUME ToTell(p) PROVE InMine(p)'
      OBVIOUS
    <3>1. p \in DOMAIN mine' /\ mine'[p] = value[p]
      BY <1>11 DEF ToTell
    <3>2. mine' # Nothing
      BY <3>1, ContentFacts
    <3>3. Answering'
      BY <1>1, <1>7, <3>2 DEF Answering, At, Idle
    <3> QED
      BY <1>1, <3>1, <3>3 DEF InMine
  <2> QED
    BY <1>1, <2>1, <2>2, <2>3 DEF Carried
<1>13. \A p \in Params : InBuffer(p) => InBuffer(p)'
  BY <1>1, <1>10 DEF InBuffer, Others
<1>14. Reported' => Reported
  BY <1>0, <1>1, <1>8, ReportedBack
<1> QED
  BY <1>1, <1>10, <1>12, <1>13, <1>14, CarryOn

LEMMA ResetMineValues ==
  ASSUME ParamTypes, Calls, ValuesInv, ResetMine("cloud")
  PROVE  ValuesInv'
<1> DEFINE t == "cloud"
           e == Head(prog[t])
<1>1. /\ At(t, "reset mine") /\ Done(t)
      /\ UNCHANGED <<value, buf, topic, initDone, mine, cloud, missed>>
  BY DEF ResetMine, report, reached
<1>0. t \in Callers
  BY DEF Callers
<1>2. ~Idle(t) /\ e.op = "reset mine" /\ ~Reporting(t) /\ ~Carrying(t) /\ Resetting(t)
  BY <1>1 DEF At, Reporting, Carrying, Resetting
<1>3. Succeeds(t, e) /\ Continues(t, e)
  BY <1>0, <1>1, <1>2, DoneSucceeds DEF Succeeds
<1>4. prog'[t] # <<>> /\ Head(prog'[t]).op = "answer"
  BY <1>2, <1>3 DEF Succeeds, Open, Follows
<1>5. Answering' /\ ~Reporting(t)' /\ ~Carrying(t)'
  BY <1>4 DEF Answering, Reporting, Carrying, At, Idle
<1> HIDE DEF e
<1>6. \A u \in Callers : (Reporting(u)' <=> Reporting(u)) /\ (Carrying(u)' <=> Carrying(u))
  BY <1>0, <1>1, <1>2, <1>3, <1>5, OthersStay
<1>7. \A p \in Params : Carried(p) => Carried(p)'
  <2>1. \A p \in Params : ~ToTell(p)
    BY <1>0, <1>2 DEF ToTell
  <2> QED
    BY <1>1, <1>2, <1>3, <1>5, <2>1 DEF Carried, Continues, InMine
<1>8. \A p \in Params : InBuffer(p) => InBuffer(p)'
  BY <1>1, <1>6 DEF InBuffer, Others
<1>9. Reported' => Reported
  BY <1>0, <1>1, <1>2, <1>3, ReportedBack
<1> QED
  BY <1>1, <1>6, <1>7, <1>8, <1>9, CarryOn

LEMMA AnswerValues ==
  ASSUME ParamTypes, Calls, ValuesInv, Answer("cloud")
  PROVE  ValuesInv'
<1> DEFINE t == "cloud"
           e == Head(prog[t])
<1>1. /\ At(t, "answer") /\ Done(t)
      /\ UNCHANGED <<value, flags, buf, topic, initDone>>
  BY DEF Answer, params, report
<1>0. t \in Callers
  BY DEF Callers
<1>2. ~Idle(t) /\ e.op = "answer" /\ ~Reporting(t) /\ ~Carrying(t) /\ ~Resetting(t)
  BY <1>1 DEF At, Reporting, Carrying, Resetting
<1>3. Succeeds(t, e) /\ Continues(t, e)
  BY <1>0, <1>1, <1>2, DoneSucceeds DEF Succeeds
<1> HIDE DEF e
<1>4. Apart(t)' /\ ~Tells(e)
  BY <1>0, <1>2, <1>3, SucceedsApart DEF Tells
<1>5. \A u \in Callers : (Reporting(u)' <=> Reporting(u)) /\ (Carrying(u)' <=> Carrying(u))
  BY <1>0, <1>1, <1>2, <1>3, <1>4, ApartPrime, OthersStay
<1>6. \A p \in Params : /\ ToTell(p) => ToTell(p)'
                        /\ ToFlag(p) => ToFlag(p)'
                        /\ InBuffer(p) => InBuffer(p)'
  <2>1. \A p \in Params : ToTell(p) => ToTell(p)'
    BY <1>0, <1>1, <1>3, <1>4, ApartPrime, ToTellStays
  <2>2. \A p \in Params : InBuffer(p) => InBuffer(p)'
    BY <1>1, <1>5 DEF InBuffer, Others
  <2> QED
    BY <1>2, <1>3, <2>1, <2>2 DEF Continues
<1>7. DOMAIN buf \subseteq Params
  BY ContentFacts DEF ParamTypes
<1>8. Reported' => Reported
  BY <1>0, <1>1, <1>2, <1>3, ReportedBack
<1>9. CASE Refuse(DOMAIN mine)
  <2>1. cloud' = cloud /\ missed' = missed \cup DOMAIN mine
    BY <1>9 DEF Refuse
  <2>2. \A p \in Params : Carried(p) => Carried(p)'
    BY <1>6, <2>1 DEF Carried, InMine
  <2> QED
    BY <1>1, <1>5, <1>6, <1>8, <2>1, <2>2, CarryOn
<1>10. CASE ~Refuse(DOMAIN mine)
  <2>1. /\ cloud' = With(mine)
        /\ missed' = (missed \ {p \in DOMAIN mine : mine[p] = value[p]})
                      \cup {p \in DOMAIN mine :
                               \/ mine[p] # value[p]
                               \/ p \in DOMAIN buf /\ buf[p] # mine[p] /\ \E t2 \in Callers : Reporting(t2)}
    BY <1>10 DEF Answer
  <2>2. \A p \in Params : cloud'[p] = IF p \in DOMAIN mine THEN mine[p] ELSE cloud[p]
    BY <2>1 DEF With
  <2>3. \A p \in Params : Carried(p) => Carried(p)' \/ (p \in DOMAIN mine /\ mine[p] = value[p])
    BY <1>6, <2>1 DEF Carried, InMine
  <2>4. Reported => \A p \in Params : Fine(p)'
    <3> SUFFICES ASSUME Reported, NEW p \in Params PROVE Fine(p)'
      OBVIOUS
    <3>1. CASE p \in DOMAIN mine
      <4>1. mine[p] = value[p] \/ p \in missed'
        BY <2>1, <3>1
      <4> QED
        BY <1>1, <2>2, <3>1, <4>1 DEF Fine, Carried
    <3>2. CASE p \notin DOMAIN mine
      <4>1. Fine(p)
        BY ValuesParts
      <4> QED
        BY <1>1, <1>6, <2>2, <2>3, <3>2, <4>1 DEF Fine
    <3> QED
      BY <3>1, <3>2
  <2>5. Reported => BufferFine'
    <3> SUFFICES ASSUME Reported, NEW u \in Callers, Reporting(u)', NEW p \in DOMAIN buf
                 PROVE  buf[p] = value[p] \/ Carried(p)'
      BY <1>1 DEF BufferFine
    <3>1. Reporting(u)
      BY <1>5
    <3>2. buf[p] = value[p] \/ Carried(p)
      BY <3>1, ValuesParts DEF BufferFine
    <3>3. CASE p \in DOMAIN mine /\ mine[p] = value[p] /\ buf[p] # value[p]
      <4>1. p \in missed'
        BY <2>1, <3>1, <3>3
      <4> QED
        BY <4>1 DEF Carried
    <3> QED
      BY <1>7, <2>3, <3>2, <3>3
  <2> QED
    BY <1>8, <2>4, <2>5 DEF ValuesInv, Fine, BufferFine
<1> QED
  BY <1>9, <1>10

-----------------------------------------------------------------------------
(* Reports: every step *)

CoreTypes == ParamTypes /\ FlagTypes /\ CountTypes
CoreInv == CoreTypes /\ Calls /\ RunningInv /\ AlertInv /\ StoreInv /\ ValuesInv

AnyStep(t) == TaskStep(t) \/ (t = "cloud" /\ CommandStep)

LEMMA ContentTypes ==
  ASSUME ParamTypes PROVE \A k : Content(k) \in Contents /\ DOMAIN Content(k) \subseteq Params
<1> SUFFICES ASSUME NEW k PROVE Content(k) \in Contents /\ DOMAIN Content(k) \subseteq Params
  OBVIOUS
<1>1. Flagged(k) \in SUBSET Params
  BY DEF Flagged
<1>2. Content(k) \in [Flagged(k) -> Values]
  BY <1>1 DEF Content, ParamTypes
<1> QED
  BY <1>1, <1>2, ContentFacts

LEMMA WithTypes ==
  ASSUME ParamTypes, NEW c \in Contents
  PROVE  With(c) \in [Params -> Values \cup {Before}] /\ DOMAIN c \subseteq Params
BY ContentFacts DEF With, ParamTypes

\* What a step writes, but for what is left of the calls.
LEMMA StepTypes ==
  ASSUME CoreTypes, Calls, NEW t \in Callers, AnyStep(t), prog' \in [Callers -> Seq(Steps)]
  PROVE  CoreTypes'
<1>0. ParamTypes /\ FlagTypes /\ CountTypes
  BY DEF CoreTypes
<1> DEFINE Same == UNCHANGED <<running, listening, initDone, alert, updates, failures>>
<1>1. ASSUME ~Idle(t) PROVE Fields(Head(prog[t]))
  BY <1>0, <1>1, FrontFacts DEF Front
<1>2. CASE Set(t)
  <2>1. ~Idle(t) /\ Head(prog[t]).op = "set"
    BY <1>2 DEF Set, At
  <2>2. value' \in [Params -> Values] /\ freed' \subseteq Callers
    BY <1>0, <1>1, <1>2, <2>1 DEF Set, Fields, Arg, Others, ParamTypes
  <2> QED
    BY <1>0, <1>2, <2>2 DEF Set, CoreTypes, ParamTypes, FlagTypes, CountTypes, storing, report, reached, counts
<1>3. CASE Flag(t)
  <2>1. ~Idle(t) /\ Head(prog[t]).op = "flag"
    BY <1>3 DEF Flag, At
  <2>2. Head(prog[t]).p \in Params /\ Arg(t) \in SUBSET {Change, Notify}
    BY <1>1, <2>1 DEF Fields, Arg
  <2>3. flags' \in [Params -> SUBSET {Change, Notify}] /\ missed' \subseteq Params \cup {"alert"}
    BY <1>0, <1>3, <2>2 DEF Flag, ParamTypes
  <2> QED
    BY <1>0, <1>3, <2>3 DEF Flag, CoreTypes, ParamTypes, FlagTypes, CountTypes, storing, report, counts
<1>4. CASE Put(t)
  <2>1. ~Idle(t) /\ Head(prog[t]).op = "put"
    BY <1>4 DEF Put, At
  <2>2. Arg(t) \in Names /\ Arg(t) \in Params
    BY <1>1, <2>1, ParamsAssumption DEF Fields, Arg
  <2>3. nvs' \in [Names -> Values \cup {Junk}] /\ unstored' \subseteq Names /\ freed' \subseteq Callers
    BY <1>0, <1>4, <2>2 DEF Put, Fail, ParamTypes
  <2>4. failures' \in 0..MaxFailures
    BY <1>0, <1>4, ParamsAssumption DEF Put, Fail, CountTypes
  <2> QED
    BY <1>0, <1>4, <2>3, <2>4 DEF Put, CoreTypes, ParamTypes, FlagTypes, CountTypes, report, reached
<1>5. CASE Fill(t)
  <2>1. \A k : Content(k) \in Contents /\ DOMAIN Content(k) \subseteq Params
    BY <1>0, ContentTypes
  <2>2. DOMAIN buf \subseteq Params /\ Nothing \in Contents
    BY <1>0, ContentFacts DEF ParamTypes
  <2>3. buf' \in Contents /\ missed' \subseteq Params \cup {"alert"}
    BY <1>0, <1>5, <2>1, <2>2 DEF Fill, ParamTypes
  <2> QED
    BY <1>0, <1>5, <2>3 DEF Fill, CoreTypes, ParamTypes, FlagTypes, CountTypes, params, storing, counts
<1>6. CASE Reset(t) \/ ResetMine(t)
  <2>1. flags' \in [Params -> SUBSET {Change, Notify}]
    BY <1>0, <1>6 DEF Reset, ResetMine, ParamTypes
  <2> QED
    BY <1>0, <1>6, <2>1 DEF Reset, ResetMine, CoreTypes, ParamTypes, FlagTypes, CountTypes, storing, report, reached, counts
<1>7. CASE Topic(t)
  <2>1. ~Idle(t) /\ Head(prog[t]).op = "topic"
    BY <1>7 DEF Topic, At
  <2>2. Arg(t) \in {"local", "alert", "init"}
    BY <1>1, <2>1 DEF Fields, Arg
  <2>3. topic' \in {"none", "local", "alert", "init"} /\ missed' \subseteq Params \cup {"alert"}
    BY <1>0, <1>7, <2>2 DEF Topic, ParamTypes
  <2> QED
    BY <1>0, <1>7, <2>3 DEF Topic, CoreTypes, ParamTypes, FlagTypes, CountTypes, params, storing, counts
<1>8. CASE Send(t)
  <2>1. With(buf) \in [Params -> Values \cup {Before}] /\ DOMAIN buf \subseteq Params
    BY <1>0, WithTypes DEF ParamTypes
  <2>2. /\ cloud' \in [Params -> Values \cup {Before}] /\ missed' \subseteq Params \cup {"alert"}
        /\ failures' \in 0..MaxFailures
    BY <1>0, <1>8, <2>1, ParamsAssumption DEF Send, Reach, Refuse, Fail, ParamTypes, CountTypes
  <2> QED
    BY <1>0, <1>8, <2>2 DEF Send, CoreTypes, ParamTypes, FlagTypes, CountTypes, params, storing, report
<1>9. CASE AlertTopic(t)
  <2>1. DOMAIN buf \subseteq Params
    BY <1>0, ContentFacts DEF ParamTypes
  <2>2. missed' \subseteq Params \cup {"alert"}
    BY <1>0, <1>9, <2>1 DEF AlertTopic, ParamTypes
  <2> QED
    BY <1>0, <1>9, <2>2 DEF AlertTopic, CoreTypes, ParamTypes, FlagTypes, CountTypes, params, storing, counts
<1>10. CASE SendAlert(t)
  <2>1. alert' \in BOOLEAN
    BY <1>0, <1>10, Zenon DEF SendAlert, FlagTypes
  <2>2. missed' \subseteq Params \cup {"alert"} /\ cloud' = cloud /\ failures' \in 0..MaxFailures
    <3>1. UNCHANGED <<cloud, missed, failures>> \/ Refuse({"alert"})
      BY <1>10, Zenon DEF SendAlert
    <3> QED
      BY <1>0, <3>1, ParamsAssumption DEF Refuse, Fail, ParamTypes, CountTypes
  <2>3. UNCHANGED <<params, report, running, listening, initDone, mine, updates>>
    BY <1>10, Zenon DEF SendAlert
  <2> QED
    BY <1>0, <2>1, <2>2, <2>3 DEF CoreTypes, ParamTypes, FlagTypes, CountTypes, params, storing, report
<1>11. CASE WriteNext(t) \/ Started(t) \/ Store(t) \/ Subscribe(t) \/ InitDone(t)
  BY <1>0, <1>11 DEF WriteNext, Started, Store, Subscribe, InitDone, CoreTypes, ParamTypes, FlagTypes, CountTypes,
     params, storing, report, reached, counts
<1>12. CASE FillMine(t)
  <2>1. mine' \in Contents
    BY <1>0, <1>12, ContentTypes DEF FillMine
  <2> QED
    BY <1>0, <1>12, <2>1 DEF FillMine, CoreTypes, ParamTypes, FlagTypes, CountTypes, params, storing, report, reached, counts
<1>13. CASE Answer(t)
  <2>1. With(mine) \in [Params -> Values \cup {Before}] /\ DOMAIN mine \subseteq Params /\ Nothing \in Contents
    BY <1>0, WithTypes, ContentFacts DEF ParamTypes
  <2>2. /\ cloud' \in [Params -> Values \cup {Before}] /\ missed' \subseteq Params \cup {"alert"}
        /\ failures' \in 0..MaxFailures /\ mine' \in Contents
    BY <1>0, <1>13, <2>1, ParamsAssumption DEF Answer, Refuse, Fail, ParamTypes, CountTypes
  <2> QED
    BY <1>0, <1>13, <2>2 DEF Answer, CoreTypes, ParamTypes, FlagTypes, CountTypes, params, storing, report
<1> QED
  BY <1>2, <1>3, <1>4, <1>5, <1>6, <1>7, <1>8, <1>9, <1>10, <1>11, <1>12, <1>13 DEF AnyStep, TaskStep, CommandStep

\* A parameter of a request, before the others.
LEMMA WriteNextContinues ==
  ASSUME ParamTypes, Calls, NEW t \in Callers, WriteNext(t)
  PROVE  /\ Continues(t, Head(prog[t])) /\ Fresh(t) /\ Telling'
         /\ \A u \in Callers : HasInit(prog'[u]) => HasInit(prog[u])
<1> DEFINE W == Arg(t)
<1>1. ~Idle(t) /\ Head(prog[t]).op = "write"
  BY DEF WriteNext, At
<1>2. Front(t, prog[t], Head(prog[t])) /\ W \in Contents
  BY <1>1, FrontFacts DEF Front, Fields, Arg
<1>3. PICK p \in DOMAIN W :
        prog' = [prog EXCEPT ![t] = Write(p, W[p]) \o Writes([q \in DOMAIN W \ {p} |-> W[q]]) \o Tail(@)]
  BY DEF WriteNext
<1> HIDE DEF W
<1> DEFINE R == [q \in DOMAIN W \ {p} |-> W[q]]
<1>4. p \in Params /\ W[p] \in Values /\ DOMAIN W \ {p} \in SUBSET Params
  BY <1>2, ContentFacts
<1>5. R \in [DOMAIN W \ {p} -> Values]
  BY <1>2, ContentFacts
<1>6. R \in Contents
  BY <1>4, <1>5, ContentFacts
<1>7. prog' = [prog EXCEPT ![t] = Write(p, W[p]) \o Writes(R) \o Tail(@)]
  BY <1>3
<1> HIDE DEF R
<1> DEFINE s == Write(p, W[p]) \o Writes(R)
<1>8. Fits(s)
  BY <1>4, <1>6, WriteFits, WritesFits, JoinFits
<1>9. prog' = [prog EXCEPT ![t] = s \o Tail(@)]
  BY <1>7
<1> HIDE DEF s
<1> QED
  BY <1>1, <1>8, <1>9, ReplaceContinues DEF Fits

\* A report that waited for the node to run.
LEMMA StartedContinues ==
  ASSUME ParamTypes, Calls, FlagTypes, NEW t \in Callers, Started(t)
  PROVE  /\ ~Idle(t) /\ Head(prog[t]).op = "started?"
         /\ Continues(t, Head(prog[t])) /\ Fresh(t) /\ (running => Telling')
         /\ \A u \in Callers : HasInit(prog'[u]) => HasInit(prog[u])
<1> DEFINE r == Arg(t)
           s == IF running THEN r ELSE <<>>
<1>1. ~Idle(t) /\ Head(prog[t]).op = "started?"
  BY DEF Started, At
<1>2. Front(t, prog[t], Head(prog[t])) /\ r \in Seq(Inner)
  BY <1>1, FrontFacts DEF Front, Fields, Arg
<1>3. Whole(r) /\ HasTell(r)
  <2>1. /\ 1 \in 1..Len(prog[t]) /\ StartsWhole(prog[t])
        /\ prog[t][1].op = "started?" /\ prog[t][1].x = r
    BY <1>1, <1>2 DEF Front, Good, Arg
  <2> QED
    BY <2>1 DEF StartsWhole
<1>4. prog' = [prog EXCEPT ![t] = s \o Tail(@)]
  BY DEF Started
<1> HIDE DEF r
<1>5. r \in Seq(Steps) /\ Linked(r) /\ Told(r) /\ First(r)
  BY <1>2, <1>3, InnerSteps DEF Whole
<1>6. \A i \in 1..Len(r) : r[i].op \notin {"started?", "init done"}
  <2> SUFFICES ASSUME NEW i \in 1..Len(r) PROVE r[i].op \notin {"started?", "init done"}
    OBVIOUS
  <2>1. r[i] \in Inner
    BY <1>2, ElementOfSeq
  <2> QED
    BY <2>1 DEF Inner
<1>7. StartsWhole(r) /\ ~HasInit(r)
  BY <1>6 DEF StartsWhole, HasInit
<1>8. /\ s \in Seq(Steps) /\ Linked(s) /\ Told(s) /\ First(s) /\ StartsWhole(s) /\ ~HasInit(s)
      /\ running => HasTell(s)
  <2>1. CASE running
    BY <1>3, <1>5, <1>7, <2>1
  <2>2. CASE ~running
    BY <2>2, EmptyFits DEF Fits
  <2> QED
    BY <2>1, <2>2
<1> HIDE DEF s
<1> QED
  BY <1>1, <1>4, <1>8, ReplaceContinues

\* How the calls go on.
Moves(t) ==
  /\ ~Idle(t) /\ Continues(t, Head(prog[t]))
  /\ \A u \in Callers : HasInit(prog'[u]) => HasInit(prog[u])
  /\ At(t, "init done")' => Head(prog[t]).op = "subscribe"
  /\ Head(prog[t]).op = "alert topic" => At(t, "send alert")'
  /\ Head(prog[t]).op = "set" /\ Head(prog[t]).p \in Names => Stored(prog'[t], Head(prog[t]).p)

LEMMA StepMoves ==
  ASSUME ParamTypes, Calls, FlagTypes, NEW t \in Callers, AnyStep(t)
  PROVE  Moves(t)
<1> DEFINE e == Head(prog[t])
<1>1. /\ ~Idle(t)
      /\ \/ Done(t) \/ WriteNext(t) \/ Started(t)
         \/ Skip(t) /\ e.op \in {"topic", "fill mine"}
  <2>1. CASE TaskStep(t)
    BY <2>1 DEF TaskStep, WriteNext, Set, Flag, Store, Put, Started, Fill, Reset, Topic, Send,
       AlertTopic, SendAlert, Subscribe, InitDone, At, Skip
  <2>2. CASE CommandStep /\ t = "cloud"
    BY <2>2 DEF CommandStep, FillMine, ResetMine, Answer, At, Skip, Done
  <2> QED
    BY <2>1, <2>2 DEF AnyStep
<1>2. CASE Done(t)
  <2>1. Succeeds(t, e)
    BY <1>1, <1>2, DoneSucceeds
  <2> HIDE DEF e
  <2>2. At(t, "init done")' => e.op = "subscribe"
    BY <2>1 DEF Succeeds, Precedes, At, Idle
  <2>3. e.op = "alert topic" => At(t, "send alert")'
    BY <2>1 DEF Succeeds, Open, Follows, At, Idle
  <2> QED
    BY <1>1, <2>1, <2>2, <2>3 DEF Moves, Succeeds, e
<1>3. CASE WriteNext(t) \/ Started(t)
  <2>1. e.op \in {"write", "started?"}
    BY <1>3 DEF WriteNext, Started, At
  <2>2. /\ Continues(t, e) /\ Fresh(t)
        /\ \A u \in Callers : HasInit(prog'[u]) => HasInit(prog[u])
    BY <1>3, WriteNextContinues, StartedContinues
  <2>3. ~At(t, "init done")'
    BY <2>2 DEF Fresh, At, Idle, Bound
  <2> QED
    BY <1>1, <2>1, <2>2, <2>3 DEF Moves
<1>4. CASE Skip(t) /\ e.op \in {"topic", "fill mine"}
  <2>1. /\ Continues(t, e) /\ \A u \in Callers : HasInit(prog'[u]) => HasInit(prog[u])
        /\ prog'[t] # <<>> => Head(prog'[t]).op # "init done"
    BY <1>1, <1>4, SkipContinues
  <2>2. ~At(t, "init done")'
    BY <2>1 DEF At, Idle
  <2> QED
    BY <1>1, <1>4, <2>1, <2>2 DEF Moves
<1> QED
  BY <1>1, <1>2, <1>3, <1>4

LEMMA StepValues ==
  ASSUME ParamTypes, Calls, FlagTypes, RunningInv, ValuesInv, NEW t \in Callers, AnyStep(t)
  PROVE  ValuesInv'
<1> DEFINE e == Head(prog[t])
<1>1. ~Idle(t) /\ Continues(t, e)
  BY StepMoves DEF Moves
<1>2. CASE WriteNext(t)
  <2>1. e.op = "write" /\ Apart(t) /\ UNCHANGED <<value, flags, buf, mine, cloud, topic, missed, initDone>>
    BY <1>2 DEF WriteNext, At, Apart, Reporting, params, report, reached
  <2>2. Fresh(t) /\ Telling'
    BY <1>2, WriteNextContinues
  <2>3. Apart(t)' /\ (Reported' => Reported)
    BY <1>1, <2>1, <2>2, FreshApart, ReportedBack
  <2> HIDE DEF e
  <2> QED
    BY <1>1, <2>1, <2>2, <2>3, QuietValues
<1>3. CASE Started(t)
  <2>1. e.op = "started?" /\ Apart(t) /\ UNCHANGED <<value, flags, buf, mine, cloud, topic, missed, initDone>>
    BY <1>3 DEF Started, At, Apart, Reporting, params, report, reached
  <2>2. Fresh(t) /\ (running => Telling')
    BY <1>3, StartedContinues
  <2>3. Apart(t)' /\ (Reported' => Reported)
    BY <1>1, <2>1, <2>2, FreshApart, ReportedBack
  <2> HIDE DEF e
  <2>4. CASE running
    BY <1>1, <2>1, <2>2, <2>3, <2>4, QuietValues
  <2>5. CASE ~running
    BY <2>1, <2>5 DEF RunningInv, ValuesInv, Reported
  <2> QED
    BY <2>4, <2>5
<1>4. CASE Store(t) \/ Put(t) \/ SendAlert(t) \/ Subscribe(t)
  <2>1. /\ e.op \in {"store", "put", "send alert", "subscribe"} /\ Apart(t) /\ Done(t)
        /\ UNCHANGED <<value, flags, buf, mine, cloud, topic, initDone>> /\ missed \subseteq missed'
    <3>1. CASE Store(t)
      BY <3>1 DEF Store, At, Apart, Reporting, params, report, reached
    <3>4. CASE Put(t)
      BY <3>4 DEF Put, At, Apart, Reporting, report, reached
    <3>2. CASE SendAlert(t)
      <4>1. UNCHANGED <<cloud, missed, failures>> \/ Refuse({"alert"})
        BY <3>2, Zenon DEF SendAlert
      <4>2. UNCHANGED <<params, report, initDone, mine>> /\ At(t, "send alert") /\ Done(t)
        BY <3>2, Zenon DEF SendAlert
      <4> QED
        BY <4>1, <4>2 DEF Refuse, At, Apart, Reporting, params, report
    <3>3. CASE Subscribe(t)
      BY <3>3 DEF Subscribe, At, Apart, Reporting, params, report, reached
    <3> QED
      BY <1>4, <3>1, <3>2, <3>3, <3>4
  <2>2. Succeeds(t, e)
    BY <1>1, <2>1, DoneSucceeds
  <2> HIDE DEF e
  <2>3. Apart(t)' /\ (Reported' => Reported) /\ (Telling => Telling')
    BY <1>1, <2>1, <2>2, SucceedsApart, ReportedBack DEF Continues, Tells
  <2> QED
    BY <1>1, <2>1, <2>3, QuietValues
<1>5. CASE InitDone(t)
  <2>1. e.op = "init done" /\ Done(t)
    BY <1>5 DEF InitDone, At
  <2>2. Succeeds(t, e)
    BY <1>1, <2>1, DoneSucceeds
  <2> HIDE DEF e
  <2>3. prog'[t] # <<>> /\ Head(prog'[t]).op = "fill" /\ Head(prog'[t]).x = "all"
    BY <2>1, <2>2 DEF Succeeds, Open, Follows
  <2>4. prog'[t] \in Seq(Steps)
    BY <1>1 DEF Continues
  <2>5. 1 \in 1..Len(prog'[t]) /\ Head(prog'[t]) = prog'[t][1]
    BY <2>3, <2>4, TailFacts
  <2>6. HasAll(prog'[t])
    BY <2>3, <2>5 DEF HasAll
  <2> QED
    BY <2>6 DEF ValuesInv, Reported
<1> QED
  BY <1>2, <1>3, <1>4, <1>5, SetValues, FlagValues, FillValues, ResetValues, TopicValues, SendValues,
     AlertTopicValues, FillMineValues, ResetMineValues, AnswerValues
  DEF AnyStep, TaskStep, CommandStep

LEMMA StepRunning ==
  ASSUME CoreInv, NEW t \in Callers, AnyStep(t)
  PROVE  RunningInv'
<1>0. ParamTypes /\ FlagTypes /\ Calls /\ RunningInv
  BY DEF CoreInv, CoreTypes
<1>1. Moves(t)
  BY <1>0, StepMoves
<1>2. /\ running' = running
      /\ listening' = listening \/ listening' = TRUE
      /\ initDone' = initDone \/ (At(t, "init done") /\ initDone' = TRUE)
      /\ Head(prog[t]).op = "subscribe" => listening' = TRUE
  BY DEF AnyStep, TaskStep, CommandStep, WriteNext, Set, Flag, Store, Put, Started, Fill, Reset, Topic, Send,
     AlertTopic, SendAlert, Subscribe, InitDone, FillMine, ResetMine, Answer, At
<1>3. At(t, "init done") => HasInit(prog[t])
  <2> SUFFICES ASSUME At(t, "init done") PROVE HasInit(prog[t])
    OBVIOUS
  <2>1. ~Idle(t) /\ Head(prog[t]).op = "init done"
    BY DEF At
  <2>2. 1 \in 1..Len(prog[t]) /\ prog[t][1].op = "init done"
    BY <1>0, <2>1, FrontFacts DEF Front
  <2> QED
    BY <2>2 DEF HasInit
<1>4. listening => listening'
  BY <1>0, <1>2 DEF FlagTypes
<1>5. initDone' => running' /\ listening'
  BY <1>0, <1>2, <1>3, <1>4 DEF RunningInv
<1>6. \A u \in Callers : At(u, "init done")' => listening'
  <2> SUFFICES ASSUME NEW u \in Callers, At(u, "init done")' PROVE listening'
    OBVIOUS
  <2>1. CASE u = t
    BY <1>1, <1>2, <2>1 DEF Moves
  <2>2. CASE u # t
    BY <1>0, <1>1, <1>4, <2>2, OthersStay DEF RunningInv, Moves
  <2> QED
    BY <2>1, <2>2
<1>7. \A u \in Callers : HasInit(prog'[u]) => running'
  BY <1>0, <1>1, <1>2 DEF RunningInv, Moves
<1> QED
  BY <1>5, <1>6, <1>7 DEF RunningInv

LEMMA StepAlert ==
  ASSUME CoreInv, NEW t \in Callers, AnyStep(t)
  PROVE  AlertInv'
<1>0. ParamTypes /\ FlagTypes /\ Calls /\ AlertInv
  BY DEF CoreInv, CoreTypes
<1>1. Moves(t)
  BY <1>0, StepMoves
<1>2. t # "app" => \A op : At("app", op)' <=> At("app", op)
  BY <1>1, OthersStay DEF Moves, Callers
<1>3. CASE AlertTopic(t)
  <2>1. At(t, "alert topic") /\ topic' = "alert" /\ alert' = alert /\ missed \subseteq missed'
    BY <1>3 DEF AlertTopic
  <2>2. At(t, "send alert")' /\ ~At(t, "send alert")
    BY <1>1, <2>1 DEF Moves, At
  <2> QED
    BY <1>0, <1>2, <2>1, <2>2 DEF AlertInv
<1>4. CASE SendAlert(t)
  <2>1. At(t, "send alert") /\ UNCHANGED topic
    BY <1>4, Zenon DEF SendAlert, report
  <2>2. ~At(t, "alert topic")
    BY <2>1 DEF At
  <2>3. (missed' = missed /\ (alert' => alert /\ topic # "alert")) \/ "alert" \in missed'
    <3>1. CASE Refuse({"alert"})
      BY <3>1 DEF Refuse
    <3>2. CASE ~Refuse({"alert"})
      BY <1>4, <3>2, Zenon DEF SendAlert
    <3> QED
      BY <3>1, <3>2
  <2> QED
    BY <1>0, <1>2, <2>1, <2>2, <2>3 DEF AlertInv
<1>5. CASE Topic(t)
  <2>1. At(t, "topic") /\ alert' = alert /\ missed \subseteq missed'
    BY <1>5 DEF Topic
  <2>2. ~At(t, "alert topic") /\ ~At(t, "send alert")
    BY <2>1 DEF At
  <2>3. topic' = topic \/ (At("app", "send alert") => "alert" \in missed')
    <3> SUFFICES ASSUME At("app", "send alert"), topic' # topic PROVE "alert" \in missed'
      OBVIOUS
    <3>1. "app" \in {o \in Others(t) : At(o, "send alert")}
      BY <2>2 DEF Others, Callers
    <3> QED
      BY <1>5, <3>1 DEF Topic
  <2> QED
    BY <1>0, <1>2, <2>1, <2>2, <2>3 DEF AlertInv
<1>6. CASE ~AlertTopic(t) /\ ~SendAlert(t) /\ ~Topic(t)
  <2>0. DOMAIN buf \subseteq Params /\ DOMAIN mine \subseteq Params
    BY <1>0, ContentFacts DEF ParamTypes
  <2>1. topic' = topic /\ alert' = alert
    BY <1>6 DEF AnyStep, TaskStep, CommandStep, WriteNext, Set, Flag, Store, Put, Started, Fill, Reset, Send,
       Subscribe, InitDone, FillMine, ResetMine, Answer, report, reached
  <2>2. "alert" \in missed => "alert" \in missed'
    <3>1. CASE Send(t) \/ Answer(t)
      BY <2>0, <3>1, ParamsAssumption DEF Send, Answer, Reach, Refuse
    <3>2. CASE ~Send(t) /\ ~Answer(t)
      BY <1>6, <3>2 DEF AnyStep, TaskStep, CommandStep, WriteNext, Set, Flag, Store, Put, Started, Fill, Reset,
         Subscribe, InitDone, FillMine, ResetMine, reached
    <3> QED
      BY <3>1, <3>2
  <2>3. ~At(t, "alert topic") /\ ~At(t, "send alert")
    BY <1>6 DEF AnyStep, TaskStep, CommandStep, WriteNext, Set, Flag, Store, Put, Started, Fill, Reset, Send,
       Subscribe, InitDone, FillMine, ResetMine, Answer, At
  <2> QED
    BY <1>0, <1>2, <2>1, <2>2, <2>3 DEF AlertInv
<1> QED
  BY <1>3, <1>4, <1>5, <1>6

LEMMA StepStored ==
  ASSUME CoreInv, NEW t \in Callers, AnyStep(t)
  PROVE  StoreInv'
<1>0. ParamTypes /\ FlagTypes /\ Calls /\ StoreInv
  BY DEF CoreInv, CoreTypes
<1> DEFINE e == Head(prog[t])
<1>1. Moves(t) /\ Continues(t, e) /\ (e.op = "set" /\ e.p \in Names => Stored(prog'[t], e.p))
  BY <1>0, StepMoves DEF Moves
<1>2. ~Idle(t) /\ Fields(e)
  BY <1>0, <1>1, FrontFacts DEF Moves, Front
<1> SUFFICES ASSUME NEW p \in Names PROVE nvs'[p] = value'[p] \/ ToStore(p)' \/ p \in unstored'
  BY DEF StoreInv
<1>3. p \in Params
  BY ParamsAssumption
<1>4. CASE Set(t)
  <2>1. e.op = "set" /\ nvs' = nvs /\ unstored' = unstored /\ value' = [value EXCEPT ![e.p] = Arg(t)]
    BY <1>4 DEF Set, At
  <2>2. CASE e.p = p
    BY <1>1, <2>1, <2>2 DEF ToStore
  <2>3. CASE e.p # p
    BY <1>0, <1>1, <1>3, <2>1, <2>3 DEF StoreInv, Continues, ParamTypes
  <2> QED
    BY <2>2, <2>3
<1>5. CASE Put(t)
  <2>1. e.op = "put" /\ value' = value /\ e.x \in Names /\ Arg(t) = e.x
    BY <1>2, <1>5 DEF Put, At, Arg, Fields
  <2>2. CASE e.x = p
    <3>1. nvs'[p] = value[p] \/ p \in unstored'
      BY <1>0, <1>5, <2>1, <2>2 DEF Put, ParamTypes
    <3> QED
      BY <2>1, <3>1
  <2>3. CASE e.x # p
    <3>1. nvs'[p] = nvs[p] /\ (p \in unstored => p \in unstored')
      BY <1>0, <1>5, <2>1, <2>3 DEF Put, ParamTypes
    <3>2. ToStore(p) => ToStore(p)'
      BY <1>1, <1>3, <2>3 DEF Continues
    <3> QED
      BY <1>0, <2>1, <3>1, <3>2 DEF StoreInv
  <2> QED
    BY <2>2, <2>3
<1>6. CASE ~Set(t) /\ ~Put(t)
  <2>1. nvs' = nvs /\ unstored' = unstored /\ value' = value /\ e.op # "put"
    <3>1. CASE SendAlert(t)
      <4>1. At(t, "send alert") /\ UNCHANGED params
        BY <3>1, Zenon DEF SendAlert
      <4> QED
        BY <4>1 DEF At, params, storing
    <3>2. CASE ~SendAlert(t)
      BY <1>6, <3>2 DEF AnyStep, TaskStep, CommandStep, WriteNext, Flag, Store, Started, Fill, Reset, Topic, Send,
         AlertTopic, Subscribe, InitDone, FillMine, ResetMine, Answer, At, params, storing
    <3> QED
      BY <3>1, <3>2
  <2> QED
    BY <1>0, <1>1, <1>3, <2>1 DEF StoreInv, Continues
<1> QED
  BY <1>4, <1>5, <1>6

LEMMA StepCore ==
  ASSUME CoreInv, NEW t \in Callers, AnyStep(t)
  PROVE  CoreInv'
<1>0. ParamTypes /\ FlagTypes /\ Calls /\ RunningInv /\ ValuesInv /\ CoreTypes
  BY DEF CoreInv, CoreTypes
<1>1. Moves(t)
  BY <1>0, StepMoves
<1>2. Calls' /\ prog' \in [Callers -> Seq(Steps)]
  BY <1>1 DEF Moves, Continues
<1> QED
  BY <1>0, <1>2, StepTypes, StepValues, StepRunning, StepAlert, StepStored DEF CoreInv

\* A call begins.
LEMMA CallCore ==
  ASSUME CoreInv, NEW t \in Callers, NEW s \in Seq(Steps), Good(s), First(s), Call(t, s),
         HasAll(s) \/ HasInit(s) => running /\ ~initDone,
         UNCHANGED <<params, report, running, listening, initDone, mine, cloud, failures>>,
         CountTypes', \A p \in Params : p \in missed => p \in missed', missed' \subseteq missed,
         alert' \in BOOLEAN, AlertInv'
  PROVE  CoreInv'
<1>0. ParamTypes /\ FlagTypes /\ Calls /\ RunningInv /\ ValuesInv /\ StoreInv
  BY DEF CoreInv, CoreTypes
<1>1. /\ Continues(t, Step("call")) /\ Fresh(t) /\ prog'[t] = s
      /\ ~HasInit(s) => \A u \in Callers : HasInit(prog'[u]) => HasInit(prog[u])
  BY <1>0, CallContinues
<1>2. Step("call").op = "call"
  BY DEF Step
<1>3. UNCHANGED <<value, flags, nvs, freed, unstored, buf, topic, running, listening, initDone, mine, cloud>>
  BY DEF params, storing, report
<1>4. prog' \in [Callers -> Seq(Steps)] /\ Calls'
  BY <1>1 DEF Continues
<1>5. CoreTypes'
  BY <1>0, <1>3, <1>4 DEF CoreTypes, ParamTypes, FlagTypes
<1>6. Apart(t) /\ Apart(t)'
  BY <1>1, FreshApart DEF Call, Apart, Reporting, At
<1>7. ValuesInv'
  <2>1. Telling => Telling'
    BY <1>1, <1>2 DEF Continues, Tells
  <2>2. Reported' => Reported
    BY <1>1, <1>2, <1>3, ReportedBack
  <2> QED
    BY <1>0, <1>1, <1>2, <1>3, <1>6, <2>1, <2>2, QuietValues
<1>8. StoreInv'
  BY <1>0, <1>1, <1>2, <1>3, ParamsAssumption DEF StoreInv, Continues
<1>9. RunningInv'
  <2>1. \A u \in Callers : u # t => prog'[u] = prog[u]
    BY <1>1 DEF Continues, Others
  <2>2. ~At(t, "init done")'
    BY <1>1 DEF Fresh, At, Idle, Bound
  <2>3. \A u \in Callers : At(u, "init done")' => listening'
    <3> SUFFICES ASSUME NEW u \in Callers, At(u, "init done")' PROVE listening'
      OBVIOUS
    <3>1. u # t
      BY <2>2
    <3>2. At(u, "init done")
      BY <1>1, <3>1, OthersStay
    <3>3. listening
      BY <1>0, <3>2 DEF RunningInv
    <3> QED
      BY <1>3, <3>3
  <2>4. \A u \in Callers : HasInit(prog'[u]) => running'
    <3> SUFFICES ASSUME NEW u \in Callers, HasInit(prog'[u]) PROVE running'
      OBVIOUS
    <3>1. running
      <4>1. CASE u = t
        BY <1>1, <4>1
      <4>2. CASE u # t
        BY <1>0, <2>1, <4>2 DEF RunningInv
      <4> QED
        BY <4>1, <4>2
    <3> QED
      BY <1>3, <3>1
  <2>5. initDone' => running' /\ listening'
    BY <1>0, <1>3 DEF RunningInv
  <2> QED
    BY <2>3, <2>4, <2>5 DEF RunningInv
<1> QED
  BY <1>4, <1>5, <1>7, <1>8, <1>9 DEF CoreInv

LEMMA OtherValues == ParamTypes => \A p \in Params : Other(p) \in Values
BY DEF ParamTypes, Other, Values

LEMMA RequestsContents == ParamTypes => Requests \subseteq Contents
<1> SUFFICES ASSUME ParamTypes, NEW P \in SUBSET Params PROVE [p \in P |-> Other(p)] \in Contents
  BY DEF Requests
<1>1. [p \in P |-> Other(p)] \in [P -> Values]
  BY OtherValues
<1> QED
  BY <1>1, ContentFacts

LEMMA FitsGood == ASSUME NEW s, Fits(s), Told(s)
                  PROVE  s \in Seq(Steps) /\ Good(s) /\ First(s) /\ ~HasAll(s) /\ ~HasInit(s)
BY DEF Fits, Good

\* A call raises no alert, and a task that has not begun publishes none.
LEMMA CallAlert ==
  ASSUME CoreInv, NEW t \in Callers, NEW s \in Seq(Steps), Good(s), First(s), Call(t, s),
         UNCHANGED <<report, alert, missed>>
  PROVE  AlertInv'
<1>0. ParamTypes /\ Calls /\ AlertInv
  BY DEF CoreInv, CoreTypes
<1>1. Continues(t, Step("call"))
  BY <1>0, CallContinues
<1>2. t # "app" => \A op : At("app", op)' <=> At("app", op)
  BY <1>1, OthersStay DEF Callers
<1>3. \A op : ~At(t, op)
  BY DEF Call, At
<1> QED
  BY <1>0, <1>2, <1>3 DEF AlertInv, report

LEMMA PlainCallCore ==
  ASSUME CoreInv, NEW t \in Callers, NEW s, Fits(s), Told(s), Call(t, s), CountTypes',
         UNCHANGED <<params, report, running, listening, initDone, mine, reached, failures>>
  PROVE  CoreInv'
<1>1. s \in Seq(Steps) /\ Good(s) /\ First(s) /\ ~HasAll(s) /\ ~HasInit(s)
  BY FitsGood
<1>2. UNCHANGED <<cloud, alert, missed>> /\ alert' \in BOOLEAN
  BY DEF reached, CoreInv, CoreTypes, FlagTypes
<1>3. AlertInv'
  BY <1>1, <1>2, CallAlert
<1> QED
  BY <1>1, <1>2, <1>3, CallCore

LEMMA CountKeeps ==
  ASSUME CountTypes, Count \/ (updates + 2 <= MaxUpdates /\ updates' = updates + 2) \/ updates' = updates,
         failures' = failures
  PROVE  CountTypes'
BY ParamsAssumption DEF CountTypes, Count

LEMMA ParamsCore ==
  ASSUME CoreInv, ParamsNext PROVE CoreInv'
<1>0. ParamTypes /\ FlagTypes /\ CountTypes /\ Calls /\ RunningInv
  BY DEF CoreInv, CoreTypes
<1>1. CASE AppUpdate
  <2>1. PICK p \in Params \ Names : Call("app", UpdateAndReport(p, Other(p)))
    BY <1>1 DEF AppUpdate
  <2>2. LET s == UpdateAndReport(p, Other(p)) IN Fits(s) /\ Told(s)
    BY <1>0, OtherValues, UpdateAndReportFits
  <2>3. CountTypes' /\ UNCHANGED <<params, report, running, listening, initDone, mine, reached, failures>>
    BY <1>0, <1>1, CountKeeps DEF AppUpdate
  <2> QED
    BY <2>1, <2>2, <2>3, PlainCallCore DEF Callers
<1>2. CASE AppNotify
  <2>1. PICK p \in Params \ Names : Call("app", UpdateAndNotify(p, Other(p)))
    BY <1>2 DEF AppNotify
  <2>2. LET s == UpdateAndNotify(p, Other(p)) IN Fits(s) /\ Told(s)
    BY <1>0, OtherValues, UpdateAndNotifyFits
  <2>3. CountTypes' /\ UNCHANGED <<params, report, running, listening, initDone, mine, reached, failures>>
    BY <1>0, <1>2, CountKeeps DEF AppNotify
  <2> QED
    BY <2>1, <2>2, <2>3, PlainCallCore DEF Callers
<1>3. CASE AppAlert
  <2> DEFINE s == <<Step("alert topic"), Step("send alert")>>
  <2>1. Call("app", s) /\ alert' = TRUE /\ missed' = missed \ {"alert"}
    BY <1>3 DEF AppAlert
  <2>2. Fits(s) /\ Told(s) /\ Head(s).op = "alert topic"
    BY AlertFits
  <2> HIDE DEF s
  <2>3. s \in Seq(Steps) /\ Good(s) /\ First(s) /\ ~HasAll(s) /\ ~HasInit(s)
    BY <2>2, FitsGood
  <2>4. CountTypes' /\ UNCHANGED <<params, report, running, listening, initDone, mine, cloud, failures>>
    BY <1>0, <1>3, CountKeeps DEF AppAlert
  <2>5. s # <<>>
    BY DEF s
  <2>6. AlertInv'
    <3>1. prog'["app"] = s
      BY <1>0, <2>1, <2>3, CallContinues DEF Callers
    <3>2. At("app", "alert topic")'
      BY <2>2, <2>5, <3>1 DEF At, Idle
    <3> QED
      BY <3>2 DEF AlertInv
  <2>7. /\ \A p \in Params : p \in missed => p \in missed'
        /\ missed' \subseteq missed /\ alert' \in BOOLEAN
    BY <2>1, ParamsAssumption
  <2> QED
    BY <2>1, <2>3, <2>4, <2>6, <2>7, CallCore DEF Callers
<1>4. CASE CloudSets
  <2>1. PICK W \in Requests : Call("cloud", SetParams(W))
    BY <1>4 DEF CloudSets
  <2>2. LET s == SetParams(W) IN Fits(s) /\ Told(s)
    BY <1>0, RequestsContents, SetParamsFits
  <2>3. CountTypes' /\ UNCHANGED <<params, report, running, listening, initDone, mine, reached, failures>>
    BY <1>0, <1>4, CountKeeps DEF CloudSets
  <2> QED
    BY <2>1, <2>2, <2>3, PlainCallCore DEF Callers
<1>5. CASE ScheduleSets
  <2>1. PICK p \in Params : Call("work", SetParams([q \in {p} |-> Other(q)]))
    BY <1>5 DEF ScheduleSets
  <2>2. [q \in {p} |-> Other(q)] \in Contents
    <3>1. [q \in {p} |-> Other(q)] \in [{p} -> Values]
      BY <1>0, OtherValues
    <3> QED
      BY <3>1, ContentFacts
  <2>3. LET s == SetParams([q \in {p} |-> Other(q)]) IN Fits(s) /\ Told(s)
    BY <2>2, SetParamsFits
  <2>4. CountTypes' /\ UNCHANGED <<params, report, running, listening, initDone, mine, reached, failures>>
    BY <1>0, <1>5, CountKeeps DEF ScheduleSets
  <2> QED
    BY <2>1, <2>3, <2>4, PlainCallCore DEF Callers
<1>6. CASE InitParams
  <2>1. Call("work", MqttInit) /\ running /\ ~initDone
    BY <1>6 DEF InitParams
  <2>2. MqttInit \in Seq(Steps) /\ Good(MqttInit) /\ First(MqttInit)
    BY InitGood
  <2>3. /\ UNCHANGED <<params, report, running, listening, initDone, mine, reached, counts>>
        /\ UNCHANGED <<cloud, alert, missed, updates, failures>>
    BY <1>6 DEF InitParams, reached, counts
  <2>4. CountTypes' /\ alert' \in BOOLEAN /\ AlertInv'
    BY <1>0, <2>1, <2>2, <2>3, CountKeeps, CallAlert DEF Callers, FlagTypes
  <2> QED
    BY <2>1, <2>2, <2>3, <2>4, CallCore DEF Callers
<1>7. CASE \E t \in Callers : TaskStep(t)
  BY <1>7, StepCore DEF AnyStep
<1> QED
  BY <1>1, <1>2, <1>3, <1>4, <1>5, <1>6, <1>7 DEF ParamsNext

LEMMA RunCore == ASSUME CoreInv, StartRunning PROVE CoreInv'
<1>0. UNCHANGED <<value, flags, nvs, freed, unstored, buf, topic, listening, initDone, prog, mine, cloud, alert, missed, updates, failures>>
  BY DEF StartRunning, params, storing, report, reached, counts
<1>1. running' = TRUE
  BY DEF StartRunning
<1>2. CoreTypes' /\ Calls' /\ StoreInv' /\ AlertInv'
  BY <1>0, <1>1 DEF CoreInv, CoreTypes, ParamTypes, FlagTypes, CountTypes, Calls, StoreInv, ToStore, AlertInv, At, Idle
<1>3. RunningInv'
  BY <1>0, <1>1 DEF CoreInv, RunningInv, At, Idle
<1>4. ValuesInv'
  BY <1>0 DEF CoreInv, ValuesInv, Reported, Carried, ToFlag, ToTell, Telling, InMine, InBuffer, Answering,
     Carrying, Resetting, Reporting, At, Idle, Arg
<1> QED
  BY <1>2, <1>3, <1>4 DEF CoreInv

-----------------------------------------------------------------------------
(* Reports: commands *)

CmdTypes ==
  /\ link \in {"new", "up", "down"} /\ events \in Nat /\ drops \in 0..MaxDrops
  /\ subscribed \in BOOLEAN /\ asked \in BOOLEAN /\ unheard \in BOOLEAN
  /\ command \in {"none", "waiting"}

ReportsInv == CoreInv /\ CmdTypes /\ PursueInv

\* Parameters stay as they are, but for the counters.
LEMMA SameCore ==
  ASSUME CoreInv, CountTypes', UNCHANGED <<params, report, running, listening, initDone, prog, mine, reached>>
  PROVE  CoreInv'
<1>0. UNCHANGED <<value, flags, nvs, freed, unstored, buf, topic, running, listening, initDone, prog, mine, cloud, alert, missed>>
  BY DEF params, storing, report, reached
<1>1. CoreTypes' /\ Calls' /\ StoreInv' /\ AlertInv'
  BY <1>0 DEF CoreInv, CoreTypes, ParamTypes, FlagTypes, Calls, StoreInv, ToStore, AlertInv, At, Idle
<1>2. RunningInv'
  <2>1. RunningInv /\ FlagTypes /\ UNCHANGED <<running, listening, initDone, prog>>
    BY <1>0 DEF CoreInv, CoreTypes
  <2>2. \A u \in Callers : At(u, "init done")' <=> At(u, "init done")
    BY <2>1 DEF At, Idle
  <2>3. initDone' => running' /\ listening'
    BY <2>1 DEF RunningInv, FlagTypes
  <2>4. \A u \in Callers : At(u, "init done")' => listening'
    <3> SUFFICES ASSUME NEW u \in Callers, At(u, "init done")' PROVE listening'
      OBVIOUS
    <3>1. listening
      BY <2>1, <2>2 DEF RunningInv
    <3> QED
      BY <2>1, <3>1
  <2>5. \A u \in Callers : HasInit(prog'[u]) => running'
    <3> SUFFICES ASSUME NEW u \in Callers, HasInit(prog'[u]) PROVE running'
      OBVIOUS
    <3>1. running
      BY <2>1 DEF RunningInv
    <3> QED
      BY <2>1, <3>1
  <2> QED
    BY <2>3, <2>4, <2>5 DEF RunningInv
<1>3. ValuesInv'
  <2>1. Reported' => Reported
    BY <1>0 DEF Reported, CoreInv, CoreTypes, FlagTypes
  <2>2. /\ \A u \in Callers : /\ Reporting(u)' <=> Reporting(u)
                              /\ Resetting(u)' <=> Resetting(u)
                              /\ Carrying(u)' <=> Carrying(u)
        /\ Answering' <=> Answering
        /\ Telling' <=> Telling
        /\ \A p \in Params : ToFlag(p)' <=> ToFlag(p)
    BY <1>0 DEF Reporting, Resetting, Carrying, Answering, Telling, ToFlag, At, Idle, Arg
  <2>3. \A p \in Params : (Carried(p)' <=> Carried(p)) /\ (InBuffer(p)' <=> InBuffer(p))
    BY <1>0, <2>2 DEF Carried, ToTell, InMine, InBuffer, Others
  <2>4. DOMAIN buf \subseteq Params
    BY ContentFacts DEF CoreInv, CoreTypes, ParamTypes
  <2> QED
    BY <1>0, <2>1, <2>2, <2>3, <2>4 DEF CoreInv, ValuesInv
<1> QED
  BY <1>1, <1>2, <1>3 DEF CoreInv

LEMMA ConnectsInv == ASSUME ReportsInv, Connects PROVE ReportsInv'
<1>0. CoreInv /\ CountTypes /\ CmdTypes /\ PursueInv
  BY DEF ReportsInv, CoreInv, CoreTypes
<1>1. CoreInv'
  BY <1>0, SameCore DEF Connects, paramVars, counts, CountTypes
<1>2. CmdTypes'
  BY <1>0 DEF Connects, CmdTypes
<1>3. PursueInv'
  BY <1>0 DEF Connects, CmdTypes, PursueInv
<1> QED
  BY <1>1, <1>2, <1>3 DEF ReportsInv

LEMMA DisconnectsInv == ASSUME ReportsInv, Disconnects PROVE ReportsInv'
<1>0. CoreInv /\ CountTypes /\ CmdTypes /\ PursueInv
  BY DEF ReportsInv, CoreInv, CoreTypes
<1>1. CoreInv'
  BY <1>0, SameCore DEF Disconnects, paramVars, counts, CountTypes
<1>2. CmdTypes'
  <2>1. drops' \in 0..MaxDrops /\ link' \in {"new", "up", "down"} /\ events' \in Nat
    BY <1>0, DropsAssumption DEF Disconnects, CmdTypes
  <2>2. asked' = FALSE /\ UNCHANGED <<subscribed, command, unheard>>
    BY DEF Disconnects
  <2> QED
    BY <1>0, <2>1, <2>2 DEF CmdTypes
<1>3. PursueInv'
  BY <1>0 DEF Disconnects, CmdTypes, PursueInv
<1> QED
  BY <1>1, <1>2, <1>3 DEF ReportsInv

LEMMA CheckPendingInv == ASSUME ReportsInv, CheckPending PROVE ReportsInv'
<1>0. CoreInv /\ CountTypes /\ CmdTypes /\ PursueInv
  BY DEF ReportsInv, CoreInv, CoreTypes
<1>1. /\ events > 0 /\ events' = events - 1 /\ UNCHANGED <<link, drops, updates, command>>
      /\ UNCHANGED <<params, report, running, listening, initDone, prog, mine, reached>>
  BY DEF CheckPending, Checks
<1>2. \/ /\ subscribed \/ link = "up"
         /\ subscribed' = TRUE /\ Ask
      \/ ~subscribed /\ link # "up" /\ UNCHANGED <<subscribed, asked, unheard, failures>>
      \/ ~subscribed /\ link = "up" /\ Fail /\ unheard' = TRUE /\ UNCHANGED <<subscribed, asked>>
  BY DEF CheckPending
<1>3. Fail => failures' \in 0..MaxFailures
  BY <1>0, ParamsAssumption DEF Fail, CountTypes
<1>4. Ask => /\ asked' \in BOOLEAN /\ unheard' \in BOOLEAN /\ failures' \in 0..MaxFailures
             /\ (command = "waiting" => asked') \/ unheard'
  <2>1. CASE asked' = (command # "none") /\ unheard' = FALSE /\ UNCHANGED failures
    <3>1. asked' \in BOOLEAN /\ (command # "none" => asked') /\ unheard' \in BOOLEAN
      BY <2>1, Zenon
    <3> QED
      BY <1>0, <2>1, <3>1 DEF CountTypes
  <2>2. CASE Fail /\ unheard' = TRUE /\ UNCHANGED asked
    BY <1>0, <1>3, <2>2 DEF CmdTypes
  <2> QED
    BY <2>1, <2>2 DEF Ask
<1>5. CountTypes'
  BY <1>0, <1>1, <1>2, <1>3, <1>4 DEF CountTypes
<1>6. CoreInv'
  BY <1>0, <1>1, <1>5, SameCore
<1>7. CmdTypes'
  <2>1. events' \in Nat /\ link' \in {"new", "up", "down"} /\ drops' \in 0..MaxDrops /\ command' \in {"none", "waiting"}
    BY <1>0, <1>1 DEF CmdTypes
  <2>2. subscribed' \in BOOLEAN /\ asked' \in BOOLEAN /\ unheard' \in BOOLEAN
    BY <1>0, <1>2, <1>4 DEF CmdTypes
  <2> QED
    BY <2>1, <2>2 DEF CmdTypes
<1>8. link = "up" => (subscribed' /\ (command = "waiting" => asked')) \/ unheard'
  BY <1>2, <1>4
<1>9. PursueInv'
  BY <1>0, <1>1, <1>8 DEF PursueInv, CmdTypes
<1> QED
  BY <1>6, <1>7, <1>9 DEF ReportsInv

LEMMA IssueInv == ASSUME ReportsInv, Issue PROVE ReportsInv'
<1>0. CoreInv /\ CountTypes /\ CmdTypes /\ PursueInv
  BY DEF ReportsInv, CoreInv, CoreTypes
<1>1. /\ Count /\ command' = "waiting" /\ failures' = failures
      /\ UNCHANGED <<link, events, drops, subscribed, unheard>>
      /\ UNCHANGED <<params, report, running, listening, initDone, prog, mine, reached>>
  BY DEF Issue, linkVars
<1>2. asked' \in BOOLEAN /\ (link = "up" /\ subscribed => asked')
  BY Zenon DEF Issue
<1>3. CoreInv'
  BY <1>0, <1>1, CountKeeps, SameCore
<1>4. CmdTypes'
  BY <1>0, <1>1, <1>2 DEF CmdTypes
<1>5. PursueInv'
  BY <1>0, <1>1, <1>2 DEF PursueInv, CmdTypes
<1> QED
  BY <1>3, <1>4, <1>5 DEF ReportsInv

LEMMA DeliverInv == ASSUME ReportsInv, Deliver PROVE ReportsInv'
<1>0. CoreInv /\ CountTypes /\ ParamTypes /\ CmdTypes /\ PursueInv
  BY DEF ReportsInv, CoreInv, CoreTypes
<1>1. PICK W \in Requests : Call("cloud", Command(W))
  BY DEF Deliver
<1>2. LET s == Command(W) IN Fits(s) /\ Told(s)
  BY <1>0, RequestsContents, CommandFits
<1>3. /\ UNCHANGED <<params, report, running, listening, initDone, mine, reached, failures, updates>>
      /\ UNCHANGED <<link, events, drops, subscribed, unheard>>
      /\ command' = "none" /\ asked' = FALSE
  BY DEF Deliver, counts, linkVars
<1>4. CoreInv'
  BY <1>0, <1>1, <1>2, <1>3, CountKeeps, PlainCallCore DEF Callers
<1>5. CmdTypes' /\ PursueInv'
  BY <1>0, <1>3 DEF CmdTypes, PursueInv
<1> QED
  BY <1>4, <1>5 DEF ReportsInv

LEMMA ReportsInvInit == ReportsInit => ReportsInv
<1> SUFFICES ASSUME ReportsInit PROVE ReportsInv
  OBVIOUS
<1>1. ParamsInit /\ prog = [t \in Callers |-> <<>>] /\ ~initDone /\ ~alert /\ running = FALSE
  BY DEF ReportsInit, ParamsInit
<1>2. Nothing \in Contents
  BY ContentFacts
<1>3. CoreTypes
  <2>1. ParamTypes
    BY <1>1, <1>2, ParamsAssumption DEF ParamsInit, ParamTypes, Values
  <2>2. CountTypes
    BY <1>1, ParamsAssumption DEF ParamsInit, CountTypes
  <2>3. FlagTypes
    BY <1>1 DEF ParamsInit, FlagTypes
  <2> QED
    BY <2>1, <2>2, <2>3 DEF CoreTypes
<1>4. Calls
  <2>1. \A t \in Callers : prog[t] = <<>>
    BY <1>1
  <2>2. Good(<<>>)
    BY EmptyFits DEF Fits, Good
  <2> QED
    BY <2>1, <2>2 DEF Calls
<1>5. RunningInv
  <2>1. \A t \in Callers : prog[t] = <<>> /\ ~HasInit(<<>>)
    BY <1>1, EmptyFits DEF Fits
  <2> QED
    BY <1>1, <2>1 DEF RunningInv, At, Idle
<1>6. StoreInv
  BY <1>1, ParamsAssumption DEF ParamsInit, StoreInv
<1>7. AlertInv /\ ValuesInv
  BY <1>1 DEF AlertInv, ValuesInv, Reported
<1>8. CmdTypes /\ PursueInv
  <2>1. /\ link = "new" /\ events = 0 /\ drops = 0
        /\ subscribed = FALSE /\ asked = FALSE /\ command = "none" /\ unheard = FALSE
    BY DEF ReportsInit
  <2>2. drops \in 0..MaxDrops
    BY <2>1, DropsAssumption
  <2>3. CmdTypes
    BY <2>1, <2>2 DEF CmdTypes
  <2>4. PursueInv
    BY <2>1 DEF PursueInv
  <2> QED
    BY <2>3, <2>4
<1> QED
  BY <1>3, <1>4, <1>5, <1>6, <1>7, <1>8 DEF ReportsInv, CoreInv

LEMMA ReportsInvNext == ReportsInv /\ [ReportsNext]_reportsVars => ReportsInv'
<1> SUFFICES ASSUME ReportsInv, [ReportsNext]_reportsVars PROVE ReportsInv'
  OBVIOUS
<1>0. CoreInv /\ CountTypes /\ CmdTypes /\ PursueInv
  BY DEF ReportsInv, CoreInv, CoreTypes
<1>1. UNCHANGED cmdVars => CmdTypes' /\ PursueInv'
  BY <1>0 DEF cmdVars, linkVars, CmdTypes, PursueInv
<1>2. CASE Start
  BY <1>0, <1>1, <1>2, RunCore DEF Start, ReportsInv
<1>3. CASE ParamsNext /\ UNCHANGED cmdVars
  BY <1>0, <1>1, <1>3, ParamsCore DEF ReportsInv
<1>4. CASE CommandStep /\ UNCHANGED cmdVars
  <2>1. "cloud" \in Callers /\ AnyStep("cloud")
    BY <1>4 DEF AnyStep, Callers
  <2> QED
    BY <1>0, <1>1, <1>4, <2>1, StepCore DEF ReportsInv
<1>5. CASE UNCHANGED reportsVars
  <2>1. UNCHANGED <<paramVars, cmdVars>>
    BY <1>5 DEF reportsVars
  <2>2. CoreInv'
    BY <1>0, <2>1, SameCore DEF paramVars, counts, CountTypes
  <2> QED
    BY <1>1, <2>1, <2>2 DEF ReportsInv
<1> QED
  BY <1>2, <1>3, <1>4, <1>5, ConnectsInv, DisconnectsInv, CheckPendingInv, IssueInv, DeliverInv DEF ReportsNext

\* However the tasks, the cloud and the link take turns, what is under way
\* accounts for every value that the cloud or NVS does not have.
THEOREM ReportsInvariant == ReportsSpec => []ReportsInv
<1>1. ReportsInit => ReportsInv
  BY ReportsInvInit
<1>2. ReportsInv /\ [ReportsNext]_reportsVars => ReportsInv'
  BY ReportsInvNext
<1> QED
  BY <1>1, <1>2, PTL DEF ReportsSpec

\* Every state of parameters, reports and commands has its types, for any
\* parameters and bounds.
THEOREM ReportsTypes == ReportsSpec => []ReportsTypeOK
<1>1. ReportsInv => ReportsTypeOK
  <2> SUFFICES ASSUME ReportsInv PROVE ReportsTypeOK
    OBVIOUS
  <2>1. ParamTypes /\ FlagTypes /\ CountTypes /\ RunningInv /\ CmdTypes /\ PursueInv
    BY DEF ReportsInv, CoreInv, CoreTypes
  <2>2. DOMAIN buf \subseteq Params /\ DOMAIN mine \subseteq Params
    BY <2>1, ContentFacts DEF ParamTypes
  <2>3. \A t \in Callers : \A i \in DOMAIN prog[t] : prog[t][i].op \in Ops
    <3> SUFFICES ASSUME NEW t \in Callers, NEW i \in DOMAIN prog[t] PROVE prog[t][i].op \in Ops
      OBVIOUS
    <3>1. prog[t] \in Seq(Steps)
      BY <2>1 DEF ParamTypes
    <3>2. prog[t][i] \in Steps
      BY <3>1
    <3> QED
      BY <3>2, StepFields DEF Fields
  <2>4. {running, listening, initDone, alert} \subseteq BOOLEAN /\ (initDone => listening)
    BY <2>1, Zenon DEF FlagTypes, RunningInv
  <2>5. ParamsTypeOK
    BY <2>1, <2>2, <2>3, <2>4 DEF ParamsTypeOK, ParamTypes, CountTypes
  <2>6. {subscribed, asked, unheard} \subseteq BOOLEAN
    BY <2>1, Zenon DEF CmdTypes
  <2>7. events \in 0..(MaxDrops + 1)
    BY <2>1, DropsAssumption DEF CmdTypes, PursueInv
  <2> QED
    BY <2>1, <2>5, <2>6, <2>7 DEF ReportsTypeOK, CmdTypes
<1> QED
  BY <1>1, ReportsInvariant, PTL

\* When no call is under way, the cloud has the value of every parameter and
\* knows of the alert, but for those that the code may miss: param->flags, the
\* report buffer and the topic are shared by tasks that no lock separates.
THEOREM ReportsCloudHasValues == ReportsSpec => []CloudHasValues
<1>1. ReportsInv => CloudHasValues
  <2> SUFFICES ASSUME ReportsInv, Quiet, initDone
               PROVE  /\ \A p \in Params : cloud[p] = value[p] \/ p \in missed
                      /\ alert => "alert" \in missed
    BY DEF CloudHasValues
  <2>1. \A t \in Callers : Idle(t) /\ \A op : ~At(t, op)
    BY DEF Quiet, At
  <2>2. \A t \in Callers : ~HasTell(prog[t]) /\ ~HasAll(prog[t]) /\ \A p : ~Marked(prog[t], p)
    <3> SUFFICES ASSUME NEW t \in Callers
                 PROVE  ~HasTell(prog[t]) /\ ~HasAll(prog[t]) /\ \A p : ~Marked(prog[t], p)
      OBVIOUS
    <3>1. Len(prog[t]) = 0
      BY <2>1 DEF Idle
    <3> QED
      BY <3>1 DEF HasTell, HasAll, Marked
  <2>3. Reported
    BY <2>2 DEF Reported
  <2>4. \A p \in Params : ~ToFlag(p) /\ ~ToTell(p) /\ ~InMine(p) /\ ~InBuffer(p)
    BY <2>1, <2>2 DEF ToFlag, ToTell, Telling, InMine, Answering, InBuffer, Carrying, Callers
  <2>5. \A p \in Params : cloud[p] = value[p] \/ p \in missed
    BY <2>3, <2>4 DEF ReportsInv, CoreInv, ValuesInv, Carried
  <2>6. alert => "alert" \in missed
    BY <2>1 DEF ReportsInv, CoreInv, AlertInv, Callers
  <2> QED
    BY <2>5, <2>6
<1> QED
  BY <1>1, ReportsInvariant, PTL

\* When no call is under way, NVS has the value of every parameter that persists,
\* but for those where the last esp_rmaker_param_store_value failed, or read a
\* string that esp_rmaker_param_update of another task had freed in between.
THEOREM ReportsStoredIsCurrent == ReportsSpec => []StoredIsCurrent
<1>1. ReportsInv => StoredIsCurrent
  <2> SUFFICES ASSUME ReportsInv, Quiet, NEW p \in Names PROVE nvs[p] = value[p] \/ p \in unstored
    BY DEF StoredIsCurrent
  <2>1. \A t \in Callers : ~Stored(prog[t], p)
    <3> SUFFICES ASSUME NEW t \in Callers PROVE ~Stored(prog[t], p)
      OBVIOUS
    <3>1. Len(prog[t]) = 0
      BY DEF Quiet, Idle
    <3> QED
      BY <3>1 DEF Stored
  <2> QED
    BY <2>1 DEF ReportsInv, CoreInv, StoreInv, ToStore
<1> QED
  BY <1>1, ReportsInvariant, PTL

\* However often the connection is lost, esp_rmaker_cmd_resp_check_pending has
\* asked for a command that waits, once every event of the connection is handled,
\* unless the last check failed while the node was connected.
THEOREM ReportsCommandPursued == ReportsSpec => []CommandPursued
<1>1. ReportsInv => CommandPursued
  BY DEF ReportsInv, PursueInv, CommandPursued
<1> QED
  BY <1>1, ReportsInvariant, PTL
=============================================================================
