------------------------- MODULE FireControlProofs --------------------------
(***************************************************************************)
(* Type correctness of FireControl for every instance; that the air        *)
(* conditioner is off in an emergency when the cloud writes nothing; and   *)
(* that everything agrees as long as no two handlers overlap.              *)
(***************************************************************************)
EXTENDS FireHistory, TLAPS

-----------------------------------------------------------------------------
(* Sequences *)

\* A list of one, two or three members of S is a sequence over S.
LEMMA ListTypes ==
  ASSUME NEW S, NEW a \in S, NEW b \in S, NEW c \in S
  PROVE  <<a>> \in Seq(S) /\ <<a, b>> \in Seq(S) /\ <<a, b, c>> \in Seq(S)
OBVIOUS

\* Concatenation: its type, its length and its elements.
LEMMA Concat ==
  ASSUME NEW S, NEW a \in Seq(S), NEW b \in Seq(S)
  PROVE  /\ a \o b \in Seq(S)
         /\ Len(a \o b) = Len(a) + Len(b)
         /\ \A i \in 1..Len(a \o b) :
              (a \o b)[i] = IF i <= Len(a) THEN a[i] ELSE b[i - Len(a)]
OBVIOUS

\* The length of a sequence over S and its elements.
LEMMA Elements ==
  ASSUME NEW S, NEW a \in Seq(S)
  PROVE  Len(a) \in Nat /\ \A i \in 1..Len(a) : a[i] \in S
OBVIOUS

\* Taking the head off a sequence that is not empty.
LEMMA HeadAndTail ==
  ASSUME NEW S, NEW a \in Seq(S), a # <<>>
  PROVE  /\ Head(a) \in S /\ Head(a) = a[1]
         /\ Tail(a) \in Seq(S) /\ Len(Tail(a)) = Len(a) - 1
         /\ Len(a) \in Nat \ {0}
         /\ \A i \in 1..Len(Tail(a)) : Tail(a)[i] = a[i + 1]
OBVIOUS

-----------------------------------------------------------------------------
(* The handlers *)

\* An operation on a device, the panel or the alert is a member of Ops.
LEMMA OpTypes ==
  /\ \A v \in BOOLEAN : SetPanel(v) \in Ops
  /\ \A d \in Devices, v \in BOOLEAN :
       SetFlag(d, v) \in Ops /\ SetPin(d, v) \in Ops /\ CopyPin(d) \in Ops
  /\ \A d \in Devices \cup {Panel, Alert}, v \in BOOLEAN : Report(d, v) \in Ops
BY DEF SetPanel, SetFlag, SetPin, CopyPin, Report, Op, Ops

\* Every handler is a list of such operations.
LEMMA HandlerTypes ==
  ASSUME NEW v \in BOOLEAN
  PROVE  /\ DriveActuators(v) \in Seq(Ops)
         /\ ReportActuators(v) \in Seq(Ops)
         /\ ActivateEmergency \in Seq(Ops) /\ DeactivateEmergency \in Seq(Ops)
         /\ SwitchAc(v) \in Seq(Ops)
         /\ \A d \in Devices \cup {Panel} : CloudWrite(d, v) \in Seq(Ops)
<1>1. /\ AC \in Devices /\ Len(FireDevs) \in Nat
      /\ \A i \in 1..Len(FireDevs) : FireDevs[i] \in Devices
  BY FireAssumption DEF Devices, FireSet
<1>2. \A w \in BOOLEAN : DriveActuators(w) \in Seq(Ops)
  <2> SUFFICES ASSUME NEW w \in BOOLEAN PROVE DriveActuators(w) \in Seq(Ops)
    OBVIOUS
  <2> DEFINE n == 2 * Len(FireDevs)
             D(i) == FireDevs[(i + 1) \div 2]
             drive == [i \in 1..n |-> IF i % 2 = 1 THEN SetFlag(D(i), w) ELSE SetPin(D(i), w)]
  <2>1. \A i \in 1..n : D(i) \in Devices
    <3> TAKE i \in 1..n
    <3>1. (i + 1) \div 2 \in 1..Len(FireDevs)
      BY <1>1
    <3>2. QED
      BY <1>1, <3>1
  <2>2. \A i \in 1..n : drive[i] \in Ops
    BY <2>1, OpTypes
  <2>3. drive \in Seq(Ops)
    BY <1>1, <2>2
  <2>4. SetPanel(w) \in Ops
    BY OpTypes
  <2>5. <<SetPanel(w)>> \in Seq(Ops)
    BY <2>4, ListTypes
  <2>6. <<SetPanel(w)>> \o drive \in Seq(Ops)
    <3> HIDE DEF drive
    <3> QED BY <2>3, <2>5, Concat
  <2>7. QED
    BY <2>6 DEF DriveActuators
<1>3. \A w \in BOOLEAN : ReportActuators(w) \in Seq(Ops)
  <2> SUFFICES ASSUME NEW w \in BOOLEAN PROVE ReportActuators(w) \in Seq(Ops)
    OBVIOUS
  <2> DEFINE reports == [i \in 1..Len(FireDevs) |-> Report(FireDevs[i], w)]
  <2>1. reports \in Seq(Ops)
    BY <1>1, OpTypes
  <2>2. Report(Panel, w) \in Ops
    BY OpTypes
  <2>3. <<Report(Panel, w)>> \in Seq(Ops)
    BY <2>2, ListTypes
  <2>4. reports \o <<Report(Panel, w)>> \in Seq(Ops)
    <3> HIDE DEF reports
    <3> QED BY <2>1, <2>3, Concat
  <2>5. QED
    BY <2>4 DEF ReportActuators
<1>4. ActivateEmergency \in Seq(Ops)
  <2>1. /\ SetFlag(AC, FALSE) \in Ops /\ SetPin(AC, FALSE) \in Ops
        /\ Report(AC, FALSE) \in Ops /\ Report(Alert, TRUE) \in Ops
    BY <1>1, OpTypes
  <2>2. <<SetFlag(AC, FALSE), SetPin(AC, FALSE)>> \in Seq(Ops)
    BY <2>1, ListTypes
  <2>3. <<Report(AC, FALSE), Report(Alert, TRUE)>> \in Seq(Ops)
    BY <2>1, ListTypes
  <2>4. DriveActuators(TRUE) \o <<SetFlag(AC, FALSE), SetPin(AC, FALSE)>> \in Seq(Ops)
    BY <1>2, <2>2, Concat
  <2>5. DriveActuators(TRUE) \o <<SetFlag(AC, FALSE), SetPin(AC, FALSE)>>
          \o ReportActuators(TRUE) \in Seq(Ops)
    BY <1>3, <2>4, Concat
  <2>6. QED
    BY <2>3, <2>5, Concat DEF ActivateEmergency
<1>5. DeactivateEmergency \in Seq(Ops)
  <2>1. Report(Alert, FALSE) \in Ops
    BY OpTypes
  <2>2. <<Report(Alert, FALSE)>> \in Seq(Ops)
    BY <2>1, ListTypes
  <2>3. DriveActuators(FALSE) \o ReportActuators(FALSE) \in Seq(Ops)
    BY <1>2, <1>3, Concat
  <2>4. QED
    BY <2>2, <2>3, Concat DEF DeactivateEmergency
<1>6. SwitchAc(v) \in Seq(Ops)
  <2>1. SetFlag(AC, v) \in Ops /\ SetPin(AC, v) \in Ops /\ Report(AC, v) \in Ops
    BY <1>1, OpTypes
  <2>2. QED
    BY <2>1, ListTypes DEF SwitchAc
<1>7. \A d \in Devices \cup {Panel} : CloudWrite(d, v) \in Seq(Ops)
  <2> TAKE d \in Devices \cup {Panel}
  <2>1. CASE d = Panel
    BY <1>4, <1>5, <2>1 DEF CloudWrite
  <2>2. CASE d # Panel
    <3>1. SetFlag(d, v) \in Ops /\ CopyPin(d) \in Ops /\ Report(d, v) \in Ops
      BY <2>2, OpTypes
    <3>2. <<SetFlag(d, v), CopyPin(d), Report(d, v)>> \in Seq(Ops)
      BY <3>1, ListTypes
    <3>3. QED
      BY <2>2, <3>2 DEF CloudWrite
  <2>3. QED
    BY <2>1, <2>2
<1>8. QED
  BY <1>2, <1>3, <1>4, <1>5, <1>6, <1>7

-----------------------------------------------------------------------------
(* Type correctness *)

\* The initial state is well typed.
LEMMA InitTypes == Init => TypeOK
<1> SUFFICES ASSUME Init PROVE TypeOK
  OBVIOUS
<1>1. /\ todo \in [Tasks -> Seq(Ops)]
      /\ queue \in Seq(Temps) /\ Len(queue) <= QueueSize
  BY FireAssumption DEF Init
<1>2. level \in [{Gpio[d] : d \in Devices} -> BOOLEAN]
  BY Zenon DEF Init
<1>3. QED
  BY <1>1, <1>2 DEF Init, TypeOK

\* An operation leaves the shared variables well typed.
LEMMA PerformTypes ==
  ASSUME TypeOK, NEW t \in Tasks, Perform(t)
  PROVE  TypeOK'
<1> DEFINE op == Head(todo[t])
<1>1. /\ op \in Ops /\ Tail(todo[t]) \in Seq(Ops)
  <2>1. todo[t] \in Seq(Ops) /\ todo[t] # <<>>
    BY DEF TypeOK, Perform, Idle
  <2>2. QED
    BY <2>1, HeadAndTail
<1>2. todo' \in [Tasks -> Seq(Ops)]
  BY <1>1 DEF TypeOK, Perform
<1>3. op.val \in BOOLEAN /\ (op.kind = "copy" => op.on \in Devices)
  BY <1>1 DEF Ops
<1> HIDE DEF op
<1>4. /\ emergency' = IF op.kind = "panel" THEN op.val ELSE emergency
      /\ flag' = IF op.kind = "flag" THEN [flag EXCEPT ![op.on] = op.val] ELSE flag
      /\ level' = CASE op.kind = "pin"  -> [level EXCEPT ![Gpio[op.on]] = op.val]
                    [] op.kind = "copy" -> [level EXCEPT ![Gpio[op.on]] = flag[op.on]]
                    [] OTHER            -> level
      /\ reported' = IF op.kind = "report" THEN [reported EXCEPT ![op.on] = op.val]
                     ELSE reported
      /\ UNCHANGED <<queue, controller, btnPrev>>
  BY DEF Perform, op
<1>5. emergency' \in BOOLEAN
  BY <1>3, <1>4, Zenon DEF TypeOK
<1>6. flag' \in [Devices -> BOOLEAN]
  BY <1>3, <1>4 DEF TypeOK
<1>7. reported' \in [Devices \cup {Panel, Alert} -> BOOLEAN]
  BY <1>3, <1>4 DEF TypeOK
<1>8. level' \in [{Gpio[d] : d \in Devices} -> BOOLEAN]
  <2> DEFINE Pins == {Gpio[d] : d \in Devices}
  <2>1. level \in [Pins -> BOOLEAN] /\ flag \in [Devices -> BOOLEAN]
    BY DEF TypeOK
  <2> HIDE DEF Pins
  <2>2. level' \in [Pins -> BOOLEAN]
    BY <2>1, <1>3, <1>4
  <2>3. QED
    BY <2>2 DEF Pins
<1>9. QED
  BY <1>2, <1>4, <1>5, <1>6, <1>7, <1>8 DEF TypeOK, controller

\* Every step preserves the types.
LEMMA StepTypes == TypeOK /\ [Next]_vars => TypeOK'
<1> SUFFICES ASSUME TypeOK, [Next]_vars PROVE TypeOK'
  OBVIOUS
<1>1. CASE SensorRead
  <2>1. PICK temp \in Temps :
          queue' = IF Len(queue) < QueueSize THEN Append(queue, temp) ELSE queue
    BY <1>1 DEF SensorRead
  <2>2. queue \in Seq(Temps) /\ Len(queue) <= QueueSize
    BY DEF TypeOK
  <2>3. queue' \in Seq(Temps) /\ Len(queue') <= QueueSize
    BY <2>1, <2>2, FireAssumption
  <2>4. QED
    BY <1>1, <2>3 DEF SensorRead, TypeOK, shared, controller
<1>2. CASE Receive
  <2>1. queue \in Seq(Temps) /\ Len(queue) <= QueueSize /\ queue # <<>>
    BY <1>2 DEF TypeOK, Receive
  <2>2. /\ Head(queue) \in Temps /\ Tail(queue) \in Seq(Temps)
        /\ Len(Tail(queue)) <= QueueSize
    BY <2>1, HeadAndTail, FireAssumption
  <2>3. QED
    BY <1>2, <2>2 DEF Receive, TypeOK, shared
<1>3. CASE ControlAc
  <2>1. todo' \in [Tasks -> Seq(Ops)]
    BY <1>3, HandlerTypes DEF ControlAc, Start, TypeOK
  <2>2. QED
    BY <1>3, <2>1, Zenon DEF ControlAc, TypeOK, shared
<1>4. CASE ControlAlarm
  <2>1. todo' \in [Tasks -> Seq(Ops)]
    BY <1>4, HandlerTypes DEF ControlAlarm, Start, TypeOK
  <2>2. QED
    BY <1>4, <2>1, Zenon DEF ControlAlarm, TypeOK, shared
<1>5. CASE Display
  BY <1>5, Zenon DEF Display, TypeOK, shared
<1>6. CASE ReportReading
  BY <1>6, Zenon DEF ReportReading, TypeOK, shared
<1>7. CASE PollButton
  <2>1. todo' \in [Tasks -> Seq(Ops)]
    BY <1>7, HandlerTypes DEF PollButton, Start, TypeOK
  <2>2. QED
    BY <1>7, <2>1 DEF PollButton, TypeOK, shared, controller
<1>8. CASE ReceiveWrite
  <2>1. PICK d \in CloudTargets, v \in BOOLEAN : Start("cloud", CloudWrite(d, v))
    BY <1>8 DEF ReceiveWrite
  <2>2. d \in Devices \cup {Panel}
    BY FireAssumption
  <2>3. todo' \in [Tasks -> Seq(Ops)]
    BY <2>1, <2>2, HandlerTypes DEF Start, TypeOK
  <2>4. QED
    BY <1>8, <2>3 DEF ReceiveWrite, TypeOK, shared, controller
<1>9. CASE \E t \in Tasks : Perform(t)
  BY <1>9, PerformTypes
<1>10. CASE UNCHANGED vars
  BY <1>10 DEF TypeOK, vars, shared, controller
<1>11. QED
  BY <1>1, <1>2, <1>3, <1>4, <1>5, <1>6, <1>7, <1>8, <1>9, <1>10
  DEF Next, LocalNext, Controller, Tasks

\* The actuators' flags, pins and reports stay Booleans of their devices, the
\* queue never exceeds its capacity and every handler is a list of operations,
\* for any actuators, thresholds, temperatures and queue size.
THEOREM FireTypeOK == Spec => []TypeOK
BY InitTypes, StepTypes, PTL DEF Spec

-----------------------------------------------------------------------------
(* The shape of the handlers *)

\* Operations of DriveActuators(v): flags and pins, none of the air conditioner's.
DriveOps(v) ==
  {o \in Ops : o.kind \in {"panel", "flag", "pin"} /\ o.on # AC /\ o.val = v}

ReportOps == {o \in Ops : o.kind = "report"}

\* Operation o switches the air conditioner's pin to v.
PinAc(o, v) == o.kind = "pin" /\ o.on = AC /\ o.val = v

\* Some operation of s is still going to do so.
WillPinAc(s, v) == \E i \in 1..Len(s) : PinAc(s[i], v)

\* Reports come last, and an operation that raises the emergency is followed by
\* one that switches the air conditioner off.
WellFormed(s) ==
  /\ \A i \in 1..Len(s) : s[i].kind # "copy"
  /\ \A i, j \in 1..Len(s) : i < j /\ s[i].kind = "report" => s[j].kind = "report"
  /\ \A i \in 1..Len(s) : s[i].kind = "panel" /\ s[i].val =>
       \E j \in 1..Len(s) : i < j /\ PinAc(s[j], FALSE)

\* The parts activation and deactivation are put together from.
LEMMA PartShapes ==
  ASSUME NEW v \in BOOLEAN
  PROVE  /\ DriveActuators(v) \in Seq(DriveOps(v))
         /\ ReportActuators(v) \in Seq(ReportOps)
<1>1. /\ Len(FireDevs) \in Nat
      /\ \A i \in 1..Len(FireDevs) : FireDevs[i] \in Devices /\ FireDevs[i] # AC
  <2>1. Len(FireDevs) \in Nat /\ \A i \in 1..Len(FireDevs) : FireDevs[i] \in {Water, Sound, Led, Fan}
    BY FireAssumption
  <2>2. AC \notin {Water, Sound, Led, Fan}
    BY DEF AC, Water, Sound, Led, Fan
  <2>3. QED
    BY <2>1, <2>2 DEF Devices, FireSet
<1>2. DriveActuators(v) \in Seq(DriveOps(v))
  <2> DEFINE n == 2 * Len(FireDevs)
             D(i) == FireDevs[(i + 1) \div 2]
             drive == [i \in 1..n |-> IF i % 2 = 1 THEN SetFlag(D(i), v) ELSE SetPin(D(i), v)]
  <2>1. \A d \in Devices : d # AC => SetFlag(d, v) \in DriveOps(v) /\ SetPin(d, v) \in DriveOps(v)
    BY OpTypes DEF DriveOps, SetFlag, SetPin, Op
  <2>2. \A i \in 1..n : D(i) \in Devices /\ D(i) # AC
    <3> TAKE i \in 1..n
    <3>1. (i + 1) \div 2 \in 1..Len(FireDevs)
      BY <1>1
    <3>2. QED
      BY <1>1, <3>1
  <2>3. drive \in Seq(DriveOps(v))
    BY <1>1, <2>1, <2>2
  <2>4. SetPanel(v) \in DriveOps(v)
    BY OpTypes DEF DriveOps, SetPanel, Op, Panel, AC
  <2>5. <<SetPanel(v)>> \in Seq(DriveOps(v))
    BY <2>4, ListTypes
  <2>6. <<SetPanel(v)>> \o drive \in Seq(DriveOps(v))
    <3> HIDE DEF drive
    <3> QED BY <2>3, <2>5, Concat
  <2>7. QED
    BY <2>6 DEF DriveActuators
<1>3. ReportActuators(v) \in Seq(ReportOps)
  <2> DEFINE reports == [i \in 1..Len(FireDevs) |-> Report(FireDevs[i], v)]
  <2>1. \A d \in Devices \cup {Panel, Alert} : Report(d, v) \in ReportOps
    BY OpTypes DEF ReportOps, Report, Op
  <2>2. reports \in Seq(ReportOps)
    BY <1>1, <2>1
  <2>3. <<Report(Panel, v)>> \in Seq(ReportOps)
    BY <2>1, ListTypes
  <2>4. reports \o <<Report(Panel, v)>> \in Seq(ReportOps)
    <3> HIDE DEF reports
    <3> QED BY <2>2, <2>3, Concat
  <2>5. QED
    BY <2>4 DEF ReportActuators
<1>4. QED
  BY <1>2, <1>3

\* A list d of operations followed by two lists of reports.
LEMMA ThenReports ==
  ASSUME NEW d \in Seq(Ops), NEW r1 \in Seq(ReportOps), NEW r2 \in Seq(ReportOps)
  PROVE  LET s == d \o r1 \o r2 IN
         /\ Len(s) \in Nat /\ Len(d) <= Len(s)
         /\ \A i \in 1..Len(s) : IF i <= Len(d) THEN s[i] = d[i] ELSE s[i] \in ReportOps
<1>1. r1 \in Seq(Ops) /\ r2 \in Seq(Ops)
  BY DEF ReportOps
<1> DEFINE m == d \o r1
           s == m \o r2
<1>2. /\ m \in Seq(Ops) /\ Len(m) = Len(d) + Len(r1)
      /\ \A i \in 1..Len(m) : m[i] = IF i <= Len(d) THEN d[i] ELSE r1[i - Len(d)]
  BY <1>1, Concat
<1> HIDE DEF m
<1>3. /\ Len(s) = Len(m) + Len(r2)
      /\ \A i \in 1..Len(s) : s[i] = IF i <= Len(m) THEN m[i] ELSE r2[i - Len(m)]
  <2>1. m \in Seq(Ops) /\ r2 \in Seq(Ops)
    BY <1>1, <1>2
  <2>2. QED
    BY <2>1, Concat, Zenon
<1> HIDE DEF s
<1>4. /\ Len(d) \in Nat /\ Len(r1) \in Nat /\ Len(r2) \in Nat
      /\ \A i \in 1..Len(r1) : r1[i] \in ReportOps
      /\ \A i \in 1..Len(r2) : r2[i] \in ReportOps
  BY Elements
<1>5. Len(s) \in Nat /\ Len(d) <= Len(s)
  BY <1>2, <1>3, <1>4
<1>6. ASSUME NEW i \in 1..Len(s)
      PROVE  IF i <= Len(d) THEN s[i] = d[i] ELSE s[i] \in ReportOps
  <2>1. CASE i <= Len(d)
    BY <1>2, <1>3, <1>4, <2>1
  <2>2. CASE Len(d) < i /\ i <= Len(m)
    <3>1. i - Len(d) \in 1..Len(r1) /\ i \in 1..Len(m)
      BY <1>2, <1>4, <2>2
    <3>2. s[i] = r1[i - Len(d)]
      BY <1>2, <1>3, <1>4, <2>2, <3>1
    <3>3. QED
      BY <1>4, <2>2, <3>1, <3>2
  <2>3. CASE Len(m) < i
    <3>1. i - Len(m) \in 1..Len(r2)
      BY <1>2, <1>3, <1>4, <2>3
    <3>2. s[i] = r2[i - Len(m)]
      BY <1>2, <1>3, <1>4, <2>3
    <3>3. QED
      BY <1>2, <1>4, <2>3, <3>1, <3>2
  <2>4. QED
    BY <1>2, <1>4, <2>1, <2>2, <2>3
<1>7. QED
  BY <1>5, <1>6 DEF s, m

\* Every handler is well formed, and none but the controller's own switch turns
\* the air conditioner on.
LEMMA HandlerShapes ==
  /\ WellFormed(<<>>) /\ ~WillPinAc(<<>>, TRUE)
  /\ WellFormed(ActivateEmergency) /\ ~WillPinAc(ActivateEmergency, TRUE)
  /\ WellFormed(DeactivateEmergency) /\ ~WillPinAc(DeactivateEmergency, TRUE)
  /\ \A v \in BOOLEAN :
       /\ WellFormed(SwitchAc(v))
       /\ v \/ ~WillPinAc(SwitchAc(v), TRUE)
       /\ \A i \in 1..Len(SwitchAc(v)) : SwitchAc(v)[i].kind # "panel"
<1>1. WellFormed(<<>>) /\ ~WillPinAc(<<>>, TRUE)
  BY DEF WellFormed, WillPinAc
<1>2. AC \in Devices
  BY DEF Devices
<1>3. WellFormed(ActivateEmergency) /\ ~WillPinAc(ActivateEmergency, TRUE)
  <2> DEFINE dr == DriveActuators(TRUE)
             sw == <<SetFlag(AC, FALSE), SetPin(AC, FALSE)>>
             d  == dr \o sw
             al == <<Report(AC, FALSE), Report(Alert, TRUE)>>
             s  == d \o ReportActuators(TRUE) \o al
  <2>1. dr \in Seq(DriveOps(TRUE)) /\ dr \in Seq(Ops)
    BY PartShapes, HandlerTypes
  <2>2. sw \in Seq(Ops) /\ Len(sw) = 2 /\ sw[1] = SetFlag(AC, FALSE) /\ sw[2] = SetPin(AC, FALSE)
    <3>1. SetFlag(AC, FALSE) \in Ops /\ SetPin(AC, FALSE) \in Ops
      BY <1>2, OpTypes
    <3>2. QED
      BY <3>1, ListTypes
  <2>3. al \in Seq(ReportOps)
    <3>1. Report(AC, FALSE) \in ReportOps /\ Report(Alert, TRUE) \in ReportOps
      BY <1>2, OpTypes DEF ReportOps, Report, Op
    <3>2. QED
      BY <3>1, ListTypes
  <2>4. ReportActuators(TRUE) \in Seq(ReportOps)
    BY PartShapes
  <2>5. ActivateEmergency = s
    BY DEF ActivateEmergency
  <2> HIDE DEF dr, sw, al
  <2>6. /\ d \in Seq(Ops) /\ Len(d) = Len(dr) + 2
        /\ \A i \in 1..Len(d) : d[i] = IF i <= Len(dr) THEN dr[i] ELSE sw[i - Len(dr)]
    <3>1. dr \in Seq(Ops) /\ sw \in Seq(Ops)
      BY <2>1, <2>2
    <3>2. /\ d \in Seq(Ops) /\ Len(d) = Len(dr) + Len(sw)
          /\ \A i \in 1..Len(d) : d[i] = IF i <= Len(dr) THEN dr[i] ELSE sw[i - Len(dr)]
      BY <3>1, Concat, Zenon
    <3>3. QED
      BY <2>2, <3>2, Zenon
  <2> HIDE DEF d
  <2>7. /\ Len(s) \in Nat /\ Len(d) <= Len(s)
        /\ \A i \in 1..Len(s) : IF i <= Len(d) THEN s[i] = d[i] ELSE s[i] \in ReportOps
    BY <2>3, <2>4, <2>6, ThenReports
  <2> HIDE DEF s
  <2>8. Len(dr) \in Nat /\ \A i \in 1..Len(dr) : dr[i] \in DriveOps(TRUE)
    BY <2>1, Elements
  <2> DEFINE last == Len(dr) + 2
  <2>9. /\ last \in 1..Len(s) /\ PinAc(s[last], FALSE)
        /\ s[last - 1].kind = "flag"
    <3>1. s[last] = sw[2] /\ s[last - 1] = sw[1]
      BY <2>6, <2>7, <2>8
    <3>2. last \in 1..Len(s)
      BY <2>6, <2>7, <2>8
    <3>3. QED
      BY <2>2, <3>1, <3>2 DEF PinAc, SetPin, SetFlag, Op
  <2>10. \A i \in 1..Len(s) :
           \/ i <= Len(dr) /\ s[i] \in DriveOps(TRUE)
           \/ i = last - 1
           \/ i = last
           \/ i > last /\ s[i] \in ReportOps
    <3> TAKE i \in 1..Len(s)
    <3>1. CASE i <= Len(dr)
      <4>1. i \in 1..Len(d) /\ i <= Len(d) /\ i \in 1..Len(dr)
        BY <2>6, <2>8, <3>1
      <4>2. s[i] = dr[i]
        BY <2>6, <2>7, <3>1, <4>1
      <4>3. QED
        BY <2>8, <3>1, <4>1, <4>2
    <3>2. CASE i > last
      <4>1. ~(i <= Len(d))
        BY <2>6, <2>8, <3>2
      <4>2. QED
        BY <2>7, <3>2, <4>1
    <3>3. i <= Len(dr) \/ i = last - 1 \/ i = last \/ i > last
      BY <2>8
    <3>4. QED
      BY <3>1, <3>2, <3>3
  <2>11. WellFormed(s)
    <3>1. \A i \in 1..Len(s) : s[i].kind # "copy"
      BY <2>9, <2>10 DEF DriveOps, ReportOps, PinAc
    <3>2. ASSUME NEW i \in 1..Len(s), NEW j \in 1..Len(s), i < j, s[i].kind = "report"
          PROVE  s[j].kind = "report"
      <4>1. i > last
        BY <2>9, <2>10, <3>2 DEF DriveOps, PinAc
      <4>2. j > last /\ ~(j <= Len(dr))
        BY <2>8, <3>2, <4>1
      <4>3. j # last - 1 /\ j # last
        BY <2>8, <4>2
      <4>4. s[j] \in ReportOps
        BY <2>10, <4>2, <4>3, Zenon
      <4>5. QED
        BY <4>4 DEF ReportOps
    <3>3. ASSUME NEW i \in 1..Len(s), s[i].kind = "panel"
          PROVE  i < last
      <4>1. i # last /\ s[i] \notin ReportOps
        BY <2>9, <3>3 DEF ReportOps, PinAc
      <4>2. i <= Len(dr) \/ i = last - 1
        BY <2>10, <4>1, Zenon
      <4>3. QED
        BY <2>8, <4>2
    <3>4. QED
      BY <2>9, <3>1, <3>2, <3>3 DEF WellFormed
  <2>12. ~WillPinAc(s, TRUE)
    BY <2>9, <2>10 DEF WillPinAc, PinAc, DriveOps, ReportOps
  <2>13. QED
    BY <2>5, <2>11, <2>12
<1>4. WellFormed(DeactivateEmergency) /\ ~WillPinAc(DeactivateEmergency, TRUE)
  <2> DEFINE dr == DriveActuators(FALSE)
             al == <<Report(Alert, FALSE)>>
             s  == dr \o ReportActuators(FALSE) \o al
  <2>1. dr \in Seq(DriveOps(FALSE)) /\ dr \in Seq(Ops)
    BY PartShapes, HandlerTypes
  <2>2. al \in Seq(ReportOps)
    <3>1. Report(Alert, FALSE) \in ReportOps
      BY OpTypes DEF ReportOps, Report, Op
    <3>2. QED
      BY <3>1, ListTypes
  <2>3. ReportActuators(FALSE) \in Seq(ReportOps)
    BY PartShapes
  <2>4. DeactivateEmergency = s
    BY DEF DeactivateEmergency
  <2> HIDE DEF dr, al
  <2>5. /\ Len(s) \in Nat /\ Len(dr) <= Len(s)
        /\ \A i \in 1..Len(s) : IF i <= Len(dr) THEN s[i] = dr[i] ELSE s[i] \in ReportOps
    BY <2>1, <2>2, <2>3, ThenReports
  <2> HIDE DEF s
  <2>6. Len(dr) \in Nat /\ \A i \in 1..Len(dr) : dr[i] \in DriveOps(FALSE)
    BY <2>1, Elements
  <2>7. \A i \in 1..Len(s) :
          \/ i <= Len(dr) /\ s[i] \in DriveOps(FALSE)
          \/ i > Len(dr) /\ s[i] \in ReportOps
    <3> TAKE i \in 1..Len(s)
    <3>1. CASE i <= Len(dr)
      <4>1. i \in 1..Len(dr)
        BY <2>6, <3>1
      <4>2. QED
        BY <2>5, <2>6, <3>1, <4>1, Zenon
    <3>2. CASE i > Len(dr)
      <4>1. ~(i <= Len(dr))
        BY <2>6, <3>2
      <4>2. QED
        BY <2>5, <3>2, <4>1, Zenon
    <3>3. i <= Len(dr) \/ i > Len(dr)
      BY <2>6
    <3>4. QED
      BY <3>1, <3>2, <3>3
  <2>8. WellFormed(s) /\ ~WillPinAc(s, TRUE)
    <3>1. \A i \in 1..Len(s) : s[i].kind # "copy" /\ (s[i].kind = "panel" => ~s[i].val)
      BY <2>7 DEF DriveOps, ReportOps
    <3>2. ASSUME NEW i \in 1..Len(s), NEW j \in 1..Len(s), i < j, s[i].kind = "report"
          PROVE  s[j].kind = "report"
      <4>1. i > Len(dr)
        BY <2>7, <3>2 DEF DriveOps
      <4>2. ~(j <= Len(dr))
        BY <2>6, <3>2, <4>1
      <4>3. QED
        BY <2>7, <4>2 DEF ReportOps
    <3>3. ~WillPinAc(s, TRUE)
      BY <2>7 DEF WillPinAc, PinAc, DriveOps, ReportOps
    <3>4. QED
      BY <3>1, <3>2, <3>3 DEF WellFormed
  <2>9. QED
    BY <2>4, <2>8
<1>5. ASSUME NEW v \in BOOLEAN
      PROVE  /\ WellFormed(SwitchAc(v))
             /\ v \/ ~WillPinAc(SwitchAc(v), TRUE)
             /\ \A i \in 1..Len(SwitchAc(v)) : SwitchAc(v)[i].kind # "panel"
  <2> DEFINE s == SwitchAc(v)
  <2>1. /\ Len(s) = 3 /\ s[1] = SetFlag(AC, v) /\ s[2] = SetPin(AC, v) /\ s[3] = Report(AC, v)
    BY DEF SwitchAc
  <2>2. /\ s[1].kind = "flag" /\ s[2].kind = "pin" /\ s[2].val = v /\ s[3].kind = "report"
    BY <2>1 DEF SetFlag, SetPin, Report, Op
  <2> HIDE DEF s
  <2>3. \A i \in 1..Len(s) : i = 1 \/ i = 2 \/ i = 3
    BY <2>1
  <2>4. WellFormed(s)
    <3>1. \A i \in 1..Len(s) : s[i].kind \in {"flag", "pin", "report"}
      <4> TAKE i \in 1..Len(s)
      <4>1. i = 1 \/ i = 2 \/ i = 3
        BY <2>3
      <4>2. QED
        BY <2>2, <4>1
    <3>2. ASSUME NEW i \in 1..Len(s), NEW j \in 1..Len(s), i < j, s[i].kind = "report"
          PROVE  s[j].kind = "report"
      <4>1. i = 3
        BY <2>2, <2>3, <3>2
      <4>2. QED
        BY <2>1, <3>2, <4>1
    <3>3. QED
      BY <3>1, <3>2 DEF WellFormed
  <2>5. \A i \in 1..Len(s) : s[i].kind # "panel"
    BY <2>2, <2>3
  <2>6. v \/ ~WillPinAc(s, TRUE)
    BY <2>2, <2>3 DEF WillPinAc, PinAc
  <2>7. QED
    BY <2>4, <2>5, <2>6 DEF s
<1>6. QED
  BY <1>1, <1>3, <1>4, <1>5

-----------------------------------------------------------------------------
(* Without cloud writes the air conditioner is off in an emergency *)

\* Taking one operation off a well-formed handler.
LEMMA TailShape ==
  ASSUME NEW a \in Seq(Ops), a # <<>>, WellFormed(a)
  PROVE  /\ WellFormed(Tail(a))
         /\ \A v \in BOOLEAN : WillPinAc(Tail(a), v) => WillPinAc(a, v)
         /\ \A v \in BOOLEAN : WillPinAc(a, v) => PinAc(Head(a), v) \/ WillPinAc(Tail(a), v)
         /\ Head(a).kind = "panel" /\ Head(a).val => WillPinAc(Tail(a), FALSE)
         /\ Head(a).kind = "report" => \A v \in BOOLEAN : ~WillPinAc(a, v)
         /\ \A i \in 1..Len(Tail(a)) : i + 1 \in 1..Len(a) /\ Tail(a)[i] = a[i + 1]
<1> DEFINE b == Tail(a)
<1>1. /\ Head(a) = a[1] /\ Len(b) = Len(a) - 1 /\ Len(a) \in Nat \ {0}
      /\ \A i \in 1..Len(b) : b[i] = a[i + 1]
  BY HeadAndTail
<1> HIDE DEF b
<1>2. 1 \in 1..Len(a) /\ \A i \in 1..Len(b) : i + 1 \in 1..Len(a)
  BY <1>1
<1>3. ASSUME NEW j \in 1..Len(a), 1 < j
      PROVE  j - 1 \in 1..Len(b) /\ a[j] = b[j - 1]
  <2>1. j - 1 \in 1..Len(b) /\ (j - 1) + 1 = j
    BY <1>1, <1>3
  <2>2. QED
    BY <1>1, <2>1
<1>4. WellFormed(b)
  <2>1. \A i \in 1..Len(b) : b[i].kind # "copy"
    BY <1>1, <1>2 DEF WellFormed
  <2>2. ASSUME NEW i \in 1..Len(b), NEW j \in 1..Len(b), i < j, b[i].kind = "report"
        PROVE  b[j].kind = "report"
    <3>1. i + 1 < j + 1
      BY <2>2, <1>1
    <3>2. QED
      BY <1>1, <1>2, <2>2, <3>1 DEF WellFormed
  <2>3. ASSUME NEW i \in 1..Len(b), b[i].kind = "panel", b[i].val
        PROVE  \E j \in 1..Len(b) : i < j /\ PinAc(b[j], FALSE)
    <3>1. PICK k \in 1..Len(a) : i + 1 < k /\ PinAc(a[k], FALSE)
      BY <1>1, <1>2, <2>3 DEF WellFormed
    <3>2. 1 < k /\ i < k - 1
      BY <1>1, <3>1
    <3>3. QED
      BY <1>3, <3>1, <3>2
  <2>4. QED
    BY <2>1, <2>2, <2>3 DEF WellFormed
<1>5. ASSUME NEW v \in BOOLEAN, WillPinAc(b, v) PROVE WillPinAc(a, v)
  BY <1>1, <1>2, <1>5 DEF WillPinAc
<1>6. ASSUME NEW v \in BOOLEAN, WillPinAc(a, v), ~PinAc(Head(a), v) PROVE WillPinAc(b, v)
  <2>1. PICK k \in 1..Len(a) : PinAc(a[k], v)
    BY <1>6 DEF WillPinAc
  <2>2. 1 < k
    <3>1. k # 1
      BY <1>1, <1>6, <2>1
    <3>2. QED
      BY <1>1, <3>1
  <2>3. QED
    BY <1>3, <2>1, <2>2 DEF WillPinAc
<1>7. ASSUME Head(a).kind = "panel", Head(a).val PROVE WillPinAc(b, FALSE)
  <2>1. PICK k \in 1..Len(a) : 1 < k /\ PinAc(a[k], FALSE)
    BY <1>1, <1>2, <1>7 DEF WellFormed
  <2>2. QED
    BY <1>3, <2>1 DEF WillPinAc
<1>8. ASSUME Head(a).kind = "report", NEW v \in BOOLEAN, WillPinAc(a, v) PROVE FALSE
  <2>1. PICK k \in 1..Len(a) : PinAc(a[k], v)
    BY <1>8 DEF WillPinAc
  <2>2. k = 1 \/ 1 < k
    BY <1>1
  <2>3. a[k].kind = "report"
    BY <1>1, <1>2, <1>8, <2>2 DEF WellFormed
  <2>4. QED
    BY <2>1, <2>3 DEF PinAc
<1>9. QED
  BY <1>1, <1>2, <1>4, <1>5, <1>6, <1>7, <1>8 DEF b

\* The inductive invariant.  A pending switch-on of the air conditioner belongs
\* to the controller and excludes an emergency; if the air conditioner runs in
\* an emergency, some handler is still going to switch it off.
AcInv ==
  /\ todo["cloud"] = <<>>
  /\ \A t \in Tasks : WellFormed(todo[t])
  /\ ~WillPinAc(todo["button"], TRUE)
  /\ WillPinAc(todo["controller"], TRUE) =>
       /\ ~emergency
       /\ \A i \in 1..Len(todo["controller"]) : todo["controller"][i].kind # "panel"
  /\ emergency /\ On(AC) => \E t \in Tasks : WillPinAc(todo[t], FALSE)

LEMMA InitAcInv == Init => AcInv
<1> SUFFICES ASSUME Init PROVE AcInv
  OBVIOUS
<1>1. \A t \in Tasks : todo[t] = <<>>
  BY DEF Init
<1>2. "cloud" \in Tasks /\ "button" \in Tasks /\ "controller" \in Tasks
  BY DEF Tasks
<1>3. ~emergency
  BY DEF Init
<1>4. QED
  BY <1>1, <1>2, <1>3, HandlerShapes DEF AcInv

\* A task enters a handler: nothing is driven yet.
LEMMA StartAcInv ==
  ASSUME TypeOK, AcInv, NEW t \in {"controller", "button"}, NEW s,
         todo[t] = <<>>, Start(t, s),
         WellFormed(s), t = "button" => ~WillPinAc(s, TRUE),
         WillPinAc(s, TRUE) => ~emergency /\ \A i \in 1..Len(s) : s[i].kind # "panel",
         UNCHANGED <<emergency, level>>
  PROVE  AcInv'
<1>1. /\ todo'[t] = s /\ \A u \in Tasks : u # t => todo'[u] = todo[u]
      /\ t \in Tasks /\ "cloud" \in Tasks /\ "button" \in Tasks /\ "controller" \in Tasks
  BY DEF TypeOK, Start, Tasks
<1>2. todo'["cloud"] = <<>> /\ \A u \in Tasks : WellFormed(todo'[u])
  BY <1>1 DEF AcInv
<1>3. ~WillPinAc(todo'["button"], TRUE)
  BY <1>1 DEF AcInv
<1>4. WillPinAc(todo'["controller"], TRUE) =>
        /\ ~emergency'
        /\ \A i \in 1..Len(todo'["controller"]) : todo'["controller"][i].kind # "panel"
  BY <1>1 DEF AcInv
<1>5. ASSUME emergency', On(AC)' PROVE \E u \in Tasks : WillPinAc(todo'[u], FALSE)
  <2>1. PICK u \in Tasks : WillPinAc(todo[u], FALSE)
    BY <1>5 DEF AcInv, On
  <2>2. u # t
    BY <2>1 DEF WillPinAc
  <2>3. QED
    BY <1>1, <2>1, <2>2
<1>6. QED
  BY <1>2, <1>3, <1>4, <1>5 DEF AcInv

\* The air conditioner's pin changes only by a write to that pin.
LEMMA AcPin ==
  ASSUME TypeOK, AcInv, NEW t \in Tasks, Perform(t)
  PROVE  LET op == Head(todo[t]) IN
         /\ PinAc(op, TRUE) => On(AC)'
         /\ PinAc(op, FALSE) => ~On(AC)'
         /\ ~PinAc(op, TRUE) /\ ~PinAc(op, FALSE) => (On(AC)' <=> On(AC))
<1> DEFINE op == Head(todo[t])
<1>1. todo[t] \in Seq(Ops) /\ todo[t] # <<>> /\ WellFormed(todo[t])
  BY DEF TypeOK, Perform, Idle, AcInv
<1>2. op \in Ops /\ op = todo[t][1] /\ 1 \in 1..Len(todo[t])
  BY <1>1, HeadAndTail
<1>3. op.kind # "copy"
  BY <1>1, <1>2 DEF WellFormed
<1> HIDE DEF op
<1>4. level' = CASE op.kind = "pin"  -> [level EXCEPT ![Gpio[op.on]] = op.val]
                [] op.kind = "copy" -> [level EXCEPT ![Gpio[op.on]] = flag[op.on]]
                [] OTHER            -> level
  BY DEF Perform, op
<1>5. level' = IF op.kind = "pin" THEN [level EXCEPT ![Gpio[op.on]] = op.val] ELSE level
  BY <1>3, <1>4
<1>6. /\ AC \in Devices
      /\ op.kind = "pin" => op.on \in Devices /\ op.val \in BOOLEAN
  BY <1>2 DEF Ops, Devices
<1>7. Gpio[AC] = 3 /\ \A d \in Devices : d # AC => Gpio[d] # 3
  <2>1. \A d \in Devices : d \in {AC, Water, Sound, Led, Fan}
    BY FireAssumption DEF Devices, FireSet
  <2>2. /\ AC # Water /\ AC # Sound /\ AC # Led /\ AC # Fan
        /\ Water # Sound /\ Water # Led /\ Water # Fan
        /\ Sound # Led /\ Sound # Fan /\ Led # Fan
    BY DEF AC, Water, Sound, Led, Fan
  <2>3. /\ Gpio[AC] = 3 /\ Gpio[Water] = 4 /\ Gpio[Sound] = 5
        /\ Gpio[Led] = 6 /\ Gpio[Fan] = 7
    BY <2>2, Zenon DEF Gpio
  <2>6. QED
    BY <2>1, <2>3
<1> DEFINE Pins == {Gpio[d] : d \in Devices}
<1>8. level \in [Pins -> BOOLEAN] /\ 3 \in Pins
  BY <1>6, <1>7 DEF TypeOK
<1> HIDE DEF Pins
<1>9. CASE op.kind = "pin" /\ op.on = AC
  <2>1. level'[3] = op.val
    BY <1>5, <1>7, <1>8, <1>9
  <2>2. QED
    BY <1>6, <1>7, <1>9, <2>1 DEF PinAc, On, op
<1>10. CASE op.kind = "pin" /\ op.on # AC
  <2>1. level'[3] = level[3]
    BY <1>5, <1>6, <1>7, <1>8, <1>10
  <2>2. QED
    BY <1>7, <1>10, <2>1 DEF PinAc, On, op
<1>11. CASE op.kind # "pin"
  BY <1>5, <1>7, <1>11 DEF PinAc, On, op
<1>12. QED
  BY <1>9, <1>10, <1>11

\* A task performs an operation.
LEMMA PerformAcInv ==
  ASSUME TypeOK, AcInv, NEW t \in Tasks, Perform(t)
  PROVE  AcInv'
<1> DEFINE op == Head(todo[t])
           a == todo[t]
           b == Tail(todo[t])
<1>1. a \in Seq(Ops) /\ a # <<>> /\ WellFormed(a)
  BY DEF TypeOK, Perform, Idle, AcInv
<1>2. t \in {"controller", "button"} /\ "controller" \in Tasks /\ "button" \in Tasks
      /\ "cloud" \in Tasks /\ t # "cloud"
  BY <1>1 DEF AcInv, Tasks
<1>3. /\ todo'[t] = b /\ \A u \in Tasks : u # t => todo'[u] = todo[u]
      /\ emergency' = IF op.kind = "panel" THEN op.val ELSE emergency
  BY DEF Perform, TypeOK
<1>4. /\ WellFormed(b)
      /\ \A v \in BOOLEAN : WillPinAc(b, v) => WillPinAc(a, v)
      /\ \A v \in BOOLEAN : WillPinAc(a, v) => PinAc(op, v) \/ WillPinAc(b, v)
      /\ op.kind = "panel" /\ op.val => WillPinAc(b, FALSE)
      /\ \A i \in 1..Len(b) : i + 1 \in 1..Len(a) /\ b[i] = a[i + 1]
  BY <1>1, TailShape
<1>5. op = a[1] /\ 1 \in 1..Len(a) /\ op \in Ops
  BY <1>1, HeadAndTail
<1>6. /\ PinAc(op, TRUE) => On(AC)'
      /\ PinAc(op, FALSE) => ~On(AC)'
      /\ ~PinAc(op, TRUE) /\ ~PinAc(op, FALSE) => (On(AC)' <=> On(AC))
  BY AcPin
<1>7. t = "button" => ~WillPinAc(todo["controller"], TRUE)
  <2> SUFFICES ASSUME t = "button", WillPinAc(todo["controller"], TRUE) PROVE FALSE
    OBVIOUS
  <2> DEFINE c == todo["controller"]
  <2>1. c \in Seq(Ops) /\ WellFormed(c) /\ c # <<>>
    BY <1>2 DEF TypeOK, AcInv, WillPinAc
  <2>2. Priority["controller"] > Priority["button"]
    BY DEF Priority, Tasks
  <2>3. MayBlock("controller")
    BY <1>2, <2>2 DEF Perform, MayRun
  <2>4. Head(c).kind = "report"
    BY <2>1, <2>3 DEF MayBlock, Reporting, Idle
  <2>5. QED
    BY <2>1, <2>4, TailShape
<1> HIDE DEF op, a, b
<1>8. todo'["cloud"] = <<>> /\ \A u \in Tasks : WellFormed(todo'[u])
  BY <1>2, <1>3, <1>4 DEF AcInv
<1>9. ~WillPinAc(todo'["button"], TRUE)
  BY <1>2, <1>3, <1>4 DEF AcInv, a
<1>10. ASSUME WillPinAc(todo'["controller"], TRUE)
       PROVE  /\ ~emergency'
              /\ \A i \in 1..Len(todo'["controller"]) : todo'["controller"][i].kind # "panel"
  <2>1. t = "controller"
    <3>1. t # "controller" => todo'["controller"] = todo["controller"] /\ t = "button"
      BY <1>2, <1>3
    <3>2. QED
      BY <1>7, <1>10, <3>1
  <2>2. WillPinAc(a, TRUE)
    BY <1>3, <1>4, <1>10, <2>1
  <2>3. ~emergency /\ \A i \in 1..Len(a) : a[i].kind # "panel"
    BY <2>1, <2>2 DEF AcInv, a
  <2>4. QED
    BY <1>3, <1>4, <1>5, <2>1, <2>3
<1>11. ASSUME emergency', On(AC)' PROVE \E u \in Tasks : WillPinAc(todo'[u], FALSE)
  <2>1. CASE op.kind = "panel"
    BY <1>3, <1>4, <1>11, <2>1
  <2>2. CASE PinAc(op, TRUE)
    <3>1. emergency
      <4>1. op.kind # "panel"
        BY <2>2 DEF PinAc
      <4>2. QED
        BY <1>3, <1>11, <4>1, Zenon
    <3>2. WillPinAc(a, TRUE)
      BY <1>5, <2>2 DEF WillPinAc
    <3>3. QED
      BY <1>2, <3>1, <3>2 DEF AcInv, a
  <2>3. CASE op.kind # "panel" /\ ~PinAc(op, TRUE)
    <3>1. ~PinAc(op, FALSE) /\ emergency /\ On(AC)
      <4>1. emergency
        BY <1>3, <1>11, <2>3, Zenon
      <4>2. ~PinAc(op, FALSE) /\ On(AC)
        BY <1>6, <1>11, <2>3, Zenon
      <4>3. QED
        BY <4>1, <4>2
    <3>2. PICK u \in Tasks : WillPinAc(todo[u], FALSE)
      BY <3>1 DEF AcInv
    <3>3. CASE u = t
      BY <1>3, <1>4, <3>1, <3>2, <3>3 DEF a
    <3>4. CASE u # t
      BY <1>3, <3>2, <3>4
    <3>5. QED
      BY <3>3, <3>4
  <2>4. QED
    BY <2>1, <2>2, <2>3
<1>12. QED
  BY <1>8, <1>9, <1>10, <1>11 DEF AcInv

\* Every step preserves the invariant when the cloud writes nothing.
LEMMA StepAcInv ==
  ASSUME TypeOK, AcInv, [LocalNext]_vars
  PROVE  AcInv'
<1>1. CASE SensorRead \/ Receive \/ Display \/ ReportReading \/ UNCHANGED vars
  <2>1. UNCHANGED <<emergency, level, todo>>
    BY <1>1 DEF SensorRead, Receive, Display, ReportReading, vars, shared
  <2>2. QED
    BY <2>1 DEF AcInv, On
<1>2. CASE ControlAc
  <2>1. UNCHANGED <<emergency, level>> /\ todo["controller"] = <<>>
    BY <1>2 DEF ControlAc, shared, At, Idle
  <2>2. CASE UNCHANGED todo
    BY <2>1, <2>2 DEF AcInv, On
  <2>3. CASE WantsAcOn /\ Start("controller", SwitchAc(TRUE))
    <3>1. ~emergency
      BY <2>3 DEF WantsAcOn
    <3>2. QED
      BY <2>1, <2>3, <3>1, HandlerShapes, StartAcInv
  <2>4. CASE Start("controller", SwitchAc(FALSE))
    BY <2>1, <2>4, HandlerShapes, StartAcInv
  <2>5. QED
    BY <1>2, <2>2, <2>3, <2>4 DEF ControlAc
<1>3. CASE ControlAlarm
  <2>1. UNCHANGED <<emergency, level>> /\ todo["controller"] = <<>>
    BY <1>3 DEF ControlAlarm, shared, At, Idle
  <2>2. CASE UNCHANGED todo
    BY <2>1, <2>2 DEF AcInv, On
  <2>3. CASE Start("controller", ActivateEmergency)
    BY <2>1, <2>3, HandlerShapes, StartAcInv
  <2>4. CASE Start("controller", DeactivateEmergency)
    BY <2>1, <2>4, HandlerShapes, StartAcInv
  <2>5. QED
    BY <1>3, <2>2, <2>3, <2>4 DEF ControlAlarm
<1>4. CASE PollButton
  <2>1. UNCHANGED <<emergency, level>> /\ todo["button"] = <<>>
    BY <1>4 DEF PollButton, shared, Idle
  <2>2. CASE UNCHANGED todo
    BY <2>1, <2>2 DEF AcInv, On
  <2>3. CASE Start("button", ActivateEmergency)
    BY <2>1, <2>3, HandlerShapes, StartAcInv
  <2>4. CASE Start("button", DeactivateEmergency)
    BY <2>1, <2>4, HandlerShapes, StartAcInv
  <2>5. QED
    BY <1>4, <2>2, <2>3, <2>4 DEF PollButton
<1>5. CASE \E t \in Tasks : Perform(t)
  BY <1>5, PerformAcInv
<1>6. QED
  BY <1>1, <1>2, <1>3, <1>4, <1>5 DEF LocalNext, Controller, Tasks

\* At rest nothing is going to switch the air conditioner off, so it is off.
LEMMA AcInvImplies == TypeOK /\ AcInv => EmergencyKeepsAcOff
<1> SUFFICES ASSUME TypeOK, AcInv, emergency, \A t \in Tasks : ~Driving(t), On(AC) PROVE FALSE
  BY DEF EmergencyKeepsAcOff
<1>1. PICK t \in Tasks : WillPinAc(todo[t], FALSE)
  BY DEF AcInv
<1>2. todo[t] \in Seq(Ops) /\ WellFormed(todo[t]) /\ todo[t] # <<>>
  BY <1>1 DEF TypeOK, AcInv, WillPinAc
<1>3. Head(todo[t]).kind = "report"
  BY <1>2 DEF Driving, Reporting, Idle
<1>4. QED
  BY <1>1, <1>2, <1>3, TailShape

\* For any actuators, thresholds and queue size: as long as no parameter is
\* written from the cloud, an emergency leaves the air conditioner off whenever
\* no task is in the middle of driving pins.
THEOREM EmergencyAcOff == LocalSpec => []EmergencyKeepsAcOff
<1>1. TypeOK /\ AcInv /\ [LocalNext]_vars => TypeOK' /\ AcInv'
  <2>1. [LocalNext]_vars => [Next]_vars
    BY DEF Next
  <2>2. QED
    BY <2>1, StepTypes, StepAcInv
<1>2. QED
  BY <1>1, InitTypes, InitAcInv, AcInvImplies, PTL DEF LocalSpec

-----------------------------------------------------------------------------
(* Handlers that do not overlap *)

\* The operations a handler still has to perform.
Pending(s) == {s[i] : i \in 1..Len(s)}

\* Some of them are of one of these kinds, on device x.
Does(s, kinds, x) == \E o \in Pending(s) : o.kind \in kinds /\ o.on = x

\* A handler that performs s now, and nothing else, leaves flag, pin and
\* parameter of device d at v.
Brings(s, d, v) ==
  /\ \A o \in Pending(s) : o.on = d /\ o.kind # "copy" => o.val = v
  /\ flag[d] = v \/ Does(s, {"flag"}, d)
  /\ On(d) = v \/ Does(s, {"pin", "copy"}, d)
  /\ reported[d] = v \/ Does(s, {"report"}, d)
  /\ Does(s, {"copy"}, d) =>
       flag[d] = v \/ (Head(s).kind = "flag" /\ Head(s).on = d)

\* The same of the emergency, its parameter and the last alert.
BringsPanel(s, v) ==
  /\ \A o \in Pending(s) : o.on \in {Panel, Alert} => o.val = v
  /\ emergency = v \/ Does(s, {"panel"}, Panel)
  /\ \A x \in {Panel, Alert} : reported[x] = v \/ Does(s, {"report"}, x)

\* s leaves everything in agreement, and the fire actuators with the panel
\* unless they are loose: the cloud wrote a device directly.
Settles(s, loose) ==
  \E v \in BOOLEAN :
    /\ BringsPanel(s, v)
    /\ \A d \in Devices : \E w \in BOOLEAN :
         Brings(s, d, w) /\ (~loose /\ d \in FireSet => w = v)

\* The inductive invariant: as long as handlers have not overlapped, all tasks
\* but one are idle and what that one has left to do settles everything.
SerialInv ==
  ~overlap => \E t \in Tasks : (\A u \in Tasks \ {t} : Idle(u)) /\ Settles(todo[t], direct)

\* What a list of operations has pending, and what taking its head off changes.
LEMMA PendingFacts ==
  /\ Pending(<<>>) = {}
  /\ \A S : \A a, b \in Seq(S) : Pending(a \o b) = Pending(a) \cup Pending(b)
  /\ \A a, b, c : /\ Pending(<<a>>) = {a}
                  /\ Pending(<<a, b>>) = {a, b}
                  /\ Pending(<<a, b, c>>) = {a, b, c}
<1>1. Pending(<<>>) = {}
  BY DEF Pending
<1>2. ASSUME NEW S, NEW a \in Seq(S), NEW b \in Seq(S)
      PROVE  Pending(a \o b) = Pending(a) \cup Pending(b)
  <2>1. /\ Len(a \o b) = Len(a) + Len(b) /\ Len(a) \in Nat /\ Len(b) \in Nat
        /\ \A i \in 1..Len(a \o b) :
             (a \o b)[i] = IF i <= Len(a) THEN a[i] ELSE b[i - Len(a)]
    BY Concat, Elements
  <2> DEFINE s == a \o b
  <2> HIDE DEF s
  <2>2. \A i \in 1..Len(s) : s[i] \in Pending(a) \cup Pending(b)
    <3> TAKE i \in 1..Len(s)
    <3>1. CASE i <= Len(a)
      BY <2>1, <3>1 DEF s, Pending
    <3>2. CASE i > Len(a)
      <4>1. i - Len(a) \in 1..Len(b) /\ s[i] = b[i - Len(a)]
        BY <2>1, <3>2 DEF s
      <4>2. QED
        BY <4>1 DEF Pending
    <3>3. QED
      BY <2>1, <3>1, <3>2
  <2>3. \A i \in 1..Len(a) : a[i] \in Pending(s)
    <3> TAKE i \in 1..Len(a)
    <3>1. i \in 1..Len(s) /\ s[i] = a[i]
      BY <2>1 DEF s
    <3>2. QED
      BY <3>1 DEF Pending
  <2>4. \A i \in 1..Len(b) : b[i] \in Pending(s)
    <3> TAKE i \in 1..Len(b)
    <3>1. i + Len(a) \in 1..Len(s) /\ s[i + Len(a)] = b[(i + Len(a)) - Len(a)]
      BY <2>1 DEF s
    <3>2. (i + Len(a)) - Len(a) = i
      BY <2>1
    <3>3. QED
      BY <3>1, <3>2 DEF Pending
  <2>5. QED
    BY <2>2, <2>3, <2>4 DEF Pending, s
<1>3. ASSUME NEW a, NEW b, NEW c
      PROVE  /\ Pending(<<a>>) = {a}
             /\ Pending(<<a, b>>) = {a, b}
             /\ Pending(<<a, b, c>>) = {a, b, c}
  <2>1. 1..1 = {1} /\ 1..2 = {1, 2} /\ 1..3 = {1, 2, 3}
    OBVIOUS
  <2>2. Pending(<<a>>) = {a}
    BY <2>1 DEF Pending
  <2>3. Pending(<<a, b>>) = {a, b}
    BY <2>1 DEF Pending
  <2>4. Pending(<<a, b, c>>) = {a, b, c}
    BY <2>1 DEF Pending
  <2>5. QED
    BY <2>2, <2>3, <2>4
<1>4. QED
  BY <1>1, <1>2, <1>3

\* An operation is the first one or one of the rest.
LEMMA PendingTail ==
  ASSUME NEW S, NEW a \in Seq(S), a # <<>>
  PROVE  Pending(a) = {Head(a)} \cup Pending(Tail(a))
<1> DEFINE b == Tail(a)
<1>1. /\ Head(a) = a[1] /\ Len(b) = Len(a) - 1 /\ Len(a) \in Nat \ {0}
      /\ \A i \in 1..Len(b) : b[i] = a[i + 1]
  BY HeadAndTail
<1> HIDE DEF b
<1>2. \A i \in 1..Len(a) : a[i] \in {Head(a)} \cup Pending(b)
  <2> TAKE i \in 1..Len(a)
  <2>1. CASE i = 1
    BY <1>1, <2>1
  <2>2. CASE i # 1
    <3>1. i - 1 \in 1..Len(b) /\ b[i - 1] = a[(i - 1) + 1] /\ (i - 1) + 1 = i
      BY <1>1, <2>2
    <3>2. QED
      BY <3>1 DEF Pending
  <2>3. QED
    BY <2>1, <2>2
<1>3. \A i \in 1..Len(b) : b[i] \in Pending(a)
  <2> TAKE i \in 1..Len(b)
  <2>1. i + 1 \in 1..Len(a) /\ b[i] = a[i + 1]
    BY <1>1
  <2>2. QED
    BY <2>1 DEF Pending
<1>4. Head(a) \in Pending(a)
  BY <1>1 DEF Pending
<1>5. QED
  BY <1>2, <1>3, <1>4 DEF Pending, b

\* The devices have pins of their own: driving one moves no other.
LEMMA Pins ==
  /\ \A d, e \in Devices : d # e => Gpio[d] # Gpio[e]
  /\ AC \in Devices /\ AC \notin FireSet /\ Panel \notin Devices /\ Alert \notin Devices
  /\ Panel # Alert
<1>1. \A d \in Devices : d \in {AC, Water, Sound, Led, Fan}
  BY FireAssumption DEF Devices, FireSet
<1>2. /\ AC # Water /\ AC # Sound /\ AC # Led /\ AC # Fan
      /\ Water # Sound /\ Water # Led /\ Water # Fan
      /\ Sound # Led /\ Sound # Fan /\ Led # Fan
  BY DEF AC, Water, Sound, Led, Fan
<1>3. /\ Gpio[AC] = 3 /\ Gpio[Water] = 4 /\ Gpio[Sound] = 5
      /\ Gpio[Led] = 6 /\ Gpio[Fan] = 7
  BY <1>2, Zenon DEF Gpio
<1>4. \A d, e \in Devices : d # e => Gpio[d] # Gpio[e]
  BY <1>1, <1>3
<1>5. AC \in Devices /\ AC \notin FireSet
  <2>1. FireSet \subseteq {Water, Sound, Led, Fan}
    BY FireAssumption DEF FireSet
  <2>2. QED
    BY <1>2, <2>1 DEF Devices
<1>6. \A x \in {Panel, Alert} : x \notin {AC, Water, Sound, Led, Fan}
  BY DEF Panel, Alert, AC, Water, Sound, Led, Fan
<1>7. QED
  BY <1>1, <1>4, <1>5, <1>6 DEF Panel, Alert

\* What an operation does to each shared variable.
LEMMA Effect ==
  ASSUME TypeOK, NEW t \in Tasks, Perform(t)
  PROVE  LET op == Head(todo[t]) IN
         /\ op \in Ops /\ todo[t] \in Seq(Ops) /\ todo[t] # <<>>
         /\ todo'[t] = Tail(todo[t])
         /\ \A u \in Tasks : u # t => todo'[u] = todo[u]
         /\ emergency' = IF op.kind = "panel" THEN op.val ELSE emergency
         /\ \A d \in Devices :
              /\ flag'[d] = IF op.kind = "flag" /\ op.on = d THEN op.val ELSE flag[d]
              /\ op.on = d /\ op.kind = "pin" => On(d)' = op.val
              /\ op.on = d /\ op.kind = "copy" => On(d)' = flag[d]
              /\ op.on # d \/ op.kind \notin {"pin", "copy"} => On(d)' = On(d)
         /\ \A x \in Devices \cup {Panel, Alert} :
              reported'[x] = IF op.kind = "report" /\ op.on = x THEN op.val ELSE reported[x]
<1> DEFINE op == Head(todo[t])
<1>1. todo[t] \in Seq(Ops) /\ todo[t] # <<>>
  BY DEF TypeOK, Perform, Idle
<1>2. op \in Ops
  BY <1>1, HeadAndTail
<1>3. /\ todo'[t] = Tail(todo[t])
      /\ \A u \in Tasks : u # t => todo'[u] = todo[u]
  BY DEF Perform, TypeOK
<1> HIDE DEF op
<1>4. /\ emergency' = IF op.kind = "panel" THEN op.val ELSE emergency
      /\ flag' = IF op.kind = "flag" THEN [flag EXCEPT ![op.on] = op.val] ELSE flag
      /\ level' = CASE op.kind = "pin"  -> [level EXCEPT ![Gpio[op.on]] = op.val]
                    [] op.kind = "copy" -> [level EXCEPT ![Gpio[op.on]] = flag[op.on]]
                    [] OTHER            -> level
      /\ reported' = IF op.kind = "report" THEN [reported EXCEPT ![op.on] = op.val]
                     ELSE reported
  BY DEF Perform, op
<1>5. flag \in [Devices -> BOOLEAN] /\ reported \in [Devices \cup {Panel, Alert} -> BOOLEAN]
  BY DEF TypeOK
<1>6. \A d \in Devices :
        flag'[d] = IF op.kind = "flag" /\ op.on = d THEN op.val ELSE flag[d]
  BY <1>4, <1>5
<1>7. \A x \in Devices \cup {Panel, Alert} :
        reported'[x] = IF op.kind = "report" /\ op.on = x THEN op.val ELSE reported[x]
  BY <1>4, <1>5
<1>8. ASSUME NEW d \in Devices
      PROVE  /\ op.on = d /\ op.kind = "pin" => level'[Gpio[d]] = op.val
             /\ op.on = d /\ op.kind = "copy" => level'[Gpio[d]] = flag[d]
             /\ op.on # d \/ op.kind \notin {"pin", "copy"} =>
                  level'[Gpio[d]] = level[Gpio[d]]
  <2> DEFINE P == {Gpio[e] : e \in Devices}
  <2>1. level \in [P -> BOOLEAN] /\ Gpio[d] \in P
    BY DEF TypeOK
  <2>2. op.kind \in {"pin", "copy"} => op.on \in Devices
    BY <1>2 DEF Ops
  <2>3. op.kind \in {"pin", "copy"} /\ op.on # d => Gpio[op.on] # Gpio[d]
    BY <2>2, Pins
  <2> HIDE DEF P
  <2>4. CASE op.kind = "pin"
    <3>1. level' = [level EXCEPT ![Gpio[op.on]] = op.val]
      BY <1>4, <2>4
    <3>2. QED
      BY <2>1, <2>3, <2>4, <3>1
  <2>5. CASE op.kind = "copy"
    <3>1. level' = [level EXCEPT ![Gpio[op.on]] = flag[op.on]]
      BY <1>4, <2>5
    <3>2. QED
      BY <2>1, <2>3, <2>5, <3>1
  <2>6. CASE op.kind \notin {"pin", "copy"}
    BY <1>4, <2>6
  <2>7. QED
    BY <2>4, <2>5, <2>6
<1>9. QED
  BY <1>1, <1>2, <1>3, <1>4, <1>6, <1>7, <1>8 DEF On, op

\* An operation brings the device where the rest of the handler brings it.
LEMMA PerformBrings ==
  ASSUME TypeOK, NEW t \in Tasks, Perform(t),
         NEW d \in Devices, NEW w \in BOOLEAN, Brings(todo[t], d, w)
  PROVE  Brings(todo[t], d, w)'
<1> DEFINE a == todo[t]
           b == Tail(a)
           op == Head(a)
<1>1. /\ op \in Ops /\ a \in Seq(Ops) /\ a # <<>> /\ todo'[t] = b
      /\ flag'[d] = IF op.kind = "flag" /\ op.on = d THEN op.val ELSE flag[d]
      /\ op.on = d /\ op.kind = "pin" => On(d)' = op.val
      /\ op.on = d /\ op.kind = "copy" => On(d)' = flag[d]
      /\ op.on # d \/ op.kind \notin {"pin", "copy"} => On(d)' = On(d)
      /\ reported'[d] = IF op.kind = "report" /\ op.on = d THEN op.val ELSE reported[d]
  BY Effect
<1>2. Pending(a) = {op} \cup Pending(b)
  BY <1>1, PendingTail
<1>3. /\ \A o \in Pending(a) : o.on = d /\ o.kind # "copy" => o.val = w
      /\ flag[d] = w \/ Does(a, {"flag"}, d)
      /\ On(d) = w \/ Does(a, {"pin", "copy"}, d)
      /\ reported[d] = w \/ Does(a, {"report"}, d)
      /\ Does(a, {"copy"}, d) => flag[d] = w \/ (op.kind = "flag" /\ op.on = d)
  BY DEF Brings
<1> HIDE DEF a, b, op
<1>4. \A o \in Pending(b) : o.on = d /\ o.kind # "copy" => o.val = w
  BY <1>2, <1>3
<1>5. \A K : Does(a, K, d) => (op.kind \in K /\ op.on = d) \/ Does(b, K, d)
  BY <1>2 DEF Does
<1>6. op.on = d /\ op.kind # "copy" => op.val = w
  BY <1>2, <1>3
<1>7. flag'[d] = w \/ Does(b, {"flag"}, d)
  BY <1>1, <1>3, <1>5, <1>6
<1>8. Does(a, {"copy"}, d) => flag'[d] = w
  BY <1>1, <1>3, <1>6
<1>9. op.kind = "copy" /\ op.on = d => flag[d] = w
  <2> SUFFICES ASSUME op.kind = "copy", op.on = d PROVE flag[d] = w
    OBVIOUS
  <2>1. Does(a, {"copy"}, d)
    BY <1>2 DEF Does
  <2>2. QED
    BY <1>3, <2>1
<1>10. On(d)' = w \/ Does(b, {"pin", "copy"}, d)
  <2>1. CASE op.kind = "pin" /\ op.on = d
    BY <1>1, <1>6, <2>1
  <2>2. CASE op.kind = "copy" /\ op.on = d
    BY <1>1, <1>9, <2>2
  <2>3. CASE op.on # d \/ op.kind \notin {"pin", "copy"}
    BY <1>1, <1>3, <1>5, <2>3
  <2>4. QED
    BY <2>1, <2>2, <2>3
<1>11. reported'[d] = w \/ Does(b, {"report"}, d)
  BY <1>1, <1>3, <1>5, <1>6
<1>12. Does(b, {"copy"}, d) => flag'[d] = w
  BY <1>2, <1>8 DEF Does
<1>13. QED
  <2>1. todo'[t] = b
    BY <1>1
  <2>2. QED
    BY <2>1, <1>4, <1>7, <1>10, <1>11, <1>12 DEF Brings, Does, Pending

LEMMA PerformBringsPanel ==
  ASSUME TypeOK, NEW t \in Tasks, Perform(t),
         NEW v \in BOOLEAN, BringsPanel(todo[t], v)
  PROVE  BringsPanel(todo[t], v)'
<1> DEFINE a == todo[t]
           b == Tail(a)
           op == Head(a)
<1>1. /\ op \in Ops /\ a \in Seq(Ops) /\ a # <<>> /\ todo'[t] = b
      /\ emergency' = IF op.kind = "panel" THEN op.val ELSE emergency
      /\ \A x \in {Panel, Alert} :
           reported'[x] = IF op.kind = "report" /\ op.on = x THEN op.val ELSE reported[x]
  BY Effect
<1>2. Pending(a) = {op} \cup Pending(b)
  BY <1>1, PendingTail
<1>3. /\ \A o \in Pending(a) : o.on \in {Panel, Alert} => o.val = v
      /\ emergency = v \/ Does(a, {"panel"}, Panel)
      /\ \A x \in {Panel, Alert} : reported[x] = v \/ Does(a, {"report"}, x)
  BY DEF BringsPanel
<1>4. op.kind = "panel" => op.on = Panel
  BY <1>1 DEF Ops
<1> HIDE DEF a, b, op
<1>5. \A K, x : Does(a, K, x) => (op.kind \in K /\ op.on = x) \/ Does(b, K, x)
  BY <1>2 DEF Does
<1>6. op.on \in {Panel, Alert} => op.val = v
  BY <1>2, <1>3
<1>7. emergency' = v \/ Does(b, {"panel"}, Panel)
  <2>1. CASE op.kind = "panel"
    <3>1. op.val = v
      BY <1>4, <1>6, <2>1
    <3>2. QED
      BY <1>1, <2>1, <3>1, Zenon
  <2>2. CASE op.kind # "panel"
    <3>1. emergency' = emergency
      BY <1>1, <2>2, Zenon
    <3>2. Does(a, {"panel"}, Panel) => Does(b, {"panel"}, Panel)
      BY <1>5, <2>2
    <3>3. QED
      BY <1>3, <3>1, <3>2, Zenon
  <2>3. QED
    BY <2>1, <2>2
<1>8. \A x \in {Panel, Alert} : reported'[x] = v \/ Does(b, {"report"}, x)
  BY <1>1, <1>3, <1>5, <1>6
<1>9. \A o \in Pending(b) : o.on \in {Panel, Alert} => o.val = v
  BY <1>2, <1>3
<1>10. QED
  <2>1. todo'[t] = b
    BY <1>1
  <2>2. QED
    BY <2>1, <1>7, <1>8, <1>9 DEF BringsPanel, Does, Pending

LEMMA PerformSettles ==
  ASSUME TypeOK, NEW t \in Tasks, Perform(t), NEW loose, Settles(todo[t], loose)
  PROVE  Settles(todo[t], loose)'
<1>1. PICK v \in BOOLEAN :
        /\ BringsPanel(todo[t], v)
        /\ \A d \in Devices : \E w \in BOOLEAN :
             Brings(todo[t], d, w) /\ (~loose /\ d \in FireSet => w = v)
  BY DEF Settles
<1>2. BringsPanel(todo[t], v)'
  BY <1>1, PerformBringsPanel
<1>3. ASSUME NEW d \in Devices
      PROVE  \E w \in BOOLEAN :
               Brings(todo[t], d, w)' /\ (~loose /\ d \in FireSet => w = v)
  <2>1. PICK w \in BOOLEAN : Brings(todo[t], d, w) /\ (~loose /\ d \in FireSet => w = v)
    BY <1>1
  <2>2. Brings(todo[t], d, w)'
    BY <2>1, PerformBrings
  <2>3. QED
    BY <2>1, <2>2
<1>4. QED
  BY <1>2, <1>3 DEF Settles

\* s brings device d to v from any state.
Covers(s, d, v) ==
  /\ \A o \in Pending(s) : o.on = d /\ o.kind # "copy" => o.val = v
  /\ Does(s, {"flag"}, d) /\ Does(s, {"pin", "copy"}, d) /\ Does(s, {"report"}, d)
  /\ Does(s, {"copy"}, d) => Head(s).kind = "flag" /\ Head(s).on = d

\* The same of the emergency, its parameter and the alert.
CoversPanel(s, v) ==
  /\ \A o \in Pending(s) : o.on \in {Panel, Alert} => o.val = v
  /\ Does(s, {"panel"}, Panel)
  /\ \A x \in {Panel, Alert} : Does(s, {"report"}, x)

\* s leaves x alone.
Spares(s, x) == \A o \in Pending(s) : o.on # x

\* What the two lists of actuator operations consist of.
LEMMA ActuatorParts ==
  ASSUME NEW v \in BOOLEAN
  PROVE  /\ Pending(DriveActuators(v)) =
              {SetPanel(v)} \cup {SetFlag(d, v) : d \in FireSet}
                \cup {SetPin(d, v) : d \in FireSet}
         /\ Pending(ReportActuators(v)) =
              {Report(d, v) : d \in FireSet} \cup {Report(Panel, v)}
<1>1. /\ Len(FireDevs) \in Nat
      /\ \A i \in 1..Len(FireDevs) : FireDevs[i] \in FireSet /\ FireDevs[i] \in Devices
      /\ \A d \in FireSet : d \in Devices /\ \E i \in 1..Len(FireDevs) : FireDevs[i] = d
  BY FireAssumption DEF Devices, FireSet
<1>2. Pending(DriveActuators(v)) =
        {SetPanel(v)} \cup {SetFlag(d, v) : d \in FireSet}
          \cup {SetPin(d, v) : d \in FireSet}
  <2> DEFINE n == 2 * Len(FireDevs)
             D(i) == FireDevs[(i + 1) \div 2]
             drive == [i \in 1..n |-> IF i % 2 = 1 THEN SetFlag(D(i), v) ELSE SetPin(D(i), v)]
             all == {SetFlag(d, v) : d \in FireSet} \cup {SetPin(d, v) : d \in FireSet}
  <2>1. \A i \in 1..n : D(i) \in FireSet
    <3> TAKE i \in 1..n
    <3>1. (i + 1) \div 2 \in 1..Len(FireDevs)
      BY <1>1
    <3>2. QED
      BY <1>1, <3>1
  <2>2. \A i \in 1..n : drive[i] \in all
    BY <2>1
  <2>3. \A d \in FireSet : \E i, j \in 1..n : drive[i] = SetFlag(d, v) /\ drive[j] = SetPin(d, v)
    <3> TAKE d \in FireSet
    <3>1. PICK k \in 1..Len(FireDevs) : FireDevs[k] = d
      BY <1>1
    <3>2. /\ 2 * k - 1 \in 1..n /\ 2 * k \in 1..n
          /\ (2 * k - 1) % 2 = 1 /\ (2 * k) % 2 # 1
          /\ ((2 * k - 1) + 1) \div 2 = k /\ ((2 * k) + 1) \div 2 = k
      BY <1>1
    <3>3. drive[2 * k - 1] = SetFlag(D(2 * k - 1), v) /\ drive[2 * k] = SetPin(D(2 * k), v)
      BY <3>2
    <3>4. D(2 * k - 1) = d /\ D(2 * k) = d
      BY <3>1, <3>2
    <3>5. QED
      BY <3>2, <3>3, <3>4
  <2>4. drive \in Seq(Ops) /\ Len(drive) = n
    <3>1. \A i \in 1..n : drive[i] \in Ops
      BY <1>1, <2>1, OpTypes
    <3>2. QED
      BY <1>1, <3>1
  <2> HIDE DEF drive
  <2>5. Pending(drive) = all
    <3>1. Pending(drive) \subseteq all
      BY <2>2, <2>4 DEF Pending
    <3>2. all \subseteq Pending(drive)
      BY <2>3, <2>4 DEF Pending
    <3>3. QED
      BY <3>1, <3>2
  <2> DEFINE panel == <<SetPanel(v)>>
  <2>6. panel \in Seq(Ops) /\ Pending(panel) = {SetPanel(v)}
    <3>1. SetPanel(v) \in Ops
      BY OpTypes
    <3>2. QED
      BY <3>1, ListTypes, PendingFacts
  <2> HIDE DEF all, panel
  <2>7. Pending(panel \o drive) = {SetPanel(v)} \cup all
    BY <2>4, <2>5, <2>6, PendingFacts
  <2>8. QED
    BY <2>7 DEF DriveActuators, drive, all, panel
<1>3. Pending(ReportActuators(v)) = {Report(d, v) : d \in FireSet} \cup {Report(Panel, v)}
  <2> DEFINE reports == [i \in 1..Len(FireDevs) |-> Report(FireDevs[i], v)]
  <2>1. reports \in Seq(Ops) /\ Len(reports) = Len(FireDevs)
    BY <1>1, OpTypes
  <2>2. Pending(reports) = {Report(d, v) : d \in FireSet}
    <3>1. \A i \in 1..Len(FireDevs) : reports[i] = Report(FireDevs[i], v)
      OBVIOUS
    <3> HIDE DEF reports
    <3>2. QED
      BY <1>1, <2>1, <3>1 DEF Pending
  <2>3. <<Report(Panel, v)>> \in Seq(Ops) /\ Pending(<<Report(Panel, v)>>) = {Report(Panel, v)}
    <3>1. Report(Panel, v) \in Ops
      BY OpTypes
    <3>2. QED
      BY <3>1, ListTypes, PendingFacts
  <2> HIDE DEF reports
  <2>4. Pending(reports \o <<Report(Panel, v)>>) =
          {Report(d, v) : d \in FireSet} \cup {Report(Panel, v)}
    BY <2>1, <2>2, <2>3, PendingFacts
  <2>5. QED
    BY <2>4 DEF ReportActuators, reports
<1>4. QED
  BY <1>2, <1>3

\* What the handlers of the emergency consist of.
LEMMA EmergencyParts ==
  /\ Pending(ActivateEmergency) =
       Pending(DriveActuators(TRUE)) \cup {SetFlag(AC, FALSE), SetPin(AC, FALSE)}
         \cup Pending(ReportActuators(TRUE)) \cup {Report(AC, FALSE), Report(Alert, TRUE)}
  /\ Pending(DeactivateEmergency) =
       Pending(DriveActuators(FALSE)) \cup Pending(ReportActuators(FALSE))
         \cup {Report(Alert, FALSE)}
<1>1. /\ SetFlag(AC, FALSE) \in Ops /\ SetPin(AC, FALSE) \in Ops
      /\ Report(AC, FALSE) \in Ops /\ Report(Alert, TRUE) \in Ops /\ Report(Alert, FALSE) \in Ops
  BY OpTypes, Pins
<1>2. \A v \in BOOLEAN : DriveActuators(v) \in Seq(Ops) /\ ReportActuators(v) \in Seq(Ops)
  BY HandlerTypes
<1> DEFINE ac == <<SetFlag(AC, FALSE), SetPin(AC, FALSE)>>
           tell == <<Report(AC, FALSE), Report(Alert, TRUE)>>
           over == <<Report(Alert, FALSE)>>
<1>3. ac \in Seq(Ops) /\ tell \in Seq(Ops) /\ over \in Seq(Ops)
  BY <1>1, ListTypes
<1>4. /\ Pending(ac) = {SetFlag(AC, FALSE), SetPin(AC, FALSE)}
      /\ Pending(tell) = {Report(AC, FALSE), Report(Alert, TRUE)}
      /\ Pending(over) = {Report(Alert, FALSE)}
  BY PendingFacts
<1> HIDE DEF ac, tell, over
<1>5. \A a, b \in Seq(Ops) : a \o b \in Seq(Ops) /\ Pending(a \o b) = Pending(a) \cup Pending(b)
  BY Concat, PendingFacts
<1>6. Pending(ActivateEmergency) =
        Pending(DriveActuators(TRUE)) \cup Pending(ac)
          \cup Pending(ReportActuators(TRUE)) \cup Pending(tell)
  <2> DEFINE x == DriveActuators(TRUE) \o ac
             y == x \o ReportActuators(TRUE)
  <2>1. x \in Seq(Ops) /\ Pending(x) = Pending(DriveActuators(TRUE)) \cup Pending(ac)
    BY <1>2, <1>3, <1>5
  <2> HIDE DEF x
  <2>2. y \in Seq(Ops) /\ Pending(y) = Pending(x) \cup Pending(ReportActuators(TRUE))
    BY <1>2, <1>5, <2>1
  <2> HIDE DEF y
  <2>3. Pending(y \o tell) = Pending(y) \cup Pending(tell)
    BY <1>3, <1>5, <2>2
  <2>4. ActivateEmergency = y \o tell
    BY DEF ActivateEmergency, x, y, ac, tell
  <2>5. QED
    BY <2>1, <2>2, <2>3, <2>4
<1>7. Pending(DeactivateEmergency) =
        Pending(DriveActuators(FALSE)) \cup Pending(ReportActuators(FALSE)) \cup Pending(over)
  <2> DEFINE x == DriveActuators(FALSE) \o ReportActuators(FALSE)
  <2>1. x \in Seq(Ops)
        /\ Pending(x) = Pending(DriveActuators(FALSE)) \cup Pending(ReportActuators(FALSE))
    BY <1>2, <1>5
  <2> HIDE DEF x
  <2>2. Pending(x \o over) = Pending(x) \cup Pending(over)
    BY <1>3, <1>5, <2>1
  <2>3. DeactivateEmergency = x \o over
    BY DEF DeactivateEmergency, x, over
  <2>4. QED
    BY <2>1, <2>2, <2>3
<1>8. QED
  BY <1>4, <1>6, <1>7

\* The kinds and devices of the operations, and what they carry.
LEMMA OpFacts ==
  \A d, v :
    /\ SetPanel(v).kind = "panel" /\ SetPanel(v).on = Panel /\ SetPanel(v).val = v
    /\ SetFlag(d, v).kind = "flag" /\ SetFlag(d, v).on = d /\ SetFlag(d, v).val = v
    /\ SetPin(d, v).kind = "pin" /\ SetPin(d, v).on = d /\ SetPin(d, v).val = v
    /\ CopyPin(d).kind = "copy" /\ CopyPin(d).on = d
    /\ Report(d, v).kind = "report" /\ Report(d, v).on = d /\ Report(d, v).val = v
BY DEF SetPanel, SetFlag, SetPin, CopyPin, Report, Op

\* What an operation that is pending is good for.
LEMMA DoesFacts ==
  ASSUME NEW s, NEW d, NEW v
  PROVE  /\ SetPanel(v) \in Pending(s) => Does(s, {"panel"}, Panel)
         /\ SetFlag(d, v) \in Pending(s) => Does(s, {"flag"}, d)
         /\ SetPin(d, v) \in Pending(s) => Does(s, {"pin", "copy"}, d)
         /\ CopyPin(d) \in Pending(s) => Does(s, {"pin", "copy"}, d)
         /\ Report(d, v) \in Pending(s) => Does(s, {"report"}, d)
BY OpFacts DEF Does

\* Activation and deactivation cover the panel and every fire actuator with one
\* value; activation also switches the air conditioner off.
LEMMA EmergencyCovers ==
  /\ CoversPanel(ActivateEmergency, TRUE) /\ CoversPanel(DeactivateEmergency, FALSE)
  /\ \A d \in FireSet : Covers(ActivateEmergency, d, TRUE) /\ Covers(DeactivateEmergency, d, FALSE)
  /\ Covers(ActivateEmergency, AC, FALSE) /\ Spares(DeactivateEmergency, AC)
<1> DEFINE P(v) == Pending(DriveActuators(v)) \cup Pending(ReportActuators(v))
           on == Pending(ActivateEmergency)
           off == Pending(DeactivateEmergency)
<1>1. ASSUME NEW v \in BOOLEAN
      PROVE  /\ SetPanel(v) \in P(v) /\ Report(Panel, v) \in P(v)
             /\ \A d \in FireSet : /\ SetFlag(d, v) \in P(v)
                                   /\ SetPin(d, v) \in P(v) /\ Report(d, v) \in P(v)
             /\ \A o \in P(v) : o.kind # "copy" /\ o.val = v /\ o.on \in FireSet \cup {Panel}
  BY ActuatorParts, OpFacts
<1>2. on = P(TRUE) \cup {SetFlag(AC, FALSE), SetPin(AC, FALSE), Report(AC, FALSE), Report(Alert, TRUE)}
  BY EmergencyParts
<1>3. off = P(FALSE) \cup {Report(Alert, FALSE)}
  BY EmergencyParts
<1> HIDE DEF P, on, off
<1>4. AC \notin FireSet /\ AC # Panel /\ AC # Alert /\ Panel # Alert
      /\ Panel \notin FireSet /\ Alert \notin FireSet
  BY Pins DEF Devices
<1>5. /\ \A o \in on : o.kind # "copy" /\ (o.on # AC => o.val = TRUE) /\ (o.on = AC => o.val = FALSE)
      /\ \A o \in off : o.kind # "copy" /\ o.val = FALSE /\ o.on # AC
  <2>1. \A o \in P(FALSE) : o.kind # "copy" /\ o.val = FALSE /\ o.on # AC
    BY <1>1, <1>4
  <2>2. \A o \in P(TRUE) : o.kind # "copy" /\ o.val = TRUE /\ o.on # AC
    BY <1>1, <1>4
  <2>3. Report(Alert, FALSE).kind # "copy" /\ Report(Alert, FALSE).val = FALSE
        /\ Report(Alert, FALSE).on # AC
    BY <1>4 DEF Report, Op
  <2>4. \A o \in off : o.kind # "copy" /\ o.val = FALSE /\ o.on # AC
    BY <1>3, <2>1, <2>3
  <2>5. \A o \in on : o.kind # "copy" /\ (o.on # AC => o.val = TRUE) /\ (o.on = AC => o.val = FALSE)
    <3>1. \A o \in {SetFlag(AC, FALSE), SetPin(AC, FALSE), Report(AC, FALSE)} :
            o.kind # "copy" /\ o.on = AC /\ o.val = FALSE
      BY DEF SetFlag, SetPin, Report, Op
    <3>2. Report(Alert, TRUE).kind # "copy" /\ Report(Alert, TRUE).on # AC
          /\ Report(Alert, TRUE).val = TRUE
      BY <1>4 DEF Report, Op
    <3>3. QED
      BY <1>2, <2>2, <3>1, <3>2
  <2>6. QED
    BY <2>4, <2>5
<1>6. /\ SetPanel(TRUE) \in on /\ Report(Panel, TRUE) \in on /\ Report(Alert, TRUE) \in on
      /\ SetFlag(AC, FALSE) \in on /\ SetPin(AC, FALSE) \in on /\ Report(AC, FALSE) \in on
      /\ SetPanel(FALSE) \in off /\ Report(Panel, FALSE) \in off /\ Report(Alert, FALSE) \in off
      /\ \A d \in FireSet :
           /\ SetFlag(d, TRUE) \in on /\ SetPin(d, TRUE) \in on /\ Report(d, TRUE) \in on
           /\ SetFlag(d, FALSE) \in off /\ SetPin(d, FALSE) \in off /\ Report(d, FALSE) \in off
  BY <1>1, <1>2, <1>3
<1>7. CoversPanel(ActivateEmergency, TRUE)
  <2>1. Does(ActivateEmergency, {"panel"}, Panel)
    BY <1>6, DoesFacts DEF on
  <2>2. \A x \in {Panel, Alert} : Does(ActivateEmergency, {"report"}, x)
    BY <1>6, DoesFacts DEF on
  <2>3. \A o \in Pending(ActivateEmergency) : o.on \in {Panel, Alert} => o.val = TRUE
    BY <1>4, <1>5 DEF on
  <2>4. QED
    BY <2>1, <2>2, <2>3 DEF CoversPanel
<1>8. CoversPanel(DeactivateEmergency, FALSE)
  <2>1. Does(DeactivateEmergency, {"panel"}, Panel)
    BY <1>6, DoesFacts DEF off
  <2>2. \A x \in {Panel, Alert} : Does(DeactivateEmergency, {"report"}, x)
    BY <1>6, DoesFacts DEF off
  <2>3. \A o \in Pending(DeactivateEmergency) : o.on \in {Panel, Alert} => o.val = FALSE
    BY <1>5 DEF off
  <2>4. QED
    BY <2>1, <2>2, <2>3 DEF CoversPanel
<1>9. \A d \in FireSet : Covers(ActivateEmergency, d, TRUE)
  <2> TAKE d \in FireSet
  <2>1. /\ Does(ActivateEmergency, {"flag"}, d) /\ Does(ActivateEmergency, {"pin", "copy"}, d)
        /\ Does(ActivateEmergency, {"report"}, d)
    BY <1>6, DoesFacts DEF on
  <2>2. ~Does(ActivateEmergency, {"copy"}, d)
    BY <1>5 DEF Does, on
  <2>3. \A o \in Pending(ActivateEmergency) : o.on = d => o.val = TRUE
    BY <1>4, <1>5 DEF on
  <2>4. QED
    BY <2>1, <2>2, <2>3 DEF Covers
<1>10. \A d \in FireSet : Covers(DeactivateEmergency, d, FALSE)
  <2> TAKE d \in FireSet
  <2>1. /\ Does(DeactivateEmergency, {"flag"}, d) /\ Does(DeactivateEmergency, {"pin", "copy"}, d)
        /\ Does(DeactivateEmergency, {"report"}, d)
    BY <1>6, DoesFacts DEF off
  <2>2. ~Does(DeactivateEmergency, {"copy"}, d)
    BY <1>5 DEF Does, off
  <2>3. \A o \in Pending(DeactivateEmergency) : o.val = FALSE
    BY <1>5 DEF off
  <2>4. QED
    BY <2>1, <2>2, <2>3 DEF Covers
<1>11. Covers(ActivateEmergency, AC, FALSE)
  <2>1. /\ Does(ActivateEmergency, {"flag"}, AC) /\ Does(ActivateEmergency, {"pin", "copy"}, AC)
        /\ Does(ActivateEmergency, {"report"}, AC)
    BY <1>6, DoesFacts DEF on
  <2>2. ~Does(ActivateEmergency, {"copy"}, AC)
    BY <1>5 DEF Does, on
  <2>3. \A o \in Pending(ActivateEmergency) : o.on = AC => o.val = FALSE
    BY <1>5 DEF on
  <2>4. QED
    BY <2>1, <2>2, <2>3 DEF Covers
<1>12. Spares(DeactivateEmergency, AC)
  BY <1>5 DEF Spares, off
<1>13. QED
  BY <1>7, <1>8, <1>9, <1>10, <1>11, <1>12

\* A switch of one device covers that device and spares everything else.
LEMMA SwitchCovers ==
  ASSUME NEW d \in Devices, NEW v \in BOOLEAN,
         NEW move \in {SetPin(d, v), CopyPin(d)},
         NEW s, s = <<SetFlag(d, v), move, Report(d, v)>>
  PROVE  /\ Covers(s, d, v)
         /\ \A x : x # d => Spares(s, x)
<1>1. Pending(s) = {SetFlag(d, v), move, Report(d, v)} /\ Head(s) = SetFlag(d, v)
  BY PendingFacts
<1>2. /\ move.on = d /\ move.kind \in {"pin", "copy"}
      /\ move.kind # "copy" => move.val = v
  BY OpFacts
<1>3. /\ Does(s, {"flag"}, d) /\ Does(s, {"pin", "copy"}, d) /\ Does(s, {"report"}, d)
      /\ Head(s).kind = "flag" /\ Head(s).on = d
  BY <1>1, <1>2, OpFacts DEF Does
<1>4. \A o \in Pending(s) : o.on = d /\ (o.kind # "copy" => o.val = v)
  BY <1>1, <1>2, OpFacts
<1>5. QED
  BY <1>3, <1>4 DEF Covers, Spares

\* With nothing pending, all agrees.
Agreed(loose) ==
  \E v \in BOOLEAN :
    /\ emergency = v /\ reported[Panel] = v /\ reported[Alert] = v
    /\ \A d \in Devices : \E w \in BOOLEAN :
         /\ flag[d] = w /\ On(d) = w /\ reported[d] = w
         /\ ~loose /\ d \in FireSet => w = v

LEMMA SettledAgrees ==
  ASSUME NEW s, s = <<>>, NEW loose
  PROVE  Settles(s, loose) <=> Agreed(loose)
<1>1. Pending(s) = {}
  BY PendingFacts
<1>2. \A K, x : ~Does(s, K, x)
  BY <1>1 DEF Does
<1>3. \A v \in BOOLEAN :
        BringsPanel(s, v) <=> emergency = v /\ reported[Panel] = v /\ reported[Alert] = v
  BY <1>1, <1>2 DEF BringsPanel
<1>4. \A d, w : Brings(s, d, w) <=> flag[d] = w /\ On(d) = w /\ reported[d] = w
  BY <1>1, <1>2 DEF Brings
<1>5. QED
  BY <1>3, <1>4 DEF Settles, Agreed

\* From agreement, a handler that covers or spares the panel and every device
\* settles everything.
LEMMA StartSettles ==
  ASSUME NEW loose, Agreed(loose), NEW s,
         NEW v \in BOOLEAN,
         CoversPanel(s, v) \/ (Spares(s, Panel) /\ Spares(s, Alert) /\ v = emergency),
         NEW of \in [Devices -> BOOLEAN],
         \A d \in Devices : Covers(s, d, of[d]) \/ (Spares(s, d) /\ of[d] = flag[d]),
         ~loose => \A d \in FireSet : of[d] = v
  PROVE  Settles(s, loose)
<1>1. BringsPanel(s, v)
  BY DEF Agreed, CoversPanel, Spares, BringsPanel
<1>2. \A d \in Devices : Brings(s, d, of[d])
  BY DEF Agreed, Covers, Spares, Brings
<1>3. \A d \in Devices : of[d] \in BOOLEAN
  OBVIOUS
<1>4. QED
  BY <1>1, <1>2, <1>3 DEF Settles, Devices

\* Each of the handlers settles everything when it starts from agreement.
LEMMA HandlersSettle ==
  ASSUME TypeOK, NEW loose, Agreed(loose)
  PROVE  /\ Settles(ActivateEmergency, loose) /\ Settles(DeactivateEmergency, loose)
         /\ \A d \in Devices, v \in BOOLEAN :
              (d \in FireSet => loose) =>
                /\ Settles(<<SetFlag(d, v), SetPin(d, v), Report(d, v)>>, loose)
                /\ Settles(<<SetFlag(d, v), CopyPin(d), Report(d, v)>>, loose)
<1>1. emergency \in BOOLEAN /\ flag \in [Devices -> BOOLEAN]
  BY DEF TypeOK
<1>2. Settles(ActivateEmergency, loose)
  <2> DEFINE of == [d \in Devices |-> IF d = AC THEN FALSE ELSE TRUE]
  <2>1. \A d \in Devices : Covers(ActivateEmergency, d, of[d])
    BY EmergencyCovers DEF Devices
  <2>2. of \in [Devices -> BOOLEAN] /\ \A d \in FireSet : of[d] = TRUE
    BY Pins DEF Devices
  <2> HIDE DEF of
  <2>3. QED
    BY <2>1, <2>2, EmergencyCovers, StartSettles
<1>3. Settles(DeactivateEmergency, loose)
  <2> DEFINE of == [d \in Devices |-> IF d = AC THEN flag[AC] ELSE FALSE]
  <2>1. \A d \in Devices :
          \/ Covers(DeactivateEmergency, d, of[d])
          \/ Spares(DeactivateEmergency, d) /\ of[d] = flag[d]
    BY EmergencyCovers DEF Devices
  <2>2. of \in [Devices -> BOOLEAN] /\ \A d \in FireSet : of[d] = FALSE
    BY <1>1, Pins DEF Devices
  <2> HIDE DEF of
  <2>3. QED
    BY <2>1, <2>2, EmergencyCovers, StartSettles
<1>4. ASSUME NEW d \in Devices, NEW v \in BOOLEAN, d \in FireSet => loose,
             NEW move \in {SetPin(d, v), CopyPin(d)},
             NEW s, s = <<SetFlag(d, v), move, Report(d, v)>>
      PROVE  Settles(s, loose)
  <2> DEFINE of == [flag EXCEPT ![d] = v]
  <2>1. Covers(s, d, v) /\ \A x : x # d => Spares(s, x)
    BY <1>4, SwitchCovers
  <2>2. of \in [Devices -> BOOLEAN] /\ of[d] = v /\ \A e \in Devices : e # d => of[e] = flag[e]
    BY <1>1
  <2>3. ~loose => \A e \in FireSet : of[e] = emergency
    <3> SUFFICES ASSUME ~loose, NEW e \in FireSet PROVE of[e] = emergency
      OBVIOUS
    <3>1. e # d /\ e \in Devices
      BY <1>4 DEF Devices
    <3>2. flag[e] = emergency
      BY <3>1 DEF Agreed
    <3>3. QED
      BY <2>2, <3>1, <3>2
  <2> HIDE DEF of
  <2>4. \A e \in Devices : Covers(s, e, of[e]) \/ (Spares(s, e) /\ of[e] = flag[e])
    BY <2>1, <2>2
  <2>5. Spares(s, Panel) /\ Spares(s, Alert)
    BY <2>1, Pins
  <2>6. QED
    BY <1>1, <2>2, <2>3, <2>4, <2>5, StartSettles
<1>5. QED
  BY <1>2, <1>3, <1>4

\* Initially all is off.
LEMMA InitSerialInv == HInit => SerialInv
<1> SUFFICES ASSUME HInit PROVE SerialInv
  OBVIOUS
<1>1. TypeOK /\ Init
  BY InitTypes DEF HInit
<1>2. /\ emergency = FALSE /\ reported[Panel] = FALSE /\ reported[Alert] = FALSE
      /\ \A d \in Devices : flag[d] = FALSE /\ reported[d] = FALSE
  BY <1>1 DEF Init
<1>3. \A d \in Devices : On(d) = FALSE
  BY <1>1 DEF Init, On
<1>4. Agreed(direct)
  BY <1>2, <1>3 DEF Agreed
<1>5. \A t \in Tasks : todo[t] = <<>>
  BY <1>1 DEF Init
<1>6. "cloud" \in Tasks
  BY DEF Tasks
<1>7. QED
  BY <1>4, <1>5, <1>6, SettledAgrees DEF SerialInv, Idle

\* At rest the invariant says that everything agrees.
LEMMA SerialAtRest ==
  ASSUME SerialInv, ~overlap, AtRest
  PROVE  Agreed(direct)
<1>1. PICK t \in Tasks : Settles(todo[t], direct)
  BY DEF SerialInv
<1>2. todo[t] = <<>>
  BY DEF AtRest, Idle
<1>3. QED
  BY <1>1, <1>2, SettledAgrees

\* A handler is entered while all tasks are idle, or else handlers overlap.
LEMMA StartSerialInv ==
  ASSUME TypeOK, SerialInv, NEW t \in Tasks, NEW s \in Seq(Ops), Idle(t), Start(t, s),
         overlap' = (overlap \/ \E u, w \in Busy' : u # w),
         s # <<>>, Agreed(direct) => Settles(s, direct)', ~overlap'
  PROVE  SerialInv'
<1>1. /\ todo'[t] = s /\ \A u \in Tasks : u # t => todo'[u] = todo[u]
  BY DEF TypeOK, Start
<1>2. ~overlap
  OBVIOUS
<1>3. \A u \in Tasks : u # t => todo'[u] = <<>>
  <2> SUFFICES ASSUME NEW u \in Tasks, u # t, todo'[u] # <<>> PROVE FALSE
    OBVIOUS
  <2>1. u \in Busy' /\ t \in Busy'
    BY <1>1 DEF Busy, Idle
  <2>2. QED
    BY <2>1
<1>4. AtRest
  BY <1>1, <1>3 DEF AtRest, Idle
<1>5. Settles(s, direct)'
  BY <1>2, <1>4, SerialAtRest
<1>6. Settles(todo[t], direct)'
  BY <1>1, <1>5 DEF Settles, BringsPanel, Brings, Does, Pending
<1>7. QED
  BY <1>3, <1>6 DEF SerialInv, Idle

\* Shared variables unchanged: what s settles it settles after the step.
LEMMA KeepSettles ==
  ASSUME UNCHANGED shared, NEW s, Settles(s, direct')
  PROVE  Settles(s, direct)'
BY DEF shared, Settles, BringsPanel, Brings, Does, Pending, On

\* The weaker demand follows.
LEMMA LooserSettles ==
  ASSUME NEW s, NEW a, NEW b, a => b
  PROVE  (Settles(s, a) => Settles(s, b)) /\ (Agreed(a) => Agreed(b))
<1>1. Settles(s, a) => Settles(s, b)
  <2> SUFFICES ASSUME Settles(s, a) PROVE Settles(s, b)
    OBVIOUS
  <2>1. PICK v \in BOOLEAN :
          /\ BringsPanel(s, v)
          /\ \A d \in Devices : \E w \in BOOLEAN :
               Brings(s, d, w) /\ (~a /\ d \in FireSet => w = v)
    BY DEF Settles
  <2>2. \A d \in Devices : \E w \in BOOLEAN : Brings(s, d, w) /\ (~b /\ d \in FireSet => w = v)
    BY <2>1
  <2>3. QED
    BY <2>1, <2>2 DEF Settles
<1>2. Agreed(a) => Agreed(b)
  <2> SUFFICES ASSUME Agreed(a) PROVE Agreed(b)
    OBVIOUS
  <2>1. PICK v \in BOOLEAN :
          /\ emergency = v /\ reported[Panel] = v /\ reported[Alert] = v
          /\ \A d \in Devices : \E w \in BOOLEAN :
               /\ flag[d] = w /\ On(d) = w /\ reported[d] = w
               /\ ~a /\ d \in FireSet => w = v
    BY DEF Agreed
  <2>2. \A d \in Devices : \E w \in BOOLEAN :
          /\ flag[d] = w /\ On(d) = w /\ reported[d] = w
          /\ ~b /\ d \in FireSet => w = v
    BY <2>1
  <2>3. QED
    BY <2>1, <2>2 DEF Agreed
<1>3. QED
  BY <1>1, <1>2

\* No handler is empty.
LEMMA NotEmpty ==
  ASSUME NEW s, NEW K, NEW x, Does(s, K, x)
  PROVE  s # <<>>
BY PendingFacts DEF Does

\* Every step preserves the invariant.
LEMMA StepSerialInv ==
  ASSUME TypeOK, SerialInv, [HNext]_hvars
  PROVE  SerialInv'
<1> SUFFICES ASSUME ~overlap' PROVE SerialInv'
  BY DEF SerialInv
<1>1. CASE UNCHANGED hvars
  <2>1. UNCHANGED shared /\ todo' = todo /\ direct' = direct /\ overlap' = overlap
    BY <1>1 DEF hvars, vars
  <2>2. PICK t \in Tasks : (\A u \in Tasks \ {t} : Idle(u)) /\ Settles(todo[t], direct)
    BY <2>1 DEF SerialInv
  <2>3. Settles(todo[t], direct)'
    BY <2>1, <2>2, KeepSettles
  <2>4. QED
    BY <2>1, <2>2, <2>3 DEF SerialInv, Idle
<1>2. CASE HNext
  <2>1. /\ Next /\ overlap' = (overlap \/ \E u, w \in Busy' : u # w)
        /\ direct' = (direct \/ \E d \in CloudTargets \ {Panel}, v \in BOOLEAN :
                                  todo'["cloud"] = CloudWrite(d, v))
    BY <1>2 DEF HNext
  <2>2. ~overlap /\ (direct => direct')
    BY <2>1
  <2>3. PICK t \in Tasks : (\A u \in Tasks \ {t} : Idle(u)) /\ Settles(todo[t], direct)
    BY <2>2 DEF SerialInv
  <2>4. Settles(todo[t], direct')
    BY <2>2, <2>3, LooserSettles
  <2>5. ASSUME UNCHANGED shared, UNCHANGED todo PROVE SerialInv'
    <3>1. Settles(todo[t], direct)'
      BY <2>4, <2>5, KeepSettles
    <3>2. QED
      BY <2>3, <2>5, <3>1 DEF SerialInv, Idle
  <2>6. ASSUME Agreed(direct)
        PROVE  /\ Settles(ActivateEmergency, direct') /\ Settles(DeactivateEmergency, direct')
               /\ \A v \in BOOLEAN : Settles(SwitchAc(v), direct')
               /\ \A d \in Devices, v \in BOOLEAN :
                    (d \in FireSet => direct') /\ d # Panel => Settles(CloudWrite(d, v), direct')
    <3>1. Agreed(direct')
      BY <2>2, <2>6, LooserSettles
    <3>2. Settles(ActivateEmergency, direct') /\ Settles(DeactivateEmergency, direct')
      BY <3>1, HandlersSettle
    <3>3. \A v \in BOOLEAN : Settles(SwitchAc(v), direct')
      BY <3>1, HandlersSettle, Pins DEF SwitchAc
    <3>4. \A d \in Devices, v \in BOOLEAN :
            (d \in FireSet => direct') /\ d # Panel => Settles(CloudWrite(d, v), direct')
      BY <3>1, HandlersSettle DEF CloudWrite
    <3>5. QED
      BY <3>2, <3>3, <3>4
  <2>7. /\ ActivateEmergency # <<>> /\ DeactivateEmergency # <<>>
        /\ \A v \in BOOLEAN : SwitchAc(v) # <<>>
        /\ \A d \in Devices, v \in BOOLEAN : d # Panel => CloudWrite(d, v) # <<>>
    BY EmergencyCovers, NotEmpty DEF CoversPanel, SwitchAc, CloudWrite
  <2>8. ASSUME NEW u \in Tasks, Idle(u), UNCHANGED shared,
               NEW s \in {ActivateEmergency, DeactivateEmergency} \cup {SwitchAc(v) : v \in BOOLEAN},
               Start(u, s)
        PROVE  SerialInv'
    <3>1. s \in Seq(Ops) /\ s # <<>>
      BY <2>7, HandlerTypes
    <3>2. Agreed(direct) => Settles(s, direct)'
      BY <2>6, <2>8, KeepSettles
    <3>3. QED
      BY <2>1, <2>8, <3>1, <3>2, StartSerialInv
  <2>9. CASE SensorRead \/ Receive \/ Display \/ ReportReading
    BY <2>5, <2>9 DEF SensorRead, Receive, Display, ReportReading
  <2>10. CASE ControlAc
    <3>1. UNCHANGED shared /\ Idle("controller") /\ "controller" \in Tasks
      BY <2>10 DEF ControlAc, At, Tasks
    <3>2. UNCHANGED todo \/ \E v \in BOOLEAN : Start("controller", SwitchAc(v))
      BY <2>10 DEF ControlAc
    <3>3. QED
      BY <2>5, <2>8, <3>1, <3>2
  <2>11. CASE ControlAlarm
    <3>1. UNCHANGED shared /\ Idle("controller") /\ "controller" \in Tasks
      BY <2>11 DEF ControlAlarm, At, Tasks
    <3>2. UNCHANGED todo \/ \E s \in {ActivateEmergency, DeactivateEmergency} : Start("controller", s)
      BY <2>11 DEF ControlAlarm
    <3>3. QED
      BY <2>5, <2>8, <3>1, <3>2
  <2>12. CASE PollButton
    <3>1. UNCHANGED shared /\ Idle("button") /\ "button" \in Tasks
      BY <2>12 DEF PollButton, Tasks
    <3>2. UNCHANGED todo \/ \E s \in {ActivateEmergency, DeactivateEmergency} : Start("button", s)
      BY <2>12 DEF PollButton
    <3>3. QED
      BY <2>5, <2>8, <3>1, <3>2
  <2>13. CASE ReceiveWrite
    <3>1. UNCHANGED shared /\ Idle("cloud") /\ "cloud" \in Tasks
      BY <2>13 DEF ReceiveWrite, Tasks
    <3>2. PICK d \in CloudTargets, v \in BOOLEAN : Start("cloud", CloudWrite(d, v))
      BY <2>13 DEF ReceiveWrite
    <3>3. CASE d = Panel
      <4>1. CloudWrite(d, v) \in {ActivateEmergency, DeactivateEmergency}
        BY <3>3 DEF CloudWrite
      <4>2. QED
        BY <2>8, <3>1, <3>2, <4>1
    <3>4. CASE d # Panel
      <4>1. d \in Devices
        BY <3>4, FireAssumption
      <4>2. todo'["cloud"] = CloudWrite(d, v)
        BY <3>1, <3>2 DEF Start, TypeOK
      <4>3. direct'
        BY <2>1, <3>4, <4>2
      <4>4. Agreed(direct) => Settles(CloudWrite(d, v), direct)'
        BY <2>6, <3>1, <3>4, <4>1, <4>3, KeepSettles
      <4>5. CloudWrite(d, v) \in Seq(Ops) /\ CloudWrite(d, v) # <<>>
        BY <2>7, <3>4, <4>1, HandlerTypes
      <4>6. QED
        BY <2>1, <3>1, <3>2, <4>4, <4>5, StartSerialInv
    <3>5. QED
      BY <3>3, <3>4
  <2>14. CASE \E u \in Tasks : Perform(u)
    <3>1. PICK u \in Tasks : Perform(u)
      BY <2>14
    <3>2. u = t
      BY <2>3, <3>1 DEF Perform
    <3>3. \A w \in Tasks \ {t} : todo'[w] = todo[w]
      BY <3>1, <3>2, Effect
    <3>4. Settles(todo[t], direct)'
      <4>1. PICK loose : loose = direct'
        OBVIOUS
      <4>2. Settles(todo[t], loose)'
        BY <2>4, <3>1, <3>2, <4>1, PerformSettles
      <4>3. QED
        BY <4>1, <4>2 DEF Settles
    <3>5. QED
      BY <2>3, <3>3, <3>4 DEF SerialInv, Idle
  <2>15. QED
    BY <2>1, <2>9, <2>10, <2>11, <2>12, <2>13, <2>14 DEF Next, LocalNext, Controller, Tasks
<1>3. QED
  BY <1>1, <1>2

\* The history variables restrict no step of the program.
LEMMA HStepTypes == TypeOK /\ [HNext]_hvars => TypeOK'
<1>1. [HNext]_hvars => [Next]_vars
  BY DEF HNext, hvars
<1>2. QED
  BY <1>1, StepTypes

\* The invariant holds whatever the cloud writes.
LEMMA SerialHolds == HSpec => [](TypeOK /\ SerialInv)
<1>1. HInit => TypeOK
  BY InitTypes DEF HInit
<1>2. TypeOK /\ SerialInv /\ [HNext]_hvars => TypeOK' /\ SerialInv'
  BY HStepTypes, StepSerialInv
<1>3. QED
  BY <1>1, <1>2, InitSerialInv, PTL DEF HSpec

\* For any actuators, thresholds, queue size and cloud writes: as long as no two
\* handlers were in progress at once, every pin, flag and parameter agrees when
\* all have finished, and the last alert tells the state.
THEOREM AgreeWithoutOverlap == HSpec => []AgreeUnlessOverlap
<1>1. SerialInv => AgreeUnlessOverlap
  <2> SUFFICES ASSUME SerialInv, ~overlap, AtRest
               PROVE  /\ \A d \in Devices : On(d) = flag[d] /\ reported[d] = flag[d]
                      /\ reported[Panel] = emergency /\ reported[Alert] = emergency
    BY DEF AgreeUnlessOverlap
  <2>1. QED
    BY SerialAtRest DEF Agreed
<1>2. QED
  BY <1>1, SerialHolds, PTL

\* If besides the cloud wrote no device directly, the fire actuators then run
\* exactly when there is an emergency.
THEOREM ActuatorsFollowWithoutOverlap == HSpec => []ActuatorsFollowUnlessOverlap
<1>1. SerialInv => ActuatorsFollowUnlessOverlap
  <2> SUFFICES ASSUME SerialInv, ~overlap, ~direct, AtRest, NEW d \in FireSet
               PROVE  On(d) = emergency
    BY DEF ActuatorsFollowUnlessOverlap
  <2>1. QED
    BY SerialAtRest DEF Agreed, Devices
<1>2. QED
  BY <1>1, SerialHolds, PTL
=============================================================================
