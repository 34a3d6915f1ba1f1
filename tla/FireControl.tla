----------------------------- MODULE FireControl ----------------------------
(***************************************************************************)
(* The application: three FreeRTOS tasks and the RainMaker write callback  *)
(* that share the actuator flags, the GPIO levels and the cloud parameters *)
(* without a lock.                                                         *)
(*                                                                         *)
(*   src/main/app_main.c      tasks, activate/deactivate_emergency         *)
(*   src/main/app_driver.c    device to GPIO wiring                        *)
(*                                                                         *)
(* A running handler is the list of shared-memory operations it still has  *)
(* to perform (todo): every assignment to a global, every GPIO write and   *)
(* every parameter report is one step, in program order, so another task   *)
(* may run between any two.  Which task may run is decided by the fixed    *)
(* priorities on the single core: a task runs only while every task of     *)
(* higher priority is blocked.                                             *)
(***************************************************************************)
EXTENDS Integers, Sequences

CONSTANTS
  FireDevs,      \* the emergency actuators, in the order the code drives them
  Temps,         \* temperatures the sensor may report, in tenths of a degree
  AcOn, AcOff,         \* AC_ON_TEMP, AC_OFF_TEMP
  AlarmOn, AlarmOff,   \* ALARM_ON_TEMP, ALARM_OFF_TEMP
  QueueSize,     \* MAX_QUEUE_SIZE
  CloudTargets,  \* devices the cloud writes
  CloudPriority  \* priority of the MQTT task, which runs write_cb

AC    == "Air Conditioner"
Water == "Fire Water"
Sound == "Sound Alarm"
Led   == "Fire LED"
Fan   == "Extractor Fan"
Panel == "Emergency"          \* the device that stands for emergency_state
Alert == "Alert"              \* the push notification of esp_rmaker_raise_alert

\* app_driver.c: the GPIO of each device.
Gpio == [d \in {AC, Water, Sound, Led, Fan} |->
           CASE d = AC -> 3 [] d = Water -> 4 [] d = Sound -> 5
             [] d = Led -> 6 [] d = Fan -> 7]

FireSet == {FireDevs[i] : i \in 1..Len(FireDevs)}
Devices == FireSet \cup {AC}

ASSUME FireAssumption ==
  /\ FireDevs \in Seq({Water, Sound, Led, Fan}) /\ Len(FireDevs) > 0
  /\ Temps \subseteq Int /\ Temps # {}
  /\ AcOn \in Int /\ AcOff \in Int /\ AlarmOn \in Int /\ AlarmOff \in Int
  /\ AcOff < AcOn /\ AcOn < AlarmOff /\ AlarmOff < AlarmOn
  /\ QueueSize \in Nat \ {0}
  /\ CloudTargets \subseteq Devices \cup {Panel}
  /\ CloudPriority \in Nat

Tasks == {"controller", "button", "cloud"}

\* Mutant: the button task above the controller.
ButtonFirst == [t \in Tasks |-> IF t = "button" THEN 5 ELSE 4]

Priority == [t \in Tasks |-> CASE t = "controller" -> 4
                               [] t = "button"     -> 3
                               [] t = "cloud"      -> CloudPriority]

VARIABLES
  emergency,   \* emergency_state
  flag,        \* ac_state, water_state, sound_state, led_state, fan_state
  level,       \* GPIO output levels
  reported,    \* value of each "Power" parameter, and the last alert sent
  todo,        \* what each running handler has left to do
  queue,       \* xSensorDataQueue
  step,        \* where task_system_controller is in its loop
  reading,     \* g_temp
  autoAc,      \* auto_ac_active
  autoAlarm,   \* auto_alarm_active
  screen,      \* the OLED shows "!! EMERGENCY !!"
  tempParam,   \* value of the "Temperature" parameter
  btnPrev      \* btn_state_prev

shared     == <<emergency, flag, level, reported>>
controller == <<step, reading, autoAc, autoAlarm, screen, tempParam>>
vars == <<shared, todo, queue, controller, btnPrev>>

-----------------------------------------------------------------------------
(* The operations handlers are made of *)

Op(kind, on, val) == [kind |-> kind, on |-> on, val |-> val]
SetPanel(v)  == Op("panel", Panel, v)   \* emergency_state = v
SetFlag(d, v) == Op("flag", d, v)       \* <d>_state = v
SetPin(d, v) == Op("pin", d, v)         \* app_driver_set_<d>(v)
CopyPin(d)   == Op("copy", d, FALSE)    \* app_driver_set_<d>(<d>_state)
Report(d, v) == Op("report", d, v)      \* update_and_report(v), or the alert

Ops == [kind : {"panel"}, on : {Panel}, val : BOOLEAN]
         \cup [kind : {"flag", "pin", "copy"}, on : Devices, val : BOOLEAN]
         \cup [kind : {"report"}, on : Devices \cup {Panel, Alert}, val : BOOLEAN]

\* Mutant: the loop over the actuators misses the last pin.
DriveAllButLast(v) ==
  <<SetPanel(v)>> \o
  [i \in 1..(2 * Len(FireDevs) - 1) |->
     LET d == FireDevs[(i + 1) \div 2]
     IN  IF i % 2 = 1 THEN SetFlag(d, v) ELSE SetPin(d, v)]

\* emergency_state and then flag and pin of every fire actuator.
DriveActuators(v) ==
  <<SetPanel(v)>> \o
  [i \in 1..(2 * Len(FireDevs)) |->
     LET d == FireDevs[(i + 1) \div 2]
     IN  IF i % 2 = 1 THEN SetFlag(d, v) ELSE SetPin(d, v)]

ReportActuators(v) ==
  [i \in 1..Len(FireDevs) |-> Report(FireDevs[i], v)] \o <<Report(Panel, v)>>

\* Mutant: the air conditioner is switched off but not reported.
ActivateSilently ==
  DriveActuators(TRUE) \o <<SetFlag(AC, FALSE), SetPin(AC, FALSE)>>
    \o ReportActuators(TRUE) \o <<Report(Alert, TRUE)>>

ActivateEmergency ==
  DriveActuators(TRUE) \o <<SetFlag(AC, FALSE), SetPin(AC, FALSE)>>
    \o ReportActuators(TRUE) \o <<Report(AC, FALSE), Report(Alert, TRUE)>>

DeactivateEmergency ==
  DriveActuators(FALSE) \o ReportActuators(FALSE) \o <<Report(Alert, FALSE)>>

SwitchAc(v) == <<SetFlag(AC, v), SetPin(AC, v), Report(AC, v)>>

\* write_cb for the "Power" parameter of device d.
CloudWrite(d, v) ==
  IF d = Panel
  THEN IF v THEN ActivateEmergency ELSE DeactivateEmergency
  ELSE <<SetFlag(d, v), CopyPin(d), Report(d, v)>>

-----------------------------------------------------------------------------
(* Scheduling *)

Idle(t) == todo[t] = <<>>

\* A report waits for heap, MQTT and socket locks; nothing else in todo blocks.
Reporting(t) == ~Idle(t) /\ Head(todo[t]).kind = "report"

\* Whether a task leaves the CPU to lower priorities: in a report, in the I2C
\* transfers and parameter reports at the end of a controller pass, waiting
\* for a reading, in vTaskDelay, or waiting for a message.
MayBlock(t) ==
  \/ Reporting(t)
  \/ /\ Idle(t)
     /\ t = "controller" =>
          \/ step \in {"display", "report"}
          \/ step = "receive" /\ queue = <<>>

MayRun(t) == \A u \in Tasks : Priority[u] > Priority[t] => MayBlock(u)

\* Task t performs the next operation of its handler.
Perform(t) ==
  /\ MayRun(t) /\ ~Idle(t)
  /\ todo' = [todo EXCEPT ![t] = Tail(@)]
  /\ LET op == Head(todo[t]) IN
       /\ emergency' = IF op.kind = "panel" THEN op.val ELSE emergency
       /\ flag' = IF op.kind = "flag" THEN [flag EXCEPT ![op.on] = op.val] ELSE flag
       /\ level' = CASE op.kind = "pin"  -> [level EXCEPT ![Gpio[op.on]] = op.val]
                     [] op.kind = "copy" -> [level EXCEPT ![Gpio[op.on]] = flag[op.on]]
                     [] OTHER            -> level
       /\ reported' = IF op.kind = "report" THEN [reported EXCEPT ![op.on] = op.val]
                      ELSE reported
  /\ UNCHANGED <<queue, controller, btnPrev>>

\* Task t enters a handler.
Start(t, ops) == todo' = [todo EXCEPT ![t] = ops]

-----------------------------------------------------------------------------
(* task_sensor_reader *)

\* A successful dht11_read_safe is queued; xQueueSend with no wait drops it when
\* the queue is full.  A failed read changes nothing.
SensorRead ==
  /\ \E temp \in Temps :
       queue' = IF Len(queue) < QueueSize THEN Append(queue, temp) ELSE queue
  /\ UNCHANGED <<shared, todo, controller, btnPrev>>

-----------------------------------------------------------------------------
(* task_system_controller *)

At(s) == step = s /\ Idle("controller") /\ MayRun("controller")

Receive ==
  /\ At("receive") /\ queue # <<>>
  /\ reading' = Head(queue) /\ queue' = Tail(queue)
  /\ step' = "ac"
  /\ UNCHANGED <<shared, todo, autoAc, autoAlarm, screen, tempParam, btnPrev>>

WantsAcOn  == reading >= AcOn /\ ~flag[AC] /\ ~emergency
WantsAcOff == ~WantsAcOn /\ reading <= AcOff /\ autoAc /\ ~emergency

ControlAc ==
  /\ At("ac")
  /\ \/ WantsAcOn /\ Start("controller", SwitchAc(TRUE)) /\ autoAc' = TRUE
     \/ WantsAcOff /\ Start("controller", SwitchAc(FALSE)) /\ autoAc' = FALSE
     \/ ~WantsAcOn /\ ~WantsAcOff /\ UNCHANGED <<todo, autoAc>>
  /\ step' = "alarm"
  /\ UNCHANGED <<shared, queue, reading, autoAlarm, screen, tempParam, btnPrev>>

\* Mutants: raise an alarm once only; look at the wrong automatic flag.
WantsAlarmOnOnce == reading >= AlarmOn /\ ~emergency /\ ~autoAlarm
WantsAlarmOffByAc == reading <= AlarmOff /\ autoAc /\ emergency

WantsAlarmOn  == reading >= AlarmOn /\ ~emergency
WantsAlarmOff == ~WantsAlarmOn /\ reading <= AlarmOff /\ autoAlarm /\ emergency

ControlAlarm ==
  /\ At("alarm")
  /\ \/ WantsAlarmOn /\ Start("controller", ActivateEmergency) /\ autoAlarm' = TRUE
     \/ WantsAlarmOff /\ Start("controller", DeactivateEmergency) /\ autoAlarm' = FALSE
     \/ ~WantsAlarmOn /\ ~WantsAlarmOff /\ UNCHANGED <<todo, autoAlarm>>
  /\ step' = "display"
  /\ UNCHANGED <<shared, queue, reading, autoAc, screen, tempParam, btnPrev>>

Display ==
  /\ At("display")
  /\ screen' = emergency
  /\ step' = "report"
  /\ UNCHANGED <<shared, todo, queue, reading, autoAc, autoAlarm, tempParam, btnPrev>>

ReportReading ==
  /\ At("report")
  /\ tempParam' = reading
  /\ step' = "receive"
  /\ UNCHANGED <<shared, todo, queue, reading, autoAc, autoAlarm, screen, btnPrev>>

Controller ==
  Receive \/ ControlAc \/ ControlAlarm \/ Display \/ ReportReading \/ Perform("controller")

-----------------------------------------------------------------------------
(* task_emergency_monitor and the write callback *)

\* One poll: the level is high when the button is released.  A falling edge
\* toggles the emergency.
PollButton ==
  /\ Idle("button") /\ MayRun("button")
  /\ \E high \in BOOLEAN :
       /\ btnPrev' = high
       /\ IF btnPrev /\ ~high
          THEN Start("button", IF ~emergency THEN ActivateEmergency ELSE DeactivateEmergency)
          ELSE UNCHANGED todo
  /\ UNCHANGED <<shared, queue, controller>>

\* A parameter write arrives from the cloud.
ReceiveWrite ==
  /\ Idle("cloud") /\ MayRun("cloud")
  /\ \E d \in CloudTargets, v \in BOOLEAN : Start("cloud", CloudWrite(d, v))
  /\ UNCHANGED <<shared, queue, controller, btnPrev>>

-----------------------------------------------------------------------------
Init ==
  /\ emergency = FALSE
  /\ flag = [d \in Devices |-> FALSE]
  /\ level = [g \in {Gpio[d] : d \in Devices} |-> FALSE]
  /\ reported = [d \in Devices \cup {Panel, Alert} |-> FALSE]
  /\ todo = [t \in Tasks |-> <<>>]
  /\ queue = <<>>
  /\ step = "receive" /\ reading = 0
  /\ autoAc = FALSE /\ autoAlarm = FALSE
  /\ screen = FALSE /\ tempParam = 0
  /\ btnPrev = TRUE

\* The tasks of app_main.c, left to themselves.
LocalNext ==
  \/ SensorRead
  \/ Controller
  \/ PollButton \/ Perform("button")

Next == LocalNext \/ ReceiveWrite \/ Perform("cloud")

Spec == Init /\ [][Next]_vars

\* The sensor task wakes every 10 s and the DHT11 answers again and again.  The
\* two lower priorities are kept off the CPU for a while at a time, but what
\* preempts them blocks infinitely often.
Fairness == WF_vars(SensorRead) /\ SF_vars(Controller) /\ SF_vars(Perform("button"))

\* A node to which the cloud writes nothing.
LocalSpec == Init /\ [][LocalNext]_vars /\ Fairness

-----------------------------------------------------------------------------
(* Properties *)

TypeOK ==
  /\ emergency \in BOOLEAN
  /\ flag \in [Devices -> BOOLEAN]
  /\ level \in [{Gpio[d] : d \in Devices} -> BOOLEAN]
  /\ reported \in [Devices \cup {Panel, Alert} -> BOOLEAN]
  /\ todo \in [Tasks -> Seq(Ops)]
  /\ queue \in Seq(Temps) /\ Len(queue) <= QueueSize
  /\ step \in {"receive", "ac", "alarm", "display", "report"}
  /\ reading \in Temps \cup {0}
  /\ autoAc \in BOOLEAN /\ autoAlarm \in BOOLEAN
  /\ screen \in BOOLEAN
  /\ tempParam \in Temps \cup {0}
  /\ btnPrev \in BOOLEAN

\* The pin that drives device d is high.
On(d) == level[Gpio[d]]

\* Task t is in the part of a handler that drives flags and pins.
Driving(t) == ~Idle(t) /\ ~Reporting(t)

AtRest == \A t \in Tasks : Idle(t)

\* Without cloud writes the air conditioner never runs in an emergency, however
\* the button and the controller interleave: only handlers still driving pins
\* can leave it on, because the controller's check and its switch-on cannot be
\* split by the lower-priority button task and activation switches it off last.
EmergencyKeepsAcOff ==
  emergency /\ (\A t \in Tasks : ~Driving(t)) => ~On(AC)

\* While the readings stay at the alarm threshold the emergency cannot stay off:
\* whoever cancels it, the controller raises it again.
HeatRaisesAlarm == <>[](reading >= AlarmOn) => []<>emergency

\* An emergency the controller raised does not outlast the heat: once readings
\* stay low it is cancelled, by the controller or by hand.
CoolingEndsAutoAlarm ==
  <>[](reading <= AlarmOff) => []<>~(autoAlarm /\ emergency)
=============================================================================
