----------------------------- MODULE Automation ------------------------------
(***************************************************************************)
(* Schedules and scenes on one node: the MQTT task handles one request at  *)
(* a time, the action of a schedule activates a scene in the work queue    *)
(* task, and a reboot takes the memory of both.                            *)
(*                                                                         *)
(*   src/components/esp_rainmaker/src/core/esp_rmaker_schedule.c           *)
(*   src/components/esp_rainmaker/src/core/esp_rmaker_scenes.c             *)
(***************************************************************************)
EXTENDS Schedules, Scenes

CONSTANT ActionScene  \* the scene that the schedules activate

ASSUME ActionAssumption == ActionScene \in SceneIds

vars == <<schedules, sceneVars>>

\* esp_rmaker_handle_set_params finds the Schedule service in the request, ...
ScheduleRequest == Request /\ HandlerIdle("cloud") /\ UNCHANGED sceneVars

\* ... or the Scenes service.
SceneRequest ==
  /\ ~Busy("cloud") /\ requests < MaxRequests /\ requests' = requests + 1
  /\ \E batch \in Batches : BeginScenes("cloud", batch)
  /\ UNCHANGED <<memory, clock, over, nvs, queue, at, history, boots>>

\* The action of a schedule: a request to the Scenes service.
Trigger ==
  /\ TakeTrigger
  /\ IF Busy("work")' THEN BeginScenes("work", <<[op |-> "activate", id |-> ActionScene]>>)
                      ELSE UNCHANGED sceneVars

TriggerActed == AfterAction /\ HandlerIdle("work") /\ UNCHANGED sceneVars

Reboot == Boot /\ RestoreScenes

Init == SchedulesInit /\ ScenesInit

Next ==
  \/ ScheduleRequest \/ SceneRequest \/ Trigger \/ TriggerActed \/ Reboot
  \/ ((\E t \in Tasks : TaskStep(t)) \/ WorkStep \/ TakeSync \/ TimerStep) /\ UNCHANGED sceneVars
  \/ (\E t \in SceneTasks : SceneStep(t)) /\ UNCHANGED schedules

Spec == Init /\ [][Next]_vars

-----------------------------------------------------------------------------
TypeOK == SchedulesTypeOK /\ ScenesTypeOK

=============================================================================
