-------------------------------- MODULE Scenes -------------------------------
(***************************************************************************)
(* Scenes: the list, its copy in NVS, and requests that change several     *)
(* scenes or activate them.                                                *)
(*                                                                         *)
(*   src/components/esp_rainmaker/src/core/esp_rmaker_scenes.c             *)
(*                                                                         *)
(* A request is an array of objects, handled one after the other, in the   *)
(* MQTT task or, when it is the action of a schedule, in the work queue    *)
(* task.  Nothing is locked.  What a scene does when it is activated is    *)
(* the action it has then, told apart by a version.                        *)
(***************************************************************************)
EXTENDS Integers, Sequences

CONSTANTS
  SceneIds,   \* scene ids a request may name
  MaxScenes,  \* CONFIG_ESP_RMAKER_SCENES_MAX_SCENES
  MaxBatch    \* bound: objects in a request

ASSUME ScenesAssumption == MaxScenes \in Nat /\ MaxBatch \in Nat

ListOps == INSTANCE SequencesExt

VARIABLES
  scenes,       \* scenes_list
  scenesNvs,    \* the Scenes parameter in NVS
  handler,      \* what a task has left to do of its request
  masked        \* history: a request changed scenes and ended with an object that does not

sceneVars == <<scenes, scenesNvs, handler, masked>>

-----------------------------------------------------------------------------
SceneTasks == {"cloud", "work"}
SceneOps   == {"add", "edit", "remove", "activate"}
Versions   == {0, 1}

Objects == [op : SceneOps, id : SceneIds]
Batches == UNION {[1..n -> Objects] : n \in 1..MaxBatch}

\* rest is what remains of the request, report is report_params of write_cb;
\* undone is history: report is off again after an object that changed a scene.
NoRequest == [pc |-> "idle", rest |-> <<>>, report |-> FALSE, changed |-> FALSE,
              undone |-> FALSE, data |-> <<>>]

HandlerIdle(t) == handler[t].pc = "idle"

KnownScene(id) == \E k \in DOMAIN scenes : scenes[k].id = id
SceneWithId(id) == CHOOSE k \in DOMAIN scenes : scenes[k].id = id

\* Mutant: a request that removes a scene is not reported.
ReportsUnlessRemoved(op) == op \in {"add", "edit"}

\* The operations after which write_cb reports the scenes.
Reports(op) == op \in {"add", "edit", "remove"}

\* esp_rmaker_scenes_perform_operation.  An edit has replaced the action before.
AddScene(id) ==
  scenes' = IF Len(scenes) < MaxScenes THEN Append(scenes, [id |-> id, ver |-> 0]) ELSE scenes

EditScene(id) == scenes' = [scenes EXCEPT ![SceneWithId(id)].ver = 1 - @]

RemoveScene(id) == scenes' = ListOps!RemoveAt(scenes, SceneWithId(id))

-----------------------------------------------------------------------------
(* esp_rmaker_scenes_parse_json and write_cb *)

BeginScenes(t, batch) ==
  /\ HandlerIdle(t)
  /\ handler' = [handler EXCEPT ![t] = [NoRequest EXCEPT !.pc = "next", !.rest = batch]]
  /\ UNCHANGED <<scenes, scenesNvs, masked>>

\* The next object: its operation decides, alone, whether the scenes will be
\* reported.
Handled(t, op) ==
  handler' = [handler EXCEPT
                ![t].rest = Tail(@), ![t].report = Reports(op),
                ![t].changed = @ \/ op # "activate",
                ![t].undone = op = "activate" /\ handler[t].changed]

Object(t) == Head(handler[t].rest)
HasObject(t) == handler[t].pc = "next" /\ handler[t].rest # <<>>

\* An add, or an edit of a scene that is not known.
ObjectAdd(t) ==
  /\ HasObject(t) /\ Object(t).op \in {"add", "edit"} /\ ~KnownScene(Object(t).id)
  /\ AddScene(Object(t).id)
  /\ Handled(t, "add")
  /\ UNCHANGED <<scenesNvs, masked>>

ObjectEdit(t) ==
  /\ HasObject(t) /\ Object(t).op = "edit" /\ KnownScene(Object(t).id)
  /\ EditScene(Object(t).id)
  /\ Handled(t, "edit")
  /\ UNCHANGED <<scenesNvs, masked>>

ObjectRemove(t) ==
  /\ HasObject(t) /\ Object(t).op = "remove" /\ KnownScene(Object(t).id)
  /\ RemoveScene(Object(t).id)
  /\ Handled(t, "remove")
  /\ UNCHANGED <<scenesNvs, masked>>

\* The action of the scene is handled like a request for its parameters.
ObjectActivate(t) ==
  /\ HasObject(t) /\ Object(t).op = "activate" /\ KnownScene(Object(t).id)
  /\ Handled(t, "activate")
  /\ UNCHANGED <<scenes, scenesNvs, masked>>

\* An add of a scene that exists, or an operation on one that does not.
ObjectSkip(t) ==
  /\ HasObject(t)
  /\ IF KnownScene(Object(t).id) THEN Object(t).op = "add" ELSE Object(t).op \in {"remove", "activate"}
  /\ handler' = [handler EXCEPT ![t].rest = Tail(@)]
  /\ UNCHANGED <<scenes, scenesNvs, masked>>

\* The end of the request, without a report or with one.
EndScenes(t) ==
  /\ handler[t].pc = "next" /\ handler[t].rest = <<>>
  /\ \/ /\ ~handler[t].report
        /\ handler' = [handler EXCEPT ![t] = NoRequest]
        /\ masked' = (masked \/ handler[t].undone)
     \/ /\ handler[t].report
        /\ handler' = [handler EXCEPT ![t].pc = "store", ![t].data = scenes]
        /\ UNCHANGED masked
  /\ UNCHANGED <<scenes, scenesNvs>>

StoreScenes(t) ==
  /\ handler[t].pc = "store"
  /\ scenesNvs' = handler[t].data
  /\ handler' = [handler EXCEPT ![t] = NoRequest]
  /\ masked' = FALSE
  /\ UNCHANGED scenes

\* esp_rmaker_scenes_enable adds the scenes in NVS.
RestoreScenes ==
  /\ scenes' = scenesNvs
  /\ handler' = [t \in SceneTasks |-> NoRequest]
  /\ masked' = FALSE
  /\ UNCHANGED scenesNvs

ScenesInit ==
  /\ scenes = <<>> /\ scenesNvs = <<>>
  /\ handler = [t \in SceneTasks |-> NoRequest]
  /\ masked = FALSE

SceneStep(t) ==
  \/ ObjectAdd(t) \/ ObjectEdit(t) \/ ObjectRemove(t) \/ ObjectActivate(t)
  \/ ObjectSkip(t) \/ EndScenes(t) \/ StoreScenes(t)

-----------------------------------------------------------------------------
(* Properties *)

ScenesTypeOK ==
  /\ scenes \in Seq([id : SceneIds, ver : Versions]) /\ Len(scenes) <= MaxScenes
  /\ scenesNvs \in Seq([id : SceneIds, ver : Versions])
  /\ \A t \in SceneTasks :
       /\ handler[t].pc \in {"idle", "next", "store"}
       /\ handler[t].rest \in Seq(Objects)
       /\ {handler[t].report, handler[t].changed, handler[t].undone} \subseteq BOOLEAN
  /\ masked \in BOOLEAN

\* When no request is under way, NVS has the scenes of the list, so that a
\* power cut loses none of them.  The exception is a request whose last object
\* activates a scene: it takes back the report that the objects before it asked
\* for, and their changes are only in memory until the next one.
ScenesStored ==
  (\A t \in SceneTasks : HandlerIdle(t)) /\ ~masked => scenesNvs = scenes
=============================================================================
