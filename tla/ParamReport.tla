----------------------------- MODULE ParamReport -----------------------------
(***************************************************************************)
(* Parameters: their values, the flags that say what has changed, and the  *)
(* reports that bring them to the cloud.                                   *)
(*                                                                         *)
(*   src/components/esp_rainmaker/src/core/esp_rmaker_param.c              *)
(*   src/components/esp_rainmaker/src/core/esp_rmaker_device.c             *)
(*                                                                         *)
(* Parameters are updated by the application, by the MQTT task when the    *)
(* cloud sets them, and reported as a whole by the work queue task.  All   *)
(* share the flags, one report buffer and one topic, and nothing is        *)
(* locked.  A call is the sequence of the steps it still has to take; a    *)
(* step is what a task does between two accesses to what it shares.  A     *)
(* buffer that two tasks fill at once may hold nothing that can be read,   *)
(* and so may a string that is stored while another task replaces it.      *)
(***************************************************************************)
EXTENDS Integers, Sequences

CONSTANTS
  Params,      \* the parameters
  Names,       \* those of type ESP_RMAKER_PARAM_NAME, which persist
  MaxUpdates,  \* bound: updates and alerts of the application, and requests
  MaxFailures  \* bound: calls that fail: messages the MQTT layer refuses, e.g. for the
               \* budget, subscriptions, and writes to NVS

ASSUME ParamsAssumption ==
  /\ Names \subseteq Params /\ "alert" \notin Params
  /\ MaxUpdates \in Nat /\ MaxFailures \in Nat

VARIABLES
  value,     \* param->val
  flags,     \* param->flags
  nvs,       \* stored values of the parameters that persist
  buf,       \* s_node_params_buf
  topic,     \* publish_topic
  running,   \* esp_rmaker_get_state() = ESP_RMAKER_STATE_STARTED
  listening, \* subscribed to requests
  initDone,  \* esp_rmaker_params_mqtt_init_done
  prog,      \* the steps each task has left
  freed,     \* tasks about to store a string that is no longer there
  mine,      \* changed_params_json, the changes a command returns
  cloud,     \* the values the cloud has
  alert,     \* an alert has been raised, and not been told
  missed,    \* history: what the cloud need not have
  unstored,  \* history: what NVS need not have
  updates, failures  \* history: for the bounds

storing == <<nvs, freed, unstored>>
params  == <<value, flags, storing>>
report  == <<buf, topic>>
reached == <<cloud, alert, missed>>
counts  == <<updates, failures>>
paramVars == <<params, report, running, listening, initDone, prog, mine, reached, counts>>

-----------------------------------------------------------------------------
Values == {0, 1}
Before == 2   \* what the cloud has from before the boot, which may be anything
Junk == 3     \* bytes of a string that was freed
Callers  == {"app", "cloud", "work"}
Change == "change"
Notify == "notify"

\* A message or a buffer without parameters.
Nothing == <<>>

\* The steps of a call, those of CmdResp included.
Ops == {"write", "set", "flag", "store", "put", "started?", "fill", "reset", "topic", "send",
        "alert topic", "send alert", "subscribe", "init done", "fill mine", "reset mine", "answer"}

Step(op) == [op |-> op]
On(op, p, x) == [op |-> op, p |-> p, x |-> x]
Of(op, x) == [op |-> op, x |-> x]

(* The calls *)

\* esp_rmaker_param_store_value, for a parameter that persists
StoreValue(p) == IF p \in Names THEN <<Of("store", p), Of("put", p)>> ELSE <<>>

\* Mutant: a change is flagged before the value is there.
FlagFirst(p, v) == <<On("flag", p, {Change}), On("set", p, v)>> \o StoreValue(p)

\* esp_rmaker_param_update
Update(p, v) == <<On("set", p, v), On("flag", p, {Change})>> \o StoreValue(p)

\* esp_rmaker_report_param_internal
Report(kind) ==
  <<Of("fill", kind), Of("reset", kind),
    Of("topic", IF kind = Change THEN "local" ELSE "alert"), Step("send")>>

\* esp_rmaker_report_node_state
NodeState == <<Of("fill", "all"), Of("topic", "init"), Step("send")>>

\* esp_rmaker_param_update_and_report, _and_notify
UpdateAndReport(p, v) == Update(p, v) \o <<Of("started?", Report(Change))>>
UpdateAndNotify(p, v) ==
  Update(p, v) \o
  <<Of("started?", <<On("flag", p, {Change, Notify})>> \o Report(Notify) \o Report(Change))>>

\* esp_rmaker_default_bulk_write_cb: the name is updated, any other parameter is
\* given to the callback of the application, which updates and reports it.
Write(p, v) == IF p \in Names THEN Update(p, v) ELSE UpdateAndReport(p, v)

\* The parameters of a request that are still to be written.
Writes(W) == IF DOMAIN W = {} THEN <<>> ELSE <<Of("write", W)>>

\* esp_rmaker_device_set_params for a request from the cloud
SetParams(W) == Writes(W) \o Report(Change)

\* Mutant: reports begin before requests can arrive.
InitFirst == <<Step("init done"), Step("subscribe")>> \o NodeState

\* esp_rmaker_params_mqtt_init
MqttInit == <<Step("subscribe"), Step("init done")>> \o NodeState

-----------------------------------------------------------------------------
(* Steps *)

Idle(t) == prog[t] = <<>>
At(t, op) == ~Idle(t) /\ Head(prog[t]).op = op
Arg(t) == Head(prog[t]).x
Done(t) == prog' = [prog EXCEPT ![t] = Tail(@)]
Call(t, steps) == Idle(t) /\ prog' = [prog EXCEPT ![t] = steps]

Others(t) == Callers \ {t}

\* The parameters of a request are written one after the other, in the order in
\* which the device has them.
WriteNext(t) ==
  /\ At(t, "write")
  /\ \E p \in DOMAIN Arg(t) :
       prog' = [prog EXCEPT ![t] = Write(p, Arg(t)[p])
                                   \o Writes([q \in DOMAIN Arg(t) \ {p} |-> Arg(t)[q]]) \o Tail(@)]
  /\ UNCHANGED <<params, report, running, listening, initDone, mine, reached, counts>>

\* Frees the string of a name: a task that is about to store it has only the
\* pointer.
Set(t) ==
  LET p == Head(prog[t]).p IN
  /\ At(t, "set")
  /\ value' = [value EXCEPT ![p] = Arg(t)]
  /\ freed' = freed \cup {u \in Others(t) : At(u, "put") /\ Arg(u) = p}
  /\ Done(t)
  /\ UNCHANGED <<flags, nvs, unstored, report, running, listening, initDone, mine, reached, counts>>

\* A flag that is set while another task is about to reset it, for parameters it
\* has read before, tells nobody.
Flag(t) ==
  LET p == Head(prog[t]).p IN
  /\ At(t, "flag")
  /\ flags' = [flags EXCEPT ![p] = @ \cup Arg(t)]
  /\ missed' = missed \cup {q \in {p} : \E u \in Others(t) : At(u, "reset") \/ At(u, "reset mine")}
  /\ Done(t)
  /\ UNCHANGED <<value, storing, report, running, listening, initDone, mine, cloud, alert, counts>>

\* Mutant: only a value that is flagged as changed is stored.
StoreChanged(t) ==
  /\ At(t, "store")
  /\ prog' = [prog EXCEPT ![t] = IF Change \in flags[Arg(t)] THEN Tail(@) ELSE Tail(Tail(@))]
  /\ UNCHANGED <<params, report, running, listening, initDone, mine, reached, counts>>

\* The namespace is open, pointer and length of the string are read.
Store(t) ==
  /\ At(t, "store")
  /\ Done(t)
  /\ UNCHANGED <<params, report, running, listening, initDone, mine, reached, counts>>

Fail == failures < MaxFailures /\ failures' = failures + 1

\* nvs_set_blob reads what the pointer points to, which may be anything once it
\* has been freed.  Nobody learns that storing has failed, here or before.
Put(t) ==
  LET p == Arg(t) IN
  /\ At(t, "put")
  /\ \/ /\ t \notin freed
        /\ nvs' = [nvs EXCEPT ![p] = value[p]] /\ unstored' = unstored \ {p}
        /\ UNCHANGED failures
     \/ /\ t \in freed
        /\ \E v \in Values \cup {Junk} : nvs' = [nvs EXCEPT ![p] = v]
        /\ unstored' = unstored \cup {p}
        /\ UNCHANGED failures
     \/ Fail /\ unstored' = unstored \cup {p} /\ UNCHANGED nvs
  /\ freed' = freed \ {t}
  /\ Done(t)
  /\ UNCHANGED <<value, flags, report, running, listening, initDone, mine, reached, updates>>

\* "Report parameter only if the RainMaker has started"
Started(t) ==
  /\ At(t, "started?")
  /\ prog' = [prog EXCEPT ![t] = (IF running THEN Arg(t) ELSE <<>>) \o Tail(@)]
  /\ UNCHANGED <<params, report, running, listening, initDone, mine, reached, counts>>

\* What esp_rmaker_populate_params puts in a buffer.
Flagged(kind) == {p \in Params : kind = "all" \/ kind \in flags[p]}
Content(kind) == [p \in Flagged(kind) |-> value[p]]

\* The task has filled the buffer and not published it yet.
Reporting(t) == At(t, "reset") \/ At(t, "topic") \/ At(t, "send")

\* Two reports at once share one buffer, and neither need arrive.
Fill(t) ==
  LET crossed == \E u \in Others(t) : Reporting(u)
      new     == Content(Arg(t))
  IN
  /\ At(t, "fill")
  /\ buf' \in {new} \cup (IF crossed THEN {Nothing} ELSE {})
  /\ missed' = IF crossed THEN missed \cup DOMAIN buf \cup DOMAIN new ELSE missed
  /\ Done(t)
  /\ UNCHANGED <<params, topic, running, listening, initDone, mine, cloud, alert, counts>>

Reset(t) ==
  /\ At(t, "reset")
  /\ flags' = [p \in Params |-> flags[p] \ {Arg(t)}]
  /\ Done(t)
  /\ UNCHANGED <<value, storing, report, running, listening, initDone, mine, reached, counts>>

\* Nothing in the buffer: nothing to publish.  The topic is taken from an alert
\* that is about to be published.
Topic(t) ==
  /\ At(t, "topic")
  /\ \/ /\ buf = Nothing
        /\ prog' = [prog EXCEPT ![t] = Tail(Tail(@))]
        /\ UNCHANGED <<topic, missed>>
     \/ /\ buf # Nothing
        /\ topic' = Arg(t)
        /\ missed' = missed \cup {"alert" : u \in {o \in Others(t) : At(o, "send alert")}}
        /\ Done(t)
  /\ UNCHANGED <<params, buf, running, listening, initDone, mine, cloud, alert, counts>>

\* Values come to the cloud, by way of the MQTT client's outbox.
With(c) == [p \in Params |-> IF p \in DOMAIN c THEN c[p] ELSE cloud[p]]

Reach(c) ==
  /\ cloud' = With(c)
  /\ missed' = missed \ {p \in DOMAIN c : c[p] = value[p]}

Refuse(what) ==
  /\ Fail
  /\ missed' = missed \cup what
  /\ UNCHANGED cloud

\* esp_rmaker_mqtt_publish, whose result is ignored.
Send(t) ==
  /\ At(t, "send")
  /\ \/ initDone /\ topic \in {"local", "init"} /\ Reach(buf) /\ UNCHANGED failures
     \/ initDone /\ topic = "alert" /\ UNCHANGED <<cloud, missed, failures>>
     \/ initDone /\ Refuse(DOMAIN buf)
     \/ ~initDone /\ UNCHANGED <<cloud, missed, failures>>
  /\ Done(t)
  /\ UNCHANGED <<params, report, running, listening, initDone, mine, alert, updates>>

\* esp_rmaker_raise_alert: the alert has its own buffer, and the shared topic.
AlertTopic(t) ==
  /\ At(t, "alert topic")
  /\ topic' = "alert"
  /\ missed' = missed \cup UNION {DOMAIN buf : u \in {o \in Others(t) : At(o, "send")}}
  /\ Done(t)
  /\ UNCHANGED <<params, buf, running, listening, initDone, mine, cloud, alert, counts>>

SendAlert(t) ==
  /\ At(t, "send alert")
  /\ \/ alert' = (alert /\ topic # "alert") /\ UNCHANGED <<cloud, missed, failures>>
     \/ Refuse({"alert"}) /\ UNCHANGED alert
  /\ Done(t)
  /\ UNCHANGED <<params, report, running, listening, initDone, mine, updates>>

Subscribe(t) ==
  /\ At(t, "subscribe")
  /\ listening' = TRUE
  /\ Done(t)
  /\ UNCHANGED <<params, report, running, initDone, mine, reached, counts>>

InitDone(t) ==
  /\ At(t, "init done")
  /\ initDone' = TRUE
  /\ Done(t)
  /\ UNCHANGED <<params, report, running, listening, mine, reached, counts>>

TaskStep(t) ==
  \/ WriteNext(t) \/ Set(t) \/ Flag(t) \/ Store(t) \/ Put(t) \/ Started(t)
  \/ Fill(t) \/ Reset(t) \/ Topic(t) \/ Send(t)
  \/ AlertTopic(t) \/ SendAlert(t) \/ Subscribe(t) \/ InitDone(t)

-----------------------------------------------------------------------------
(* Calls *)

Count == updates < MaxUpdates /\ updates' = updates + 1

\* The other value, at the time of the call.
Other(p) == 1 - value[p]

\* The application has a new value.
AppUpdate ==
  /\ Count
  /\ \E p \in Params \ Names : Call("app", UpdateAndReport(p, Other(p)))
  /\ UNCHANGED <<params, report, running, listening, initDone, mine, reached, failures>>

\* A notification counts as two updates, as it makes two reports.
AppNotify ==
  /\ updates + 2 <= MaxUpdates /\ updates' = updates + 2
  /\ \E p \in Params \ Names : Call("app", UpdateAndNotify(p, Other(p)))
  /\ UNCHANGED <<params, report, running, listening, initDone, mine, reached, failures>>

AppAlert ==
  /\ Count
  /\ Call("app", <<Step("alert topic"), Step("send alert")>>)
  /\ alert' = TRUE /\ missed' = missed \ {"alert"}
  /\ UNCHANGED <<params, report, running, listening, initDone, mine, cloud, failures>>

Requests == {[p \in P |-> Other(p)] : P \in SUBSET Params \ {{}}}

\* esp_rmaker_set_params_callback
CloudSets ==
  /\ Count /\ listening
  /\ \E W \in Requests : Call("cloud", SetParams(W))
  /\ UNCHANGED <<params, report, running, listening, initDone, mine, reached, failures>>

\* The action of a schedule, in the work queue task, for one parameter.
ScheduleSets ==
  /\ Count
  /\ \E p \in Params : Call("work", SetParams([q \in {p} |-> Other(q)]))
  /\ UNCHANGED <<params, report, running, listening, initDone, mine, reached, failures>>

\* esp_rmaker_task: the state, and later, when the user mapping is done, the
\* parameters.
StartRunning ==
  /\ ~running /\ running' = TRUE
  /\ UNCHANGED <<params, report, listening, initDone, prog, mine, reached, counts>>

InitParams ==
  /\ running /\ ~initDone /\ Call("work", MqttInit)
  /\ UNCHANGED <<params, report, running, listening, initDone, mine, reached, counts>>

\* The node has booted, with whatever it has stored before: a reboot at any
\* moment leads here.  esp_rmaker_device_add_param takes the stored value, or
\* stores the first one; which value that is makes no difference.  The cloud
\* has values from before the boot.
ParamsInit ==
  /\ nvs = [p \in Names |-> 0] /\ value = [p \in Params |-> 0]
  /\ flags = [p \in Params |-> {}]
  /\ buf = Nothing /\ topic = "none"
  /\ running = FALSE /\ listening = FALSE /\ initDone = FALSE
  /\ prog = [t \in Callers |-> <<>>] /\ mine = Nothing
  /\ freed = {} /\ unstored = {}
  /\ cloud = [p \in Params |-> Before] /\ alert = FALSE /\ missed = {}
  /\ updates = 0 /\ failures = 0

ParamsNext ==
  \/ AppUpdate \/ AppNotify \/ AppAlert \/ CloudSets \/ ScheduleSets \/ InitParams
  \/ \E t \in Callers : TaskStep(t)

-----------------------------------------------------------------------------
(* Properties *)

Quiet == \A t \in Callers : Idle(t)

ParamsTypeOK ==
  /\ value \in [Params -> Values] /\ cloud \in [Params -> Values \cup {Before}] 
  /\ nvs \in [Names -> Values \cup {Junk}] /\ freed \subseteq Callers /\ unstored \subseteq Names
  /\ flags \in [Params -> SUBSET {Change, Notify}]
  /\ DOMAIN buf \subseteq Params /\ DOMAIN mine \subseteq Params
  /\ topic \in {"none", "local", "alert", "init"}
  /\ {running, listening, initDone, alert} \subseteq BOOLEAN
  /\ initDone => listening
  /\ \A t \in Callers : \A i \in DOMAIN prog[t] : prog[t][i].op \in Ops
  /\ missed \subseteq Params \cup {"alert"}
  /\ updates \in 0..MaxUpdates /\ failures \in 0..MaxFailures

\* "Calling this API will update the parameter and report it to ESP RainMaker
\* cloud": when no call is under way, the cloud has the value of every
\* parameter, also of those that changed while the node was starting or was
\* off, and an alert has been told.  It is missed in four cases only: the
\* parameter was flagged while another task was about to reset the flags, two
\* reports crossed in the shared buffer or topic, an older answer to a command
\* came after a report, or the message was refused.
CloudHasValues ==
  Quiet /\ initDone =>
    /\ \A p \in Params : cloud[p] = value[p] \/ p \in missed
    /\ alert => "alert" \in missed

\* When no call is under way, NVS has the value of each parameter that persists,
\* whichever of the tasks that set it stored last.  It need not in two cases only:
\* the last to store had read the pointer to a string that another task freed
\* before NVS came to read it, or the last to store failed, which the code ignores.
StoredIsCurrent == Quiet => \A p \in Names : nvs[p] = value[p] \/ p \in unstored
=============================================================================
