# Smart home system: a TLA+ verification

The repository is the firmware of an indoor fire suppression node on an ESP32-C3:
a small application (`src/main`) on top of the ESP RainMaker agent
(`src/components/esp_rainmaker`), which connects it to a cloud over MQTT. This
directory holds TLA+ modules translated from that code, the TLC configurations that
check them on small instances, and proofs, checked by TLAPS, of the properties that
hold for every value of the constants.

    tlc -workers 2 -config FireLive.cfg MCFireLive      # one run, see "Runs"
    tlapm MqttOtaProofs.tla                             # one module of proofs

Paths below are relative to `src/`; `core/`, `mqtt/` and `ota/` stand for
`components/esp_rainmaker/src/core/` and so on, with `esp_rmaker_` left out of the file
names (`ota/mqtt_ota.c` is `.../ota/esp_rmaker_mqtt_ota.c`).


## 1. The system and its components

Everything runs on one core under FreeRTOS, in tasks of fixed priority:

| task | priority | what it runs |
|---|---|---|
| event loop | 20 | handlers of MQTT and RainMaker events (PUBACK, connected, mapping done) |
| MQTT client | 5 | callbacks of subscriptions: parameter writes, OTA jobs, blocks of an image |
| work queue | 5 | `esp_rmaker_task` first, then queued jobs one after the other |
| sensor | 5 | reads the DHT11 every 10 s and queues the reading |
| controller | 4 | acts on readings: air conditioner, alarm, display, reports |
| button | 3 | polls the emergency button, toggles the emergency |
| timer | 1 | callbacks of software timers: fetches, timeouts, retries, revival of the budget |

The parts interact by direct calls, by globals without locks, by the event loop, by the
work queue, by timers, and through flash (NVS) across reboots. Almost every hard
behaviour comes from there: a handler is preempted between two assignments, a check is
made long before the value is used, an acknowledgement meets a later request, a queue is
full, a timer has expired just before it was stopped.

| component | state it keeps | operations | hard behaviour | what makes it correct | model |
|---|---|---|---|---|---|
| **Fire control** `main/app_main.c`, `app_driver.c` | `emergency_state`, one flag and one pin per actuator, automatic flags, sensor queue | read, control, toggle, write callback, activate, deactivate | three tasks and the cloud drive the same pins without a lock | pins, flags, parameters and emergency agree; heat raises the alarm; the air conditioner is off in an emergency | `FireControl`, `FireHistory` |
| **MQTT publish path and budget** `mqtt/mqtt.c`, `mqtt_budget.c` | credits, lock, revive timer | publish, revive, connect, init, deinit | check and charge are separate; both give up on the lock | a bounded number of messages per credit | `MqttBudget` and two more |
| **OTA fetch over topics** `ota/ota_using_topics.c` | expected message id, fetch in progress, handler, timeout timer | fetch, PUBACK, timeout, retry, autofetch | the PUBACK preempts the fetch at any line; stopped timers still fire | never stuck, retries neither multiply nor die out | `OtaFetch` |
| **MQTT OTA download** `ota/mqtt_ota.c`, `ota.c` | window, bitmap, counters, event bits, flash, attempts | begin, header, request, wait, store, end | bits do not count; late, lost and repeated blocks; two tasks on one handle | only a whole image is booted; the download ends | `MqttOta` |
| **User-node mapping** `core/user_mapping.c` | request, state, user id in NVS, retry state | start, send, PUBACK, retry, boot | replaced requests, full queue, reboot between sending and PUBACK | the stored user is the cloud's; a request is pursued | `UserMapping` |
| **Core task** `core/core.c` | node state, wait bits, handlers | init, start, task, stop, deinit | errors half-way, outcomes that come in another order | no event is waited for after it has passed; credentials belong together; parameters are listened for once the mapping is known | `Node` up to the first report, `UserMapping` after it |
| **OTA workflow** `ota/ota.c`, `ota_using_topics.c`, `https_ota.c` | job, job id and flag in NVS, the two partitions, validation timer | job arrives, report, attempt, reboot, validate, roll back | power fails anywhere; jobs repeat; the timer races the validation | the way back stays open; the cloud is told what the node keeps | `OtaWorkflow` |
| **Parameters** `core/param.c`, `device.c` | values, change flags, shared report buffer and topic | set, update, report, notify, alert, restore | one static buffer, one topic and one set of flags for all reporting tasks | what is set is reported and kept | `ParamReport` |
| **Command response** `core/cmd_resp_manager.c`, `param_cmd_resp.c` | subscription, reconnect handler | enable, command, respond | reconnects; commands share the flags with reports | a waiting command is asked for | `CmdResp`, with `ParamReport` |
| **Schedules** `core/schedule.c` | list and its copy in NVS, next index, timers, wait for the clock | add, edit, remove, enable, disable, trigger | triggers and the clock cross requests; freed schedules; full queue; reboots | an enabled schedule is armed and stored, it runs once, and its own action | `Schedules`, in `Automation` |
| **Scenes** `core/scenes.c` | list and its copy in NVS | add, edit, remove, activate, several in one request | a schedule's action and a request in two tasks | the list is stored | `Scenes`, in `Automation` |
| **Claiming** `core/claim.c`, `client_data.c` | key, CSR, certificate, claim state, claim data | self and assisted claiming | a phone that repeats, aborts or comes back; power cuts between two writes; memory shared by two tasks | the certificate belongs to the key and the node id | `Claim`, in `Node` |
| **Local control** `core/local_ctrl.c` | service, kept name, handler | enable, disable, provisioning starts and ends | the end of provisioning races the call that waits for it | what is wanted runs, once provisioning is over | `LocalControl`, in `Node` |

**Not modelled**, being without state over time, or external: OTA over parameters (the
application enables OTA over topics), challenge response and node authentication
(signatures), the node and device registry and the standard types (lists that one task
builds before the node starts), time and system services (they hand requests to an
external library), credentials and client data but for what `Claim` reads of them (one
HTTP exchange, fuses), the Thread border router (not built for this chip), the console
(each command calls one function of another component) and the generated protobuf code.
Of the modelled components the following is left out: time series, the report of node
details, the text of reports, an update refused for want of memory (`param.c:748`) and a
subscription to requests that fails, which ends the start of reporting (`:1040`); the reads
of a string that `param_update` frees, but for storing; the computation of the next time of a schedule, which
is an external library; key, CSR and certificate as data (`claim.c`); the proof of
possession that local control stores, its calls to read and write properties (which are
those of `ParamReport`) and the Thread service record.


## 2. Modules

| module | is about |
|---|---|
| `FireControl` | the application |
| `FireHistory` | `FireControl` with history variables: have handlers overlapped, has the cloud written a device |
| `MqttBudget` | publish path and credits |
| `TokenBucket` | abstract specification of a message budget |
| `MqttBudgetSingle` | refinement mapping from `MqttBudget` to `TokenBucket` |
| `OtaFetch` | asking for an OTA job |
| `OtaWorkflow` | an OTA job from its arrival to the validation or rollback of its image |
| `MqttOta` | downloading an image, all attempts |
| `UserMapping` | associating the node with a user, with the core task that waits for it |
| `Schedules`, `Scenes` | the two kinds of automation |
| `Automation` | both on one node: a schedule activates a scene, a reboot takes the memory of both |
| `ParamReport` | values of parameters, their flags, and reports |
| `CmdResp` | `ParamReport` with commands and the connection |
| `Claim`, `LocalControl` | claiming; the local HTTP service |
| `Node` | both on a node from power on to its first report, with the core task |
| `MessageProofs`, `FireControlProofs`, `OtaFetchProofs`, `MqttOtaProofs`, `OtaWorkflowProofs`, `UserMappingProofs`, `AutomationProofs`, `NodeProofs` | theorems and proofs |
| `MC...` | constants for TLC |

Every module says at its head which source files it translates. Actions carry the names
of the functions or of the branches they stand for. Operators marked `Mutant:` are
plausible mistakes (a dropped guard, a missing reset, a swapped order); each property has
one that breaks it, and none of them is part of a specification.

### FireControl

A running handler is the list of shared-memory operations it has left (`todo`): each
assignment to a flag, each GPIO write and each parameter report of
`activate_emergency`, `deactivate_emergency` and `write_cb` is one step. Whether a task
may take a step depends on the priorities: a task runs only while all tasks of higher
priority are blocked (`MayRun`), and a handler blocks only in a report, which takes the
locks of heap, MQTT client and socket. So the controller interrupts the button task
anywhere, but never the other way round between the controller's test of
`emergency_state` and its switch-on of the air conditioner. The variables are the
program's globals, `level` the GPIO outputs, `reported` the "Power" parameters and the
last push notification. `Humidity` is not modelled: nothing depends on it.

### MqttBudget

Each publishing task is idle, about to hand over, or about to charge (`pc`). A section
under `mqtt_budget_lock` is one step; giving up on the lock after 500 ms, or finding no
lock, is a step of its own (`CheckWaived`, `ChargeWaived`), since the check then lets
the message pass and the charge is skipped. `sent`, `granted` and `waived` are history.

### OtaFetch

The timer task is in one callback at a time (`pc`); the PUBACK handler (`Dispatch`) may
run between any two of its steps and shares `g_ota_fetch_state` with it. A timer that
the handler stops is only `stopping`: until the timer task reaches the command, the
timer may turn out to have expired, and its callback runs. `xTimerStart` with the NULL
handle that the handler may leave behind is an assertion of FreeRTOS, hence a reboot
(`StartNull`). `ota_fetch_schedule_retry` is one step: the handler that could run inside
it has already been unregistered, or has nothing to match.

### MqttOta

The work queue task's actions are the branches of `esp_rmaker_ota_retry_loop`,
`esp_rmaker_ota_use_mqtt`, `esp_mqtt_ota_perform` and `esp_rmaker_mqtt_fetch_file`; the
client task's are those of `stream_data_cb` and `error_cb`. The callback takes three
steps to store a block (clear its bit, count it down, write it and set the event bit),
and the task may run between them. `net` is the set of answers on their way; nothing
orders them, any may be lost, `MaxRepeats` of them come twice, and since the topics do
not change they may meet a later request or a later attempt. `complete` in `CheckWindow`
is chosen freely where `_received_complete_response` reads past the bitmap.

The image on the server is the right one for this node. A callback that is running keeps the client's
lock, so that the unsubscription in `End` waits for it: this is how the external client
works. When `esp_mqtt_ota_begin` fails after it has subscribed, the handle is freed under
the subscribed callbacks; `BeginFails` stands for the failures before. Downloading over
MQTT is an option of `Kconfig.projbuild`; the default is HTTPS.

### OtaWorkflow

A job goes through the MQTT client's task (`JobAccepted` to `QueueJob`, `MessageGarbled` and
`JobDropped` are `ota_url_handler`: `ota_in_progress` is set, the id goes to NVS, and then to
`transient_priv`), the work queue (`esp_rmaker_ota_common_cb` with the branches of
`esp_rmaker_ota_retry_loop`), a reboot, the event loop (`MarkValid` to `FetchNext` are
`esp_rmaker_ota_mark_valid`, step by step) and the timer task. The report of a validation
reads the id from NVS, sends it, and erases what NVS then has (`ReportValid`, `ReportFound`);
a message may arrive in between. Each write to NVS may fail, and as the code ignores this for
the job id, the job goes on. `unnamed` is history: NVS may not have the id of the job in hand,
since it was not taken or has been erased. Of a status the cloud gets, `last` keeps whether it
leaves the job open, in progress or over. An image goes by the name
of its job; `running` and `spare` are the two partitions, `status` is what the bootloader
knows of the running one. `Boot`, `Swap` and `RollBack` are the external bootloader and
`esp_ota_*`, as the code relies on them: an image in its first run is left at the next
reboot unless confirmed. `PowerCut` is enabled in every state and leaves partitions and
NVS only. An attempt is a header, an erasure and a write, each of which may fail; what
happens inside is in `MqttOta`, or in the external `esp_https_ota`. `Postpone` chooses
freely what `esp_rmaker_ota_handle_time` computes.

`mishaps` counts calls that fail, `crossed` says that a step met one it should not meet: a
job that comes before the reboot of the last one or before its success is reported, a
power cut between two steps that record a success, a rollback timer that finds the image
validated. Each of these breaks a report, and the properties name them as exceptions; all
of them are explored, and the properties without exceptions hold in spite of them. The
configuration (`rollback`) is chosen initially. Not modelled: jobs over parameters and
the option that leaves the reboot to the application.

### UserMapping

Sections under `esp_rmaker_user_mapping_lock` are one step unless something that needs
no lock may run inside, which is the case of `esp_rmaker_start_user_node_mapping` with a
full work queue (`StartFull`, `StartRegister`). `retry` is
`g_user_mapping_retry_state`, which has no lock, and `timerTask` says where its callback
is. The core task (`core`) is modelled from the connection on. `Received` is the cloud,
`Reboot` loses everything but NVS. `mishaps` and `crossed` are history: they say which
failures happened and how two mappings got in each other's way, so that properties can
name exactly what breaks them. Not modelled: a request retransmitted by the MQTT client
and received twice. Clearing NVS in a factory reset is left to the reboot that follows.
A write to NVS counts at once, although the commit comes a call later.

### Schedules, Scenes and Automation

Requests are handled in the MQTT task (`"cloud"`), triggers, the end of the wait for the
clock and the actions of schedules in the work queue task (`"work"`), timers in the timer
task; nothing is locked. `at` says for each of the two tasks where it is in
`operation_enable`, `report_params` or the sync loop, by the index of the schedule it
holds. `Freed` says that the other task has removed that schedule since: a read of it has
any outcome and a write is lost. A request is one of `Add`, `Edit`, `Remove`, `Enable`,
`Disable` and `Reject`, followed by steps that both tasks share. The work queue is bounded
and `Post` drops a job that does not fit, as the callers ignore the result. A schedule is
of one of two kinds, one that fires once and one that repeats until its last month is
over; the times are none, future and past. `Boot` restores the list from NVS, after
a time in which any schedule may have become due, with or without the time of day. The
library that computes times and runs the timers is external: `Fire` is what the code
relies on.

A request to `Scenes` is a sequence of objects, which `parse_json` and `write_cb` handle
one after the other; `handler` is what a task has left of it. The action of a scene is told
apart by a version only, since nothing reads it but its activation, which is a request for
parameters. `Automation` runs both with one reboot action; `TriggerActed` waits for the
request that the action of a schedule is. `replay`, `lost`, `stale`, `overlap`, `dangling`
and `masked` are history: they name what a property excepts, and nothing else reads them.

### ParamReport and CmdResp

A call is the sequence of the steps it has left (`prog`), for three tasks: the application,
the MQTT task and the work queue task. `Update`, `Report`, `UpdateAndNotify`, `Write` and
`SetParams` build that sequence from the order of statements in the functions of these
names. A request with several parameters is one step `write`, and `WriteNext` takes one of
them at a time, in any order, as the loop of `esp_rmaker_default_bulk_write_cb` does in the
order of the device. Each other step (set the value, set a flag, store, look at the state, fill the buffer,
reset the flags, set the topic, send) touches what is shared once. Storing takes two: `Store`
reads the pointer to the string and its length, `Put` is `nvs_set_blob`, which copies the
string when it has the lock of NVS. `freed` are the tasks between the two whose string another
task has replaced, and hence freed, since: they store anything. A `Put` may also fail, unnoticed.
`unstored` is history: the parameters whose last store was one of these. A buffer that two tasks
fill at once may hold nothing that can be read. `cloud` is what the cloud knows, `missed`
is history: the parameters for which something happened that `CloudHasValues` excepts.
`CmdResp` adds the subscription, made once, the empty response after every connection, either of
which may fail (`unheard`: the last check on a connection did), and commands, which write like requests and answer from a buffer of their own, but
with the same flags. The framework that parses commands is external.

### Claim, LocalControl and Node

`Node` is `app_main` (`AppInit`, `AppStart`, `AppNetwork`, `Deinit`), `esp_rmaker_task` as
the first job of the work queue (`task` says where it is), the event loop with the events
in their order, and an environment that provisions, connects, loses the link and cuts the
power (`Reboot`). `Claim` has the key, random bytes and CSR that initialisation makes, each
write to NVS one step, the two requests of self claiming in the core task, and every
command of a phone in the task of the transport, in fragments where the code has
fragments; the phone may repeat, abort or go away at any time. The node id that comes with the
cloud's answer goes to NVS and to the core, and either may fail unnoticed (`ChangeNodeId`);
`parted` is history: only one of the two has taken it. A certificate carries the
key and the node id it was issued for, which is all that is needed of the cryptography.
`memory` and `pointer` are apart: the claim data may be freed while the core still points
to them. `LocalControl` is the call that enables it, in two steps around the look at
`wait_for_provisioning`, and the event handler that races it. The firmware's `method` of
claiming is chosen initially; the configuration default is self claiming. Local control, an
option whose default is off, is on in the model.


## 3. Runs

Each passing run has completed with the bounds of its `.cfg`.

| run | cfg | distinct states | what it shows |
|---|---|---|---|
| `budget` | `MqttBudget.cfg` | 7,792 | three tasks at once, lock timeouts, reconnects, deinit: messages are bounded by tasks times credits (`RateBound`) |
| `budget_single` | `MqttBudgetSingle.cfg` | 228 | one task and every lock obtained: the publish path is a token bucket, which drops messages when it is empty (`ImplementsTokenBucket`) |
| `fire_live` | `FireLive.cfg` | 101,205 | sensor, controller and button by priority, no cloud writes: the air conditioner is off in an emergency, heat raises the alarm however often the button cancels it, an automatic alarm ends after cooling |
| `fire_serial` | `FireSerial.cfg` | 682,803 | with every cloud write: as long as no two handlers overlapped, pins, flags and parameters agree at rest, and the fire actuators follow the emergency |
| `fire_race` | `FireRace.cfg` | violated | `EmergencyRunsActuators` |
| `ota_fetch` | `OtaFetch.cfg` | 207,538 | never stuck with `fetch_in_progress` and no timer, no more attempts than occasions, the request gets out |
| `mqtt_ota` | `MqttOta.cfg` | 679,076 | two attempts at an image of three blocks: only a whole image is booted, no block is skipped or written twice, the download ends |
| `ota_workflow` | `OtaWorkflow.cfg` | 1,016,310 | both rollback configurations, two jobs, one unasked or repeated, two attempts, a power cut and a failure anywhere: there is an image to go back to until the new one is validated, one job at a time and under its own id, the image the node keeps is the one reported, a rollback is reported only for an image that does not run, a job in progress gets its final report |
| `user_mapping` | `UserMapping.cfg` | 1,336,302 | two users and a factory reset in turn, one kind of failure, a reboot: the stored user is the cloud's, an unsent request is pursued, the node comes to listen for parameters |
| `automation` | `Automation.cfg` | 1,472,344 | two requests to a node with a schedule that activates a scene, while timers fire, the clock gets set, the queue overflows and the node reboots: what is in memory is in NVS, an enabled schedule has a timer, one that runs once does, a trigger never runs another schedule's action |
| `reports` | `Reports.cfg` | 1,644,855 | updates, alerts and notifications cross requests, commands and schedules in three tasks, with a failing call and a lost connection: the cloud misses a value only where reports cross, NVS has the last value unless its store failed or read a freed string, a waiting command is asked for unless asking failed |
| `node` | `Node.cfg` | 3,048,919 | from power on to the first report, without claiming, with self claiming and with a phone, through two failures, a power cut anywhere and a lost link: the certificate belongs to the key, and to the node id unless only one of NVS and memory has taken that, no event is waited for in vain, claim data are freed once, local control comes up |

**Bounds.** `budget`: three tasks are one more than a race needs; two credits with a
capacity of three reach zero, the cap and the clamp; four revivals let the counter go
through its range twice. `fire_*`: readings below, between and above the thresholds
(each threshold is met exactly by a reading); a queue of one, since a longer one only
delays; one actuator for the liveness properties, two where their relative order counts,
one of them driven first and one last. `ota_fetch`: three occasions to fetch, so that a
fetch, an autofetch and a delayed fetch coincide; three timers, so that a stale one, a
stopped one and a new one coexist; one failure anywhere. `mqtt_ota`: a window of two
over three blocks gives a full window, a short one and, after the last block, an empty
one; the last block is short enough to pass for a header, and long blocks are not; a
byte of two bits makes the bitmap end one past the last block, so that a window can
reach past it; two attempts let answers cross from one to the next. `user_mapping`: two
starts besides the reset of the core task give every pair of replaced and replacing
mapping; two retries reach the limit; one reboot separates sending from the PUBACK.
`ota_workflow`: the two jobs, one fetched and one (or the same again) unasked, make every
overlap of a job with the end of another; two attempts give a failed one and a last one;
one power cut and one failing call, each anywhere, among them each write to NVS. The
invariants also held with two failures, and with two unasked jobs; liveness takes too long
there.
`automation`: two schedules, which may take each other's place and index, and one scene;
two requests after the boot, so that the second finds what the first left, or crosses it in
the work queue task; a queue of one overflows as soon as two timers fire; room
for one scene, so that a second object of the same request meets a full list; one reboot.
The node starts with a schedule from earlier, so that a trigger, the clock and a request
can meet at once. `reports`: a name, which persists, and a power, which does not; two calls
besides what starts the reporting, which is every pair of tasks at once; one failing call (a
refused message, a subscription, a write to NVS) anywhere, and one connection that is lost
while a command waits (`IdleDrops = FALSE`: a loss before that only changes when the command
comes to wait; with `IdleDrops = TRUE` the properties hold as well, on twice the states).
`node`: two node ids, so that a phone that claims again may change it; certificates in two
fragments; a phone that comes twice; two failures of different kinds, since the second meets
what the first left; one power cut.
Schedule ids and node ids are symmetric: nothing compares them but for equality.

Deadlock is checked except in `UserMapping`, where a node that has been mapped and has
used up its starts and its reboot has nothing left to do, in `OtaWorkflow`, where a node
with no job left waits for one, and in `automation`, `reports` and `node`, which come to
rest when the requests, updates and failures of their bounds are used up. The
properties of these three are about that rest, or about every state: what is under way
ends by itself, as no task in them waits for another but through the events that
`NeverStranded`, `CommandPursued` and `LocalControlPursued` are about, so they
assume no fairness.

**Fairness.** `FireControl`: the sensor task wakes every 10 s and the DHT11 answers now
and then; the controller and the button task are kept off the CPU by higher priorities
again and again, but what preempts them blocks infinitely often, hence strong fairness.
`OtaFetch`: timers expire, the timer task finishes its callbacks, the event loop delivers
what was posted; nothing is assumed of the network but in the premise of
`RequestGoesOut`. `MqttOta`: the work queue task runs and a callback that has begun ends;
no answer need arrive. A task that asks for empty windows again and again spends one
credit of the message budget per request and gets one back per 5 s, so that its
publish fails in the end (strong fairness of that failure, for empty windows only).
`UserMapping`: tasks run, timers expire, and a connected broker answers. `OtaWorkflow`:
the work queue, the validation and the handler of a message go on, the requested reboot
happens, the rollback timer expires; no job, no connection and no validation need come.

### What the violated run found

`fire_race`. The button task starts to deactivate, clears `emergency_state` and is
preempted; the controller finds no emergency and a reading at the threshold and
activates; the button task goes on to switch the actuators off (`app_main.c:210`).
The emergency is on, sprinklers and fan are off, and no later reading repairs it.

### Seen while modelling

The models contain what follows, where they do not say otherwise, and the properties that
it would break name it as an exception.

*Budget, application, OTA, mapping.* Two tasks that publish at once both pass the check on
the last credit, so a message goes out on an empty budget, although
`Kconfig.projbuild:122` says it is dropped. `auto_alarm_active` survives an alarm
cancelled by hand, so that the controller later cancels an alarm raised by hand
(`app_main.c:183`). The header of an image that arrives after the transfer has started is
stored as a short block 0 and the lengths can never agree (`mqtt_ota.c:402`, `:768`): that
attempt spins on empty windows until a publish fails. A window sized between the two lines
in which the callback clears a bit and counts the block may reach past the image
(`mqtt_ota.c:500`). The retry delay of a fetch does not grow as the comments at
`ota_using_topics.c:472` and `:506` say, since every attempt resets `retry_count` (`:503`,
`:405`). When MQTT connects between the check of the connection and the registration for
its event (`user_mapping.c:367`, `:373`), a mapping request waits for an event that has
passed (`"missed"` in `RequestPursued`). The rollback timer that expires while `CONNECTED`
validates the image goes back from an image reported as a success (`ota.c:539`, `:501`). A
power cut between the two writes of `esp_rmaker_ota_mark_valid` (`:517`, `:518`) makes the
next boot report a rollback that did not happen. A job that arrives after
`ota_in_progress` is cleared (`:519`) and before the success is reported takes the report
for itself. The report of a rollback is lost when the node reboots before it is connected
(`:620`). `FAILED` is reported after each attempt (`:230`), though `esp_rmaker_ota.h:50`
wants it once, and the job is fetched again although the comment at `ota.c:361` has the
cloud never give it again. A message without job id is reported as the failure of the job
NVS names. Whether NVS takes the id of a job is not looked at (`ota_using_topics.c:259-263`),
and the report of a validation that is under way then may erase it again (`:142`, before
`transient_priv` at `:265` names the new job): after the reboot that job is reported under an
older id or not at all (`unnamed` in `OneJobAtATime`). An answer to an attempt that has timed out ends the next attempt's wait for the
header, which is still zeroed, and the image is rejected for good (`mqtt_ota.c:396`).
Without rollback support the node reports success and reboots ten seconds later, but
`ota_in_progress` is cleared at once (`ota_using_topics.c:206`): a job that comes in between
erases the new image, and the node boots the old one. The PUBACK of a reset stores
`esp-rmaker` as a user id (`user_mapping.c:206`), and the next boot takes the mapping for
done (`:489`). The GPIO table of `README.md` is not that of `app_driver.c:6-10`.

*Schedules and scenes.* A request to disable a schedule that crosses the loop over the list
after the clock was set is undone by it (`schedule.c:434`, `:482`), and a schedule that runs
once then runs again (`replay` and `overlap` in `OneShotOnce`). One that crosses a trigger
leaves a schedule armed that is shown as off. A schedule removed while its action runs is
used after it was freed; the comment at `schedule.c:399` has indices guard against this, and
they do so only up to the look-up. A schedule that has expired while the node was off is
disabled at boot but not reported, as the service does not exist yet, so that NVS and cloud
go on to show it as enabled (`stale`). A one-shot accepted before the clock is set is stored
without its time, and fires again after a reboot. Triggers and the job that ends the
wait for the clock are lost when the work queue is full (`:321`, `:478`). A schedule refused
because the list is full leaks and uses up an index. In `scenes.c:406-411` every object of
a request decides anew whether the scenes are reported: after one that ends with an
activation the changes before it are in memory only (`masked`), against the comment at
`:513`. The action of a scene may be freed by one task while the other is using it (not
modelled).

*Parameters and commands.* Tasks that report at once share buffer, topic and flags without
a lock: a value may be lost until it changes again (`param.c:150-166`, `:259-276`), a report
may go out under the topic of an alert, and an alert under that of a report. A message that
is refused, for instance on an empty budget, is not tried again, and its flags are reset
already (`:276`). A command's response may take the flags of a change of the application's
own, and a write callback that reports for itself leaves only the name to the response. A
report of all parameters filled before a response and sent after it takes the cloud
back to the old value. The old value of a string is freed by `param_update` (`:751`) while
another task may be about to store it, whose `nvs_set_blob` (`:506`) then copies anything; when
that is the last to store, the next boot finds it. A store that fails is not noticed (`:767`). A
report may read a freed string too (not modelled). A subscription or an empty response that
fails while connected is tried again only at the next connection
(`cmd_resp_manager.c:109-121`). The buffer of a command's output is static
in `param_cmd_resp.c:141` while `cmd_resp_manager.c:74` frees it, unless the external
framework copies it.

*Node.* After a failed verification in self claiming the claim data are freed and the core
keeps its pointer, so that de-initialising the node frees them again (`claim.c:495`,
`core.c:336`), and likewise after failed assisted claiming; they are also freed while the
phone's endpoint is registered (`claim.c:970`). A verification that completes before the
core task waits for it is not noticed (`:729`). A phone that starts again after the
certificate was stored changes the node id under it. Whether NVS and the core take the node id
is not looked at (`:549-550`): when only one of them does, the certificate that is stored names an id
that the other does not have (`parted` in `CredentialsMatch`). A station that is associated
but has no address passes the check for Wi-Fi (`core.c:481`); the self claim then fails, and
the task ends for good: nothing starts it again before a reboot (`:620`). An error while the
link is down for a moment leaves the MQTT client running. Local control never comes up when
provisioning ends between `local_ctrl.c:542` and `:547`, or when it was turned off during
provisioning. `esp_rmaker_stop` asks for a state that nothing resets, so that de-initialising
is refused for good (`core.c:358`, `:813`). Claim initialisation waits for ever for a
task that returned because memory ran out (`claim.c:896`; not modelled).


## 4. Theorems

All are proved from the specification and the module's `ASSUME`, for every value of the
constants. TLC has checked each inductive invariant, or its parts, first.

* **`BudgetTypeOK`, `BudgetCreditInv`, `BudgetRateBound`** (`MessageProofs`). The
  bound alone is not inductive: a message that is handed over is charged only later. The
  invariant `CreditInv` counts the tasks in between. With no credit left even those that
  have passed the check are paid for; with credits left only those waiting to be charged
  are in excess. The one hard step is the charge of the last credit, when the first case
  turns into the second: there are at most as many tasks under way as one credit covers.
* **`SingleImplementsTokenBucket`**. With one task and no lock timeout each step is a
  step of `TokenBucket` or a stutter, where a token is taken when the client accepts the
  message and the uncharged message is taken off the budget.
* **`FireTypeOK`, `EmergencyAcOff`** (`FireControlProofs`). For any list of actuators.
  `AcInv` is about what the handlers have left: a pending switch-on of the air
  conditioner belongs to the controller and excludes an emergency; if the air conditioner
  runs in an emergency, some handler is still going to switch it off. Lemmas about the
  shape of handlers (drives first, reports last) carry it. It holds of `LocalSpec`: a
  cloud write may switch the air conditioner on in an emergency at any time.
* **`AgreeWithoutOverlap`, `ActuatorsFollowWithoutOverlap`**. Of `HSpec`, with every cloud
  write. Without an overlap at most one handler is under way, so the invariant says of each
  device what the steps that handler still has to take will make of its pin, its flag and
  its report: the last drive, the last flag and the last report of a call agree, and for the
  fire actuators they agree with the emergency the handler is about to leave.
* **`FetchTypeOK`, `FetchNeverStuck`, `FetchOneAttemptEach`** (`OtaFetchProofs`). Both
  properties say little about a callback half-way, so `OwnerInv` says who ends the fetch:
  between callbacks the timer in `cur` is running, and the timeout has taken the flag away.
  `OneAttemptEach` bounds `pending` as well, so the types rest on it. Its lemmas count the timers
  that may still expire: a clean-up arms none, an expiry takes one away, a start adds at
  most one, for any finite set of timers and any number of occasions.
* **`MqttOtaTypeOK`** (`MqttOtaProofs`). That `blocks_remaining` does not go below zero
  is a fact about the bitmap: `TypeInv` adds that the counter is the number of bits set,
  but for the block just taken, and that the callback runs only while subscribed.
* **`MqttOtaNothingSkipped`**. Inductive once the types are known; the case that matters
  is a window that is moved past the bitmap, where the test reads foreign memory.
* **`MqttOtaFlashWrittenOnce`**. From the invariant that in a running transfer every
  missing block is unwritten, that a block in the callback's hands is neither missing nor
  written, and that the callback is idle before the transfer starts, so that the erasure
  meets no block in flight.
* **`MqttOtaBootsWholeImage`**. The code compares the sum of the lengths it has written
  with the length of the image, and the prover has no induction to reason about sums. It
  needs none: the blocks are of two lengths, so what is owed is the number of unwritten
  ones times the block length, and the last one's. `LengthInv` says that what is written
  and what is owed never exceed the image, and fall short of it as soon as a block was
  stored shorter than it is (a late header that is taken for block 0); so the sum is right
  for the whole image only. `JudgeInv` carries this from the comparison to the boot
  partition: no callback can still be writing, as what it writes is owed.

* **`WorkflowTypeOK`, `WorkflowOneJobAtATime`, `WorkflowPreviousImageKept`**
  (`OtaWorkflowProofs`). That the way back stays open is not inductive: an erasure has to be
  excluded while the image awaits validation, hence no job may be in the queue then, hence
  `ota_in_progress` is set as soon as the node is up (`PendingInv`), and the validation,
  which clears it, must not clear it under a job (`MarkingInv`). One job at a time rests on
  `ArrivalInv`: a message whose job is not named yet has taken `ota_in_progress`, so that the work
  queue has nothing to do with another, and from then until the job ends its id is in NVS, unless
  it was not taken or a report of a validation that has read its id may erase it. The theorems
  hold for any number of jobs, attempts, power cuts and failures.
* **`WorkflowCommittedIsReported`, `WorkflowRolledBackIsTrue`**. Both are about runs without a
  mishap and without a job that crosses another, so the invariant `GoodInv` is conditional
  on that too. It says what is true at each stage of a job: on trial, the image that runs is
  that of the job in NVS, and the kept one is the last that was reported (`TrialInv`,
  `KeptInv`); the partition that is selected holds the job's image (`SelectedInv`); and the
  flags a boot leaves tell which of the two was booted (`FlagInv`). `StartInv` says what a
  start finds before it has looked at any of them.

* **`MappingTypeOK`, `MappingStoredUser`** (`UserMappingProofs`). The user is stored when
  the PUBACK comes, so the invariant has to say what a PUBACK proves: the id of a request
  is that of the last message on its way and of no earlier one, and once all have arrived
  the cloud knows its user (`LastInv`). Between two mappings a user in NVS is also the user of
  the request in place (`OneUserInv`), as a request for another one has erased NVS first;
  that is the fact that fails when NVS cannot be read. The theorems hold for
  any number of users, ids, retries, mappings, failures and reboots.
* **`MappingRequestPursued`**. That something is left to send an unsent request is inductive
  when two steps half-way are excepted (`PursuitInv`): while the timer callback is about to
  clean up, which deletes any timer, the timer does not count; and a start that registers
  for the connection does so before the connection is there.

* **`AutomationTriggerNames`** (`AutomationProofs`). A trigger names its schedule by an
  index. That it never means another one follows from `Indices` (an index in the list is
  given once and is below the next one) and `QueueInv` (so is that of each trigger in the
  queue, of a schedule of the list or of one that is gone). A reboot starts the indices
  anew, and empties the queue.
* **`AutomationUseAfterFree`**. From `OverlapInv`: a task that holds a schedule finds it in
  the list, or the two tasks have overlapped. The work queue task holds one from the moment
  it looks up the index, the MQTT task only while it handles one request.
* **`AutomationScenesStored`**. From `WorkInv` (the action of a schedule only activates,
  and hence never reports) and `CloudInv` (a request of the cloud that has changed scenes is
  going to report them, or its report has been taken back; what it is about to store
  is the list).
* **`AutomationTypes`**. The lists are changed by `SelectSeq`, `RemoveAt` and appending. What they
  keep is proved by lemmas that look at positions, without induction over sequences;
  `BaseInv` adds that ids are unique, and that the list is in the order of the indices.
* **`AutomationSchedulesStored`**. From `QuietInv`: while a request or a trigger is handled, what
  it is still going to write is the list, and between them nothing differs.
* **`AutomationEnabledIsArmed`**. From `OnInv` (of each schedule: whatever says that it is on
  has armed it, is going to, or waits for the clock) and `SyncInv` (the timer that waits for
  the clock is running until it has visited the list).
* **`AutomationOneShotOnce`**. From `SpentInv`: a schedule that has fired once is disabled or
  going to be disabled, in memory and in NVS, unless its time was not known when it was stored.
  The theorems about `Automation` hold for any number of schedules, scenes, requests and
  reboots, and any length of the queue. Their assumptions on constants only say that bounds
  are numbers, that the wait for the time of day is no schedule, and that the schedule's action
  names a scene.

* **`NodeTypeOK`, `NodeCredentials`, `NodeClaimData`** (`NodeProofs`). `ClaimInv` says for
  each place of the app, of `esp_rmaker_task` and of the phone what belongs to it. The
  certificate fits because what is signed does: the CSR in memory is for the key in NVS and for
  the node id, unless only one of NVS and memory has taken that (`KeyInv`), and what the phone has was made from it, until the phone starts over
  (`PhoneInv`). That claim data are not freed twice needs who still has the pointer
  (`StageInv`) and when a phone can find freed data (`OwnerInv`). That fragments stay in
  bounds needs `FragmentInv`: before the last one the state or the phone has moved on.
* **`NodeNotices`, `NodeLocalControl`**. The rest of `NodeInv`: while the task may wait for an
  event its handler is registered (`CoreInv`), and the event has been seen, is queued or is
  still to come (`NoticeInv`). Before the station is associated nothing past Wi-Fi has happened
  (`EarlyInv`), so that provisioning is over or seen to be running when local control looks
  (`WatchInv`). The theorems about `Node` hold for any node ids, fragments, firmwares,
  restarts, phones, failures and length of the event queue; `ClaimAssumption` only says that
  no node id is the absent one and that there is a fragment.

* **`ReportsTypes`, `ReportsCloudHasValues`, `ReportsStoredIsCurrent`,
  `ReportsCommandPursued`** (`MessageProofs`), all from `ReportsInvariant`. The invariant
  `ReportsInv` speaks of the steps a call has left. They follow each other as in the code
  (`Linked`: after a value its flag, after the flag the two steps of storing, after a filled buffer the
  reset, the topic and the message), and after every change comes a step that tells it
  (`Told`). Therefore a value that the cloud lacks is, once all have been reported (`Reported`),
  in one of four places: not flagged yet (`ToFlag`), flagged with a report to come and no
  reset under way (`ToTell`), in the buffer of the only report (`InBuffer`) or in that of the
  answer (`InMine`); otherwise it is in `missed`. What is in a buffer that is about to be
  published is right, or corrected by one of these (`ValuesInv`). NVS lacks a value only
  while a step is left that will store it, or when the last store failed or read a freed
  string (`StoreInv`): the task that sets a value stores after it, and the task that stores
  last stores the value as it is then, or a string that is no longer there. For commands `PursueInv`
  counts the events of the connection: while one waits, the request is still to come; once none does,
  it was made, or has failed. The proof splits
  each step into what it does to types, to the step lists and to the values, and
  lemmas about the first element and about joining of lists (`TailKeeps`, `JoinKeeps`) serve
  all of them. The theorems hold for any set of parameters and any number of changes,
  failing calls and lost connections; `ParamsAssumption` says that the parameters that
  persist are parameters, that the alert is none, and that two bounds are numbers,
  `DropsAssumption` that the third is and that `IdleDrops` is a truth value.

`BudgetTypeOK`, `BudgetCreditInv`, `FireTypeOK`, `MqttOtaTypeOK` and `WorkflowTypeOK` are
proved and no longer listed in a configuration: the proof says more than the run did.

Model-checked only: liveness, which is beyond the prover. Every safety property of the
passing runs is a theorem.

The proofs have corrected the models. A schedule that NVS has no time for keeps that
mark over further reboots until it is enabled again: with two reboots TLC found the run
the proof of `OneShotOnce` could not exclude. `RemoveScene` takes the first match only, as the
loop of the code does. What a boot restores was stated by overlapping cases. The answer
to a request for the header is no longer than the image, without which an image of
one block could be stored longer than it is. The parameters of a request were written in an
order fixed by a fold; any order is allowed now, which is more than the run had
and no more than devices can have.

## 5. Plan

The order was by what the node stands to lose: actuators first, then what can make it
unreachable or brick it, then what can be repaired from the cloud. All components with
state over time are modelled. What is left:

1. **`OtaWindow`**: the arithmetic of download windows and delays (`ota.c:282-380`),
   against a reference definition over all minutes of a coarse day, and the `int`
   overflow of `time * 1000` (`ota_using_topics.c:595`) at a reduced width. It would take the
   place of `fire_race`.
2. **`OtaJob`**, an abstract specification that `OtaWorkflow` implements: a job is reported
   as successful only if its image is kept.

Runs are kept few, one per question. Where a new module asks a more important question,
a run about a smaller disagreement gives way to it and its observation moves to the list
above.
