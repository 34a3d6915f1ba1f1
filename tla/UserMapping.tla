---------------------------- MODULE UserMapping -----------------------------
(***************************************************************************)
(* Associating the node with a user: the request, its retries, its PUBACK, *)
(* what is remembered in NVS, and the core task that waits for the outcome *)
(* before it listens for parameters.                                       *)
(*                                                                         *)
(*   src/components/esp_rainmaker/src/core/esp_rmaker_user_mapping.c       *)
(*   src/components/esp_rainmaker/src/core/esp_rmaker_core.c               *)
(*                                                                         *)
(* esp_rmaker_user_mapping_lock protects the request and the state; the    *)
(* retry state has no lock.  A section under the lock is one step unless   *)
(* something that needs no lock may run in it.  The work queue task runs   *)
(* esp_rmaker_task first and then the jobs in their order; PUBLISHED and   *)
(* CONNECTED are handled in the event loop task, a retry in the timer task *)
(* of priority 1, which any other task may preempt.                        *)
(***************************************************************************)
EXTENDS Naturals, Sequences, FiniteSets

CONSTANTS
  Users,           \* users that may claim the node
  ResetUser,       \* USER_RESET_ID
  MsgIds,          \* message ids of the MQTT client
  UserIdCheck,     \* CONFIG_ESP_RMAKER_USER_ID_CHECK
  ResetReporting,  \* CONFIG_ESP_RMAKER_FACTORY_RESET_REPORTING
  MaxRetries,      \* USER_MAPPING_MAX_RETRIES
  MaxStarts,       \* bound: mappings started by a user or a factory reset
  MaxRefused,      \* bound: jobs the work queue refuses because it is full
  MaxMishaps,      \* bound: kinds of failure in one behaviour
  MaxBoots         \* bound: reboots

NoUser == "no user"
NoId   == "no id"

ASSUME MappingAssumption ==
  /\ ResetUser \notin Users /\ NoUser \notin Users \cup {ResetUser}
  /\ NoId \notin MsgIds
  /\ UserIdCheck \in BOOLEAN /\ ResetReporting \in BOOLEAN
  /\ UserIdCheck => ResetReporting
  /\ MaxRetries \in Nat \ {0}
  /\ MaxStarts \in Nat /\ MaxRefused \in Nat /\ MaxMishaps \in Nat /\ MaxBoots \in Nat

VARIABLES
  state,      \* rmaker_user_mapping_state
  request,    \* rmaker_user_mapping_data
  nvs,        \* the user id in NVS
  handler,    \* the PUBLISHED handler is registered
  onConnect,  \* the CONNECTED handler is registered
  starting,   \* where esp_rmaker_start_user_node_mapping is, holding the lock
  retry,      \* g_user_mapping_retry_state
  stale,      \* deleted retry timers that may still have expired before
  timerTask,  \* where the timer task is in user_mapping_retry_timer_cb
  core,       \* where esp_rmaker_task is, or which outcome it has asked for
  params,     \* esp_rmaker_params_mqtt_init has run
  jobs,       \* work queue, after esp_rmaker_task
  conn,       \* mqtt_connected
  flight,     \* requests on their way to the cloud
  events,     \* PUBACKs waiting in the event loop
  cloud,      \* the user of the last request the cloud received
  mishaps,    \* history: kinds of failure so far
  crossed,    \* history: ways two mappings got in each other's way
  starts, refused, boots   \* history: for the bounds

mapping == <<state, request, nvs, handler>>
retries == <<retry, stale>>
node    == <<core, params>>
network == <<flight, events, cloud>>
counts  == <<starts, refused, boots>>
vars == <<mapping, onConnect, starting, retries, timerTask, node, jobs, conn, network,
          mishaps, crossed, counts>>

-----------------------------------------------------------------------------
AllUsers == Users \cup {ResetUser}

NoRequest == [user |-> NoUser, id |-> NoId, sent |-> FALSE]
NoRetry   == [count |-> 0, busy |-> FALSE, timer |-> "none"]

Unsent == request # NoRequest /\ ~request.sent

Locked == starting # "idle"

Mishap(kind) == mishaps' = mishaps \cup {kind} /\ Cardinality(mishaps') <= MaxMishaps

\* esp_rmaker_work_queue_add_task succeeds, or finds the queue full.
Queued(job) == jobs' = Append(jobs, job) /\ UNCHANGED refused
Refused == refused < MaxRefused /\ refused' = refused + 1 /\ UNCHANGED jobs

\* user_mapping_retry_cleanup.  A timer that is running when it is deleted may
\* have expired by then.
CleanRetry ==
  /\ retry' = NoRetry
  /\ stale' = IF retry.timer = "running" THEN stale + 1 ELSE stale

\* Mutant: retries without a limit.
ScheduleForever ==
  LET n == retry.count + 1 IN
    \/ /\ retry.busy
       /\ retry' = [retry EXCEPT !.count = n]
       /\ UNCHANGED <<stale, mishaps>>
    \/ /\ ~retry.busy
       /\ retry' = [count |-> n, busy |-> TRUE, timer |-> "running"]
       /\ UNCHANGED <<stale, mishaps>>

\* user_mapping_schedule_retry: give up, leave the retry that is under way, or
\* start a new timer, which may fail.
ScheduleRetry ==
  LET n == retry.count + 1 IN
    \/ n > MaxRetries /\ CleanRetry /\ mishaps' = mishaps \cup {"gave up"}
    \/ /\ n <= MaxRetries /\ retry.busy
       /\ retry' = [retry EXCEPT !.count = n]
       /\ UNCHANGED <<stale, mishaps>>
    \/ /\ n <= MaxRetries /\ ~retry.busy
       /\ retry' = [count |-> n, busy |-> TRUE, timer |-> "running"]
       /\ stale' = IF retry.timer = "running" THEN stale + 1 ELSE stale
       /\ UNCHANGED mishaps
    \/ n <= MaxRetries /\ ~retry.busy /\ CleanRetry /\ Mishap("timer")

-----------------------------------------------------------------------------
(* esp_rmaker_start_user_node_mapping *)

\* esp_rmaker_user_mapping_detect_reset: a new user is a reset, and makes the
\* node forget the one in NVS.
DetectReset(user, reset) ==
  IF ~UserIdCheck
  THEN reset = (ResetReporting /\ user = ResetUser) /\ UNCHANGED <<nvs, mishaps>>
  ELSE \/ reset = (nvs # user) /\ nvs' = (IF reset THEN NoUser ELSE nvs) /\ UNCHANGED mishaps
       \/ reset /\ Mishap("nvs") /\ UNCHANGED nvs

\* The new request replaces the old one and is queued.
StartMapping(user) ==
  /\ ~Locked
  /\ request' = [user |-> user, id |-> NoId, sent |-> FALSE]
  /\ \E reset \in BOOLEAN :
       DetectReset(user, reset) /\ state' = IF reset THEN "STARTED" ELSE "DONE"
  /\ \/ Queued("mapping") /\ UNCHANGED starting
     \/ Refused /\ starting' = "full"
  /\ crossed' = IF request # NoRequest THEN crossed \cup {"replaced"} ELSE crossed
  /\ UNCHANGED <<handler, onConnect, retries, timerTask, params, conn, network, boots>>

\* The user's app through provisioning or the console, or a factory reset.
Start ==
  /\ starts < MaxStarts /\ starts' = starts + 1
  /\ \E user \in Users \cup (IF ResetReporting THEN {ResetUser} ELSE {}) : StartMapping(user)
  /\ UNCHANGED core

\* Out of memory: the old request is gone and the new one is not made.
StartNoMemory ==
  /\ ~Locked /\ starts < MaxStarts /\ starts' = starts + 1
  /\ request' = NoRequest
  /\ Mishap("memory")
  /\ crossed' = IF request # NoRequest THEN crossed \cup {"replaced"} ELSE crossed
  /\ UNCHANGED <<state, nvs, handler, onConnect, starting, retries, timerTask, node, jobs,
                 conn, network, refused, boots>>

\* The queue was full: retry if MQTT is connected, else wait for it.
StartFull ==
  /\ starting = "full"
  /\ \/ conn /\ ScheduleRetry /\ starting' = "idle"
     \/ ~conn /\ starting' = "register" /\ UNCHANGED <<retries, mishaps>>
  /\ crossed' = IF conn /\ timerTask # "idle" THEN crossed \cup {"retried"} ELSE crossed
  /\ UNCHANGED <<mapping, onConnect, timerTask, node, jobs, conn, network, counts>>

StartRegister ==
  /\ starting = "register"
  /\ starting' = "idle"
  /\ \/ onConnect' = TRUE /\ UNCHANGED <<request, mishaps>>
     \/ request' = NoRequest /\ Mishap("memory") /\ UNCHANGED onConnect
  /\ UNCHANGED <<state, nvs, handler, retries, timerTask, node, jobs, conn, network, crossed, counts>>

-----------------------------------------------------------------------------
(* The work queue task *)

\* esp_rmaker_task after MQTT connected.
CoreConnected ==
  /\ core = "boot" /\ conn
  /\ IF state = "DONE"
     THEN params' = TRUE /\ core' = "done"
     ELSE core' = "check" /\ UNCHANGED params
  /\ UNCHANGED <<mapping, onConnect, starting, retries, timerTask, jobs, conn, network,
                 mishaps, crossed, counts>>

\* No mapping under way: report a reset, if that is configured, or wait.
CoreCheck ==
  /\ core = "check"
  /\ core' = IF state # "STARTED" /\ ResetReporting THEN "reset" ELSE "wait DONE"
  /\ UNCHANGED <<mapping, onConnect, starting, retries, timerTask, params, jobs, conn, network,
                 mishaps, crossed, counts>>

CoreReset ==
  /\ core = "reset" /\ core' = "resetting"
  /\ StartMapping(ResetUser)
  /\ UNCHANGED starts

CoreWait ==
  /\ core = "resetting" /\ ~Locked /\ core' = "wait RESET"
  /\ UNCHANGED <<mapping, onConnect, starting, retries, timerTask, params, jobs, conn, network,
                 mishaps, crossed, counts>>

\* The next job, once esp_rmaker_task has returned.
Job(job) ==
  /\ core \notin {"boot", "check", "reset", "resetting"}
  /\ jobs # <<>> /\ Head(jobs) = job /\ jobs' = Tail(jobs)

\* esp_rmaker_user_mapping_cb with something to send.
Send ==
  /\ Job("mapping") /\ ~Locked /\ Unsent
  /\ \E id \in MsgIds \ ({flight[i].id : i \in 1..Len(flight)}
                           \cup {events[i] : i \in 1..Len(events)}) :
       /\ request' = [request EXCEPT !.id = id, !.sent = TRUE]
       /\ flight' = Append(flight, [id |-> id, user |-> request.user, reset |-> state # "DONE"])
  /\ state' = "REQ_SENT" /\ handler' = TRUE
  /\ UNCHANGED <<nvs, onConnect, starting, retries, timerTask, node, conn, events, cloud,
                 mishaps, crossed, counts>>

\* Publishing fails; nothing tries again.
SendFails ==
  /\ Job("mapping") /\ ~Locked /\ Unsent
  /\ handler' = TRUE
  /\ Mishap("publish")
  /\ UNCHANGED <<state, request, nvs, onConnect, starting, retries, timerTask, node, conn,
                 network, crossed, counts>>

\* Nothing to send, or the lock was not free in time.
SendNothing ==
  /\ Job("mapping")
  /\ \/ ~Locked /\ ~Unsent /\ UNCHANGED mishaps
     \/ Locked /\ Mishap("lock")
  /\ UNCHANGED <<mapping, onConnect, starting, retries, timerTask, node, conn, network,
                 crossed, counts>>

InitParams ==
  /\ Job("params")
  /\ params' = TRUE
  /\ UNCHANGED <<mapping, onConnect, starting, retries, timerTask, core, conn, network,
                 mishaps, crossed, counts>>

-----------------------------------------------------------------------------
(* The event loop task *)

\* The core's handler for the outcome: listen for parameters.  A refusal by the
\* work queue goes unnoticed.
Outcome(result) ==
  IF core = result
  THEN /\ core' = "done"
       /\ \/ Queued("params") /\ UNCHANGED mishaps
          \/ Refused /\ Mishap("params")
  ELSE UNCHANGED <<core, jobs, refused, mishaps>>

\* Mutant: any PUBACK completes the request.
PubAckedAny ==
  /\ events # <<>> /\ events' = Tail(events)
  /\ ~Locked /\ handler /\ request # NoRequest
  /\ IF request.user = ResetUser
     THEN state' = "RESET" /\ Outcome("wait RESET")
     ELSE state' = "DONE" /\ Outcome("wait DONE")
  /\ nvs' = IF UserIdCheck THEN request.user ELSE nvs
  /\ request' = NoRequest /\ handler' = FALSE
  /\ UNCHANGED <<onConnect, starting, retries, timerTask, params, conn, flight, cloud,
                 crossed, starts, boots>>

\* The PUBACK of the request.
PubAcked ==
  /\ events # <<>> /\ events' = Tail(events)
  /\ ~Locked /\ handler /\ request # NoRequest /\ request.id = Head(events)
  /\ IF request.user = ResetUser
     THEN state' = "RESET" /\ Outcome("wait RESET")
     ELSE state' = "DONE" /\ Outcome("wait DONE")
  /\ nvs' = IF UserIdCheck THEN request.user ELSE nvs
  /\ request' = NoRequest /\ handler' = FALSE
  /\ UNCHANGED <<onConnect, starting, retries, timerTask, params, conn, flight, cloud,
                 crossed, starts, boots>>

\* Some other PUBACK, or the lock was not free in time.
PubIgnored ==
  /\ events # <<>> /\ events' = Tail(events)
  /\ \/ ~(handler /\ request # NoRequest /\ request.id = Head(events)) /\ UNCHANGED mishaps
     \/ Locked /\ handler /\ Mishap("ack")
  /\ UNCHANGED <<mapping, onConnect, starting, retries, timerTask, node, jobs, conn, flight, cloud,
                 crossed, counts>>

\* RMAKER_MQTT_EVENT_CONNECTED: a mapping that waited for it is queued.
Connected ==
  /\ ~conn /\ conn' = TRUE
  /\ onConnect' = FALSE
  /\ IF ~onConnect
     THEN UNCHANGED <<jobs, refused, retries, mishaps>>
     ELSE \/ Queued("mapping") /\ UNCHANGED <<retries, mishaps>>
          \/ Refused /\ ScheduleRetry
  /\ crossed' = crossed \cup (IF refused' > refused /\ timerTask # "idle" THEN {"retried"} ELSE {})
                        \cup (IF starting = "register" THEN {"missed"} ELSE {})
  /\ UNCHANGED <<mapping, starting, timerTask, node, network, starts, boots>>

Disconnected ==
  /\ conn /\ conn' = FALSE
  /\ UNCHANGED <<mapping, onConnect, starting, retries, timerTask, node, jobs, network,
                 mishaps, crossed, counts>>

-----------------------------------------------------------------------------
(* user_mapping_retry_timer_cb, in the timer task *)

TimerFires ==
  /\ timerTask = "idle" /\ timerTask' = "add"
  /\ \/ retry.timer = "running" /\ retry' = [retry EXCEPT !.busy = FALSE, !.timer = "expired"]
                                /\ UNCHANGED stale
     \/ stale > 0 /\ stale' = stale - 1 /\ retry' = [retry EXCEPT !.busy = FALSE]
  /\ UNCHANGED <<mapping, onConnect, starting, node, jobs, conn, network, mishaps, crossed, counts>>

TimerAdds ==
  /\ timerTask = "add"
  /\ \/ Queued("mapping") /\ timerTask' = "clean"
     \/ Refused /\ timerTask' = "retry"
  /\ UNCHANGED <<mapping, onConnect, starting, retries, node, conn, network, mishaps, crossed,
                 starts, boots>>

\* Mutant: a refused job is not retried.
TimerForgets ==
  /\ timerTask # "idle" /\ timerTask # "add" /\ timerTask' = "idle"
  /\ CleanRetry /\ UNCHANGED mishaps
  /\ UNCHANGED <<mapping, onConnect, starting, node, jobs, conn, network, crossed, counts>>

TimerDone ==
  /\ timerTask' = "idle"
  /\ \/ timerTask = "clean" /\ CleanRetry /\ UNCHANGED mishaps
     \/ timerTask = "retry" /\ ScheduleRetry
  /\ UNCHANGED <<mapping, onConnect, starting, node, jobs, conn, network, crossed, counts>>

\* A deleted timer turns out not to have expired.
TimerStopped ==
  /\ timerTask = "idle" /\ stale > 0 /\ stale' = stale - 1
  /\ UNCHANGED <<mapping, onConnect, starting, retry, timerTask, node, jobs, conn, network,
                 mishaps, crossed, counts>>

-----------------------------------------------------------------------------
(* The cloud, and reboots *)

\* The cloud receives a request.  Its PUBACK may be lost.
Received ==
  /\ conn /\ flight # <<>>
  /\ flight' = Tail(flight)
  /\ cloud' = Head(flight).user
  /\ \/ events' = Append(events, Head(flight).id) /\ UNCHANGED mishaps
     \/ Mishap("ack") /\ UNCHANGED events
  /\ UNCHANGED <<mapping, onConnect, starting, retries, timerTask, node, jobs, conn, crossed, counts>>

\* esp_rmaker_user_node_mapping_init: a user id in NVS means the mapping is done.
BootState == IF ~UserIdCheck \/ nvs # NoUser THEN "DONE" ELSE "RESET"

Reboot ==
  /\ boots < MaxBoots /\ boots' = boots + 1
  /\ state' = BootState
  /\ request' = NoRequest /\ handler' = FALSE /\ onConnect' = FALSE
  /\ starting' = "idle" /\ retry' = NoRetry /\ stale' = 0 /\ timerTask' = "idle"
  /\ core' = "boot" /\ params' = FALSE /\ jobs' = <<>>
  /\ conn' = FALSE /\ flight' = <<>> /\ events' = <<>>
  /\ crossed' = {}
  /\ UNCHANGED <<nvs, cloud, mishaps, starts, refused>>

-----------------------------------------------------------------------------
Init ==
  /\ nvs = NoUser /\ state = BootState
  /\ request = NoRequest /\ handler = FALSE /\ onConnect = FALSE
  /\ starting = "idle" /\ retry = NoRetry /\ stale = 0 /\ timerTask = "idle"
  /\ core = "boot" /\ params = FALSE /\ jobs = <<>>
  /\ conn = FALSE /\ flight = <<>> /\ events = <<>>
  /\ cloud = NoUser
  /\ mishaps = {} /\ crossed = {}
  /\ starts = 0 /\ refused = 0 /\ boots = 0

WorkQueue ==
  \/ CoreConnected \/ CoreCheck \/ CoreReset \/ CoreWait
  \/ Send \/ SendFails \/ SendNothing \/ InitParams

TimerTask == TimerFires \/ TimerAdds \/ TimerDone

Next ==
  \/ Start \/ StartNoMemory \/ StartFull \/ StartRegister
  \/ WorkQueue \/ TimerTask \/ TimerStopped
  \/ PubAcked \/ PubIgnored \/ Connected \/ Disconnected
  \/ Received \/ Reboot

Spec == Init /\ [][Next]_vars

\* The tasks run, timers expire and the broker answers.
Fairness ==
  /\ WF_vars(StartFull \/ StartRegister)
  /\ WF_vars(WorkQueue) /\ WF_vars(TimerTask)
  /\ WF_vars(PubAcked \/ PubIgnored)
  /\ WF_vars(Received)

FairSpec == Spec /\ Fairness

-----------------------------------------------------------------------------
(* Properties *)

TypeOK ==
  /\ state \in {"RESET", "STARTED", "REQ_SENT", "DONE"}
  /\ request \in [user : AllUsers \cup {NoUser}, id : MsgIds \cup {NoId}, sent : BOOLEAN]
  /\ nvs \in AllUsers \cup {NoUser} /\ cloud \in AllUsers \cup {NoUser}
  /\ handler \in BOOLEAN /\ onConnect \in BOOLEAN
  /\ starting \in {"idle", "full", "register"}
  /\ retry \in [count : 0..MaxRetries, busy : BOOLEAN, timer : {"none", "running", "expired"}]
  /\ stale \in Nat
  /\ timerTask \in {"idle", "add", "clean", "retry"}
  /\ core \in {"boot", "check", "reset", "resetting", "wait DONE", "wait RESET", "done"}
  /\ params \in BOOLEAN
  /\ jobs \in Seq({"mapping", "params"})
  /\ conn \in BOOLEAN
  /\ flight \in Seq([id : MsgIds, user : AllUsers, reset : BOOLEAN])
  /\ events \in Seq(MsgIds)

\* "It will be stored only after the user node association message is
\* acknowledged from the cloud": as long as NVS could be read, the user in it is
\* the one the cloud knows, whatever was replaced, lost or cut short by a reboot.
StoredUserIsCloudUser ==
  UserIdCheck /\ nvs # NoUser /\ "nvs" \notin mishaps =>
    /\ nvs = cloud
    /\ \A i \in 1..Len(flight) : flight[i].user = nvs

\* Something is going to send the request: a job, a retry, or the connection
\* once it is there.
Pursued ==
  \/ \E i \in 1..Len(jobs) : jobs[i] = "mapping"
  \/ retry.timer = "running" \/ timerTask \in {"add", "retry"}
  \/ onConnect /\ ~conn
  \/ Locked

\* An unsent request is pursued, unless something failed, a retry was scheduled
\* during the timer callback, or the connection came up before the wait for it
\* was registered.
RequestPursued ==
  Unsent /\ mishaps = {} /\ crossed \cap {"retried", "missed"} = {} => Pursued

\* Once the core task waits for the outcome the request in place will have, the
\* node comes to listen for its parameters, unless something fails or another
\* mapping replaces the one waited for.
Awaited ==
  \/ core = "wait DONE" /\ request.user \in Users
  \/ core = "wait RESET" /\ request.user = ResetUser

ParamsStart ==
  <>[]conn /\ [](mishaps = {} /\ crossed = {}) => (Awaited ~> params \/ core = "boot")
=============================================================================
