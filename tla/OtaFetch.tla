------------------------------ MODULE OtaFetch ------------------------------
(***************************************************************************)
(* How a node asks the cloud for an OTA job and makes sure it was asked:   *)
(* the request, its PUBACK, the timeout and the retries.                   *)
(*                                                                         *)
(*   src/components/esp_rainmaker/src/ota/esp_rmaker_ota_using_topics.c    *)
(*                                                                         *)
(* Timer callbacks run one after the other in the FreeRTOS timer task, at  *)
(* priority 1.  The PUBACK handler runs in the event loop task, at         *)
(* priority 20: it may run between any two steps of a callback, and shares *)
(* g_ota_fetch_state with it without a lock.  A timer the handler stops is *)
(* only marked in the timer task's command queue: if it has expired        *)
(* already, its callback still runs.                                       *)
(***************************************************************************)
EXTENDS Naturals, Sequences, FiniteSets

CONSTANTS
  MsgIds,     \* message ids of the MQTT client, reused
  Timers,     \* timeout timers that can exist at once
  AutoFetch,  \* OTA_AUTOFETCH_PERIOD > 0
  MaxAsked,   \* bound: occasions to fetch since the last boot
  MaxFaults   \* bound: allocations, registrations and timer starts that fail

None == "none"

ASSUME FetchAssumption ==
  /\ IsFiniteSet(MsgIds) /\ None \notin MsgIds
  /\ IsFiniteSet(Timers) /\ None \notin Timers
  /\ AutoFetch \in BOOLEAN
  /\ MaxAsked \in Nat \ {0} /\ MaxFaults \in Nat

VARIABLES
  expected,    \* expected_msg_id; None when it matches no message
  retryCount,  \* retry_count
  inProgress,  \* fetch_in_progress
  handler,     \* published_handler_instance is registered
  cur,         \* timeout_timer
  timer,       \* what each timeout timer is doing
  pending,     \* one-shot fetch timers that are armed
  auto,        \* ota_autofetch_timer is running
  enabled,     \* esp_rmaker_ota_work_fn has run
  pc,          \* where the timer task is in a callback
  msg,         \* msg_id, a local of __esp_rmaker_ota_fetch
  conn,        \* MQTT is connected and accepts a publish
  flight,      \* requests sent and not acknowledged
  events,      \* MQTT_EVENT_PUBLISHED events waiting in the event loop
  acked,       \* history: the PUBACK of a request has been noticed
  asked,       \* history: occasions to fetch since the last boot
  faults       \* history: failures so far

fetchState == <<expected, retryCount, inProgress, handler, cur>>
network    == <<conn, flight, events>>
counts     == <<acked, asked, faults>>
vars == <<fetchState, timer, pending, auto, enabled, pc, msg, network, counts>>

-----------------------------------------------------------------------------
Running == {t \in Timers : timer[t] = "running"}
Armed == {t \in Timers : timer[t] \in {"running", "stopping"}}

Fault == faults < MaxFaults /\ faults' = faults + 1

Ask == asked < MaxAsked /\ asked' = asked + 1

\* esp_rmaker_ota_fetch_with_delay, with n fetch timers armed already.  If the
\* timer cannot be started nobody notices.
Arm(n) ==
  \/ pending' = n + 1 /\ UNCHANGED faults
  \/ pending' = n /\ Fault

\* ota_fetch_cleanup: stop and delete the timer, unregister, clear the state.
Cleanup ==
  /\ timer' = IF cur = None THEN timer
              ELSE [timer EXCEPT ![cur] = IF @ = "running" THEN "stopping" ELSE "free"]
  /\ expected' = None /\ retryCount' = 0 /\ inProgress' = FALSE
  /\ handler' = FALSE /\ cur' = None

-----------------------------------------------------------------------------
(* esp_rmaker_ota_fetch, called by a fetch timer or the autofetch timer *)

\* Mutant: a fetch without a connection is not a failure.
FetchBeginQuiet ==
  \/ /\ inProgress \/ ~conn
     /\ UNCHANGED <<fetchState, pc>>
  \/ /\ ~inProgress /\ conn
     /\ expected' = None /\ retryCount' = 1
     /\ pc' = "publish"
     /\ UNCHANGED <<inProgress, handler, cur>>

\* The checks at the beginning.  A fetch already in progress counts as success.
FetchBegin ==
  \/ /\ inProgress
     /\ UNCHANGED <<fetchState, pc>>
  \/ /\ ~inProgress /\ ~conn
     /\ pc' = "fail"
     /\ UNCHANGED fetchState
  \/ /\ ~inProgress /\ conn
     /\ expected' = None /\ retryCount' = 1
     /\ pc' = "publish"
     /\ UNCHANGED <<inProgress, handler, cur>>

\* Mutant: the fetch timer reloads itself.
FetchTimerReloads ==
  /\ pc = "idle" /\ pending > 0
  /\ pending' = pending
  /\ FetchBegin
  /\ UNCHANGED <<timer, auto, enabled, msg, network, counts>>

\* A one-shot fetch timer expires; the callback deletes it.
FetchTimerFires ==
  /\ pc = "idle" /\ pending > 0
  /\ pending' = pending - 1
  /\ FetchBegin
  /\ UNCHANGED <<timer, auto, enabled, msg, network, counts>>

\* The autofetch timer expires and is started again.
AutoFetchFires ==
  /\ pc = "idle" /\ auto
  /\ Ask
  /\ \/ UNCHANGED <<auto, faults>>
     \/ auto' = FALSE /\ Fault
  /\ FetchBegin
  /\ UNCHANGED <<timer, pending, enabled, msg, network, acked>>

\* The request goes out and its message id comes back, or publishing fails.
Publish ==
  /\ pc = "publish"
  /\ IF conn
     THEN \E id \in MsgIds \ (flight \cup {events[i] : i \in 1..Len(events)}) :
            flight' = flight \cup {id} /\ msg' = id /\ pc' = "track"
     ELSE pc' = "fail" /\ UNCHANGED <<flight, msg>>
  /\ UNCHANGED <<fetchState, timer, pending, auto, enabled, conn, events, counts>>

Track ==
  /\ pc = "track"
  /\ expected' = msg /\ inProgress' = TRUE
  /\ pc' = "register"
  /\ UNCHANGED <<retryCount, handler, cur, timer, pending, auto, enabled, msg, network, counts>>

Register ==
  /\ pc = "register"
  /\ \/ /\ handler' = TRUE /\ pc' = "create"
        /\ UNCHANGED <<expected, retryCount, inProgress, cur, timer, faults>>
     \/ Fault /\ Cleanup /\ pc' = "fail"
  /\ UNCHANGED <<pending, auto, enabled, msg, network, acked, asked>>

\* A timer that has expired stays allocated while timeout_timer points to it.
\* Once the pointer is overwritten it is leaked, and its place free for the model.
CreateTimer ==
  /\ pc = "create"
  /\ \/ /\ \E t \in Timers :
             /\ timer[t] = "free" \/ (t = cur /\ timer[t] = "expired")
             /\ cur' = t
             /\ timer' = [u \in Timers |->
                            IF u = t THEN "created"
                            ELSE IF u = cur /\ timer[u] = "expired" THEN "free"
                            ELSE timer[u]]
        /\ pc' = "start"
        /\ UNCHANGED <<expected, retryCount, inProgress, handler, faults>>
     \/ Fault /\ Cleanup /\ pc' = "fail"
  /\ UNCHANGED <<pending, auto, enabled, msg, network, acked, asked>>

StartTimer ==
  /\ pc = "start" /\ cur # None
  /\ \/ /\ timer' = [timer EXCEPT ![cur] = "running"] /\ pc' = "idle"
        /\ UNCHANGED <<fetchState, faults>>
     \/ Fault /\ Cleanup /\ pc' = "fail"
  /\ UNCHANGED <<pending, auto, enabled, msg, network, acked, asked>>

\* The PUBACK handler ran since CreateTimer: xTimerStart is handed NULL, which
\* FreeRTOS refuses with an assertion, and the node reboots.
StartNull ==
  /\ pc = "start" /\ cur = None
  /\ expected' = None /\ retryCount' = 0 /\ inProgress' = FALSE
  /\ handler' = FALSE /\ cur' = None
  /\ timer' = [t \in Timers |-> "free"]
  /\ pending' = 0 /\ auto' = FALSE /\ enabled' = FALSE
  /\ pc' = "idle" /\ msg' = None
  /\ conn' = FALSE /\ flight' = {} /\ events' = <<>>
  /\ acked' = FALSE /\ asked' = 0 /\ UNCHANGED faults

\* ota_fetch_schedule_retry: count one more failure and arm a fetch timer, or,
\* without memory for one, clean up and give up.
RetryLater(count) ==
  retryCount' = count + 1 /\ Arm(pending) /\ UNCHANGED <<cur, timer>>
GiveUp == Fault /\ Cleanup /\ UNCHANGED pending

\* esp_rmaker_ota_fetch after an attempt that returned an error.
FetchFailed ==
  /\ pc = "fail"
  /\ \/ RetryLater(0) /\ expected' = None /\ inProgress' = FALSE /\ UNCHANGED handler
     \/ GiveUp
  /\ pc' = "idle"
  /\ UNCHANGED <<auto, enabled, msg, network, acked, asked>>

-----------------------------------------------------------------------------
(* The timeout *)

\* Mutant: the timeout leaves fetch_in_progress set.
TimeoutKeepsFlag(t) ==
  /\ pc = "idle" /\ t \in Armed
  /\ timer' = [timer EXCEPT ![t] = IF t = cur THEN "expired" ELSE "free"]
  /\ pc' = "timeout"
  /\ UNCHANGED <<fetchState, pending, auto, enabled, msg, network, counts>>

\* ota_fetch_timeout_timer_cb begins.  A timer nobody refers to any more is freed.
TimeoutFires(t) ==
  /\ pc = "idle" /\ t \in Armed
  /\ timer' = [timer EXCEPT ![t] = IF t = cur THEN "expired" ELSE "free"]
  /\ inProgress' = FALSE
  /\ pc' = "timeout"
  /\ UNCHANGED <<expected, retryCount, handler, cur, pending, auto, enabled, msg, network, counts>>

\* The rest of it: unregister and schedule a retry.
TimeoutRetries ==
  /\ pc = "timeout"
  /\ \/ RetryLater(retryCount) /\ handler' = FALSE /\ UNCHANGED <<expected, inProgress>>
     \/ GiveUp
  /\ pc' = "idle"
  /\ UNCHANGED <<auto, enabled, msg, network, acked, asked>>

\* The timer task gets to the stop and delete commands of a cleanup.
TimerStopped(t) ==
  /\ pc = "idle" /\ timer[t] = "stopping"
  /\ timer' = [timer EXCEPT ![t] = "free"]
  /\ UNCHANGED <<fetchState, pending, auto, enabled, pc, msg, network, counts>>

-----------------------------------------------------------------------------
(* The event loop task and the other tasks *)

\* ota_fetch_mqtt_event_handler, if it is registered when the event is delivered.
Dispatch ==
  /\ events # <<>>
  /\ events' = Tail(events)
  /\ IF handler /\ Head(events) = expected
     THEN Cleanup /\ acked' = TRUE
     ELSE UNCHANGED <<fetchState, timer, acked>>
  /\ UNCHANGED <<pending, auto, enabled, pc, msg, conn, flight, asked, faults>>

\* esp_rmaker_ota_work_fn, in the RainMaker task: the first fetch is armed, and
\* the autofetch timer if there is a period.
WorkFn ==
  /\ ~enabled /\ enabled' = TRUE
  /\ Ask
  /\ \/ pending' = pending + 1 /\ auto' = AutoFetch /\ UNCHANGED faults
     \/ pending' = pending /\ auto' = AutoFetch /\ Fault
     \/ pending' = pending + 1 /\ auto' = FALSE /\ AutoFetch /\ Fault
  /\ UNCHANGED <<fetchState, timer, pc, msg, network, acked>>

\* Mutant: the delayed fetch is armed twice.
FetchWithDelayTwice ==
  /\ enabled
  /\ Ask /\ pending' = pending + 2
  /\ UNCHANGED <<fetchState, timer, auto, enabled, pc, msg, network, acked, faults>>

\* An OTA job that failed, or whose time has not come, is fetched again later.
FetchWithDelay ==
  /\ enabled
  /\ Ask /\ pending' = pending + 1
  /\ UNCHANGED <<fetchState, timer, auto, enabled, pc, msg, network, acked, faults>>

-----------------------------------------------------------------------------
(* The MQTT client and the broker *)

Connected ==
  /\ conn' = ~conn
  /\ UNCHANGED <<fetchState, timer, pending, auto, enabled, pc, msg, flight, events, counts>>

\* The broker acknowledges a request, and the client posts the event.
PubAck(id) ==
  /\ conn /\ id \in flight
  /\ flight' = flight \ {id} /\ events' = Append(events, id)
  /\ UNCHANGED <<fetchState, timer, pending, auto, enabled, pc, msg, conn, counts>>

\* The client's outbox expires a request, or its PUBACK is lost.
Lose(id) ==
  /\ id \in flight
  /\ flight' = flight \ {id}
  /\ UNCHANGED <<fetchState, timer, pending, auto, enabled, pc, msg, conn, events, counts>>

-----------------------------------------------------------------------------
Init ==
  /\ expected = None /\ retryCount = 0 /\ inProgress = FALSE
  /\ handler = FALSE /\ cur = None
  /\ timer = [t \in Timers |-> "free"]
  /\ pending = 0 /\ auto = FALSE /\ enabled = FALSE
  /\ pc = "idle" /\ msg = None
  /\ conn = FALSE /\ flight = {} /\ events = <<>>
  /\ acked = FALSE /\ asked = 0 /\ faults = 0

\* A step of the timer task that does not wait for time to pass.
Callback ==
  \/ Publish \/ Track \/ Register \/ CreateTimer \/ StartTimer \/ StartNull
  \/ FetchFailed \/ TimeoutRetries

Next ==
  \/ FetchTimerFires \/ AutoFetchFires \/ Callback
  \/ \E t \in Timers : TimeoutFires(t) \/ TimerStopped(t)
  \/ Dispatch \/ WorkFn \/ FetchWithDelay
  \/ Connected
  \/ \E id \in MsgIds : PubAck(id) \/ Lose(id)

Spec == Init /\ [][Next]_vars

\* Timers expire, the timer task finishes its callbacks, the event loop delivers
\* what was posted and the work queue runs what was queued.
Fairness ==
  /\ WF_vars(WorkFn) /\ WF_vars(Callback) /\ WF_vars(FetchTimerFires)
  /\ \A t \in Timers : WF_vars(TimeoutFires(t))
  /\ WF_vars(Dispatch)

FairSpec == Spec /\ Fairness

-----------------------------------------------------------------------------
(* Properties *)

TypeOK ==
  /\ expected \in MsgIds \cup {None}
  /\ retryCount \in Nat
  /\ inProgress \in BOOLEAN /\ handler \in BOOLEAN
  /\ cur \in Timers \cup {None}
  /\ timer \in [Timers -> {"free", "created", "running", "stopping", "expired"}]
  /\ pending \in 0..MaxAsked
  /\ auto \in BOOLEAN /\ enabled \in BOOLEAN
  /\ pc \in {"idle", "publish", "track", "register", "create", "start", "fail", "timeout"}
  /\ msg \in MsgIds \cup {None}
  /\ conn \in BOOLEAN /\ flight \subseteq MsgIds /\ events \in Seq(MsgIds)
  /\ acked \in BOOLEAN /\ asked \in 0..MaxAsked /\ faults \in 0..MaxFaults

\* fetch_in_progress makes every later fetch a no-op, so it must not outlive the
\* timer that ends it: whatever failed and however the PUBACK raced.
NeverStuck == pc = "idle" /\ inProgress => Running # {}

\* Attempts under way: fetch timers, timeouts and the callback being run.
Attempts == pending + Cardinality(Armed) + (IF pc = "idle" THEN 0 ELSE 1)

\* Retries do not multiply: stale timeouts, late PUBACKs and failures leave no
\* more attempts under way than there were occasions to fetch.
OneAttemptEach == Attempts <= asked

\* Unless memory runs out, an enabled node that stays connected gets a request
\* out to the broker.
RequestGoesOut ==
  <>[]conn /\ [](faults = 0) => (enabled ~> (flight # {} \/ acked))
=============================================================================
