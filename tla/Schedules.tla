------------------------------ MODULE Schedules ------------------------------
(***************************************************************************)
(* Schedules: the list, its copy in NVS, the timers that fire, the jobs    *)
(* they put on the work queue, and the wait for the time of day.           *)
(*                                                                         *)
(*   src/components/esp_rainmaker/src/core/esp_rmaker_schedule.c           *)
(*                                                                         *)
(* Requests are handled in the MQTT task, triggers and the end of the wait *)
(* for the clock in the work queue task, timers in the timer task; nothing *)
(* is locked.  A step is what a task does between two reads or writes that *)
(* another task can tell apart.  Memory that a task uses after another     *)
(* task freed it may hold anything: such a read has any outcome, such a    *)
(* write is lost.                                                          *)
(***************************************************************************)
EXTENDS Integers, Sequences

SeqExt == INSTANCE SequencesExt

CONSTANTS
  Ids,           \* schedule ids a request may name
  MaxSchedules,  \* CONFIG_ESP_RMAKER_SCHEDULING_MAX_SCHEDULES
  QueueSize,     \* length of the work queue
  MaxRequests,   \* bound: requests from the cloud
  MaxBoots       \* bound: reboots and power cuts

ASSUME SchedulesAssumption ==
  /\ MaxSchedules \in Nat \ {0} /\ QueueSize \in Nat \ {0}
  /\ "sync" \notin Ids  \* the wait for the time of day is not a schedule

VARIABLES
  list,      \* schedule_list
  index,     \* the index of the next schedule
  sync,      \* time_sync_state
  timer,     \* time_sync_timer
  clock,     \* esp_rmaker_time_check
  over,      \* the last month of a dated schedule is over
  nvs,       \* the Schedules parameter in NVS
  queue,     \* work queue
  at,        \* where each task is
  fired,     \* history: times a schedule fired since it was last enabled by a request
  replay,    \* history: schedules that fired before NVS knew when they would
  lost,      \* history: jobs the full work queue refused
  stale,     \* history: schedules whose state was not reported at boot
  overlap,   \* history: both tasks were at work at once
  dangling,  \* history: a task used a schedule that had been freed
  requests, boots  \* history: for the bounds

memory  == <<list, index, sync, timer>>
history == <<fired, replay, lost, stale, overlap, dangling>>
counts  == <<requests, boots>>
schedules == <<memory, clock, over, nvs, queue, at, history, counts>>

-----------------------------------------------------------------------------
Tasks == {"cloud", "work"}

\* A schedule runs once (a countdown, or a day without repetition), or on the
\* days of its months until the last of them is over.
Kinds == {"once", "dated"}

\* next_timestamp: not set, in the future or in the past.
Times == {"none", "future", "past"}

NoIndex == -1
Idle == [pc |-> "idle", idx |-> NoIndex, after |-> "idle", data |-> <<>>]

Entries == [id : Ids, kind : Kinds, on : BOOLEAN, ts : Times]

Known(id)  == \E k \in DOMAIN list : list[k].id = id
Listed(i)  == \E k \in DOMAIN list : list[k].idx = i
\* esp_rmaker_schedule_get_schedule_from_id, _from_index
WithId(id)   == CHOOSE k \in DOMAIN list : list[k].id = id
WithIndex(i) == CHOOSE k \in DOMAIN list : list[k].idx = i

\* esp_rmaker_schedule_is_expired
Expired(s) ==
  \/ s.kind = "once" /\ s.ts = "past"
  \/ s.kind = "dated" /\ over

\* esp_rmaker_schedule_operation_disable
Disabled(s) == [s EXCEPT !.armed = FALSE, !.ts = "none", !.on = FALSE]

\* esp_schedule_enable: the timer runs, and the time at which it will expire is
\* given to esp_rmaker_schedule_timestamp_common_cb when it expires only once.
Armed(s) == [s EXCEPT !.armed = TRUE, !.ts = IF s.kind = "once" THEN "future" ELSE @]

\* Mutant: a report leaves out the schedules that are disabled.
SnapshotOfEnabled ==
  LET on == SelectSeq(list, LAMBDA s : s.on) IN
  [k \in DOMAIN on |-> [id |-> on[k].id, kind |-> on[k].kind, on |-> TRUE, ts |-> on[k].ts]]

\* esp_rmaker_schedule_get_params
Snapshot ==
  [k \in DOMAIN list |->
     [id |-> list[k].id, kind |-> list[k].kind, on |-> list[k].on, ts |-> list[k].ts]]

-----------------------------------------------------------------------------
(* Control of a task *)

Goto(t, pc, i, after, data) ==
  at' = [at EXCEPT ![t] = [pc |-> pc, idx |-> i, after |-> after, data |-> data]]

\* What the task goes on with: the report that ends a request, the rest of the
\* list, or nothing.
Return(t) ==
  CASE at[t].after = "report" -> Goto(t, "build", NoIndex, "idle", <<>>)
    [] at[t].after = "next"   -> Goto(t, "next", at[t].idx, "idle", <<>>)
    [] OTHER                  -> at' = [at EXCEPT ![t] = Idle]

Busy(t) == at[t].pc # "idle"

\* The task still has a schedule that the other one removed.
Freed(t) == ~Listed(at[t].idx)

Overlaps(t) == overlap' = (overlap \/ \E u \in Tasks \ {t} : Busy(u))
UseAfterFree == dangling' = TRUE

\* Mutant: the work queue has no limit.
PostAlways(job) == queue' = Append(queue, job) /\ UNCHANGED lost

\* esp_rmaker_work_queue_add_task, whose result is ignored.
Post(job) ==
  IF Len(queue) < QueueSize
  THEN queue' = Append(queue, job) /\ UNCHANGED lost
  ELSE lost' = lost \cup {job.for} /\ UNCHANGED queue

-----------------------------------------------------------------------------
(* A request: esp_rmaker_schedule_parse_json for the object in it *)

Begin == ~Busy("cloud") /\ requests < MaxRequests /\ requests' = requests + 1 /\ Overlaps("cloud")

\* The request enables the schedule: what happened before does not count.
Wanted(id) ==
  /\ fired' = [fired EXCEPT ![id] = 0]
  /\ replay' = replay \ {id}
  /\ lost' = lost \ {id}

Unasked == UNCHANGED <<fired, replay, lost>>

New(id, kind) ==
  [id |-> id, idx |-> index, kind |-> kind, on |-> FALSE, armed |-> FALSE, ts |-> "none"]

\* Mutant: the index is the place in the list.
AddAtPlace(id, kind) ==
  /\ index' = index
  /\ list' = Append(list, [New(id, kind) EXCEPT !.idx = Len(list)])
  /\ Goto("cloud", "enable", Len(list), "report", <<>>)
  /\ Wanted(id)

\* A new schedule, unless the list is full: then the index is used up all the
\* same and the schedule is forgotten.
AddNew(id, kind) ==
  /\ index' = index + 1
  /\ \/ /\ Len(list) < MaxSchedules
        /\ list' = Append(list, New(id, kind))
        /\ Goto("cloud", "enable", index, "report", <<>>)
        /\ Wanted(id)
     \/ /\ Len(list) >= MaxSchedules
        /\ Goto("cloud", "build", NoIndex, "idle", <<>>)
        /\ UNCHANGED list /\ Unasked

\* An add, or an edit of a schedule that is not known, which becomes an add.
Add(id, kind) ==
  /\ Begin /\ ~Known(id) /\ AddNew(id, kind)
  /\ UNCHANGED <<sync, timer, clock, over, nvs, queue, stale, dangling, boots>>

\* Add for an id that exists; remove, enable or disable for one that does not.
Reject ==
  /\ Begin
  /\ Goto("cloud", "build", NoIndex, "idle", <<>>)
  /\ Unasked
  /\ UNCHANGED <<memory, clock, over, nvs, queue, stale, dangling, boots>>

\* The new trigger replaces the old one; an enabled schedule is disabled and
\* enabled again.
Edit(id, kind) ==
  LET k == WithId(id) IN
  /\ Begin /\ Known(id)
  /\ \/ /\ list[k].on
        /\ list' = [list EXCEPT ![k] = Disabled([@ EXCEPT !.kind = kind])]
        /\ Goto("cloud", "enable", list[k].idx, "report", <<>>)
        /\ Wanted(id)
     \/ /\ ~list[k].on
        /\ list' = [list EXCEPT ![k].kind = kind, ![k].ts = "none"]
        /\ Goto("cloud", "build", NoIndex, "idle", <<>>)
        /\ Unasked
  /\ UNCHANGED <<index, sync, timer, clock, over, nvs, queue, stale, dangling, boots>>

\* esp_rmaker_schedule_operation_remove and esp_rmaker_schedule_free
Remove(id) ==
  /\ Begin /\ Known(id)
  /\ list' = SeqExt!RemoveAt(list, WithId(id))
  /\ Goto("cloud", "build", NoIndex, "idle", <<>>)
  /\ Unasked
  /\ UNCHANGED <<index, sync, timer, clock, over, nvs, queue, stale, dangling, boots>>

Enable(id) ==
  /\ Begin /\ Known(id)
  /\ Goto("cloud", "enable", list[WithId(id)].idx, "report", <<>>)
  /\ Wanted(id)
  /\ UNCHANGED <<memory, clock, over, nvs, queue, stale, dangling, boots>>

Disable(id) ==
  /\ Begin /\ Known(id)
  /\ list' = [list EXCEPT ![WithId(id)] = Disabled(@)]
  /\ Goto("cloud", "build", NoIndex, "idle", <<>>)
  /\ Unasked
  /\ UNCHANGED <<index, sync, timer, clock, over, nvs, queue, stale, dangling, boots>>

-----------------------------------------------------------------------------
(* esp_rmaker_schedule_operation_enable, for a request or when time is known *)

SetEnabled(t) ==
  /\ at[t].pc = "enable"
  /\ at' = [at EXCEPT ![t].pc = "check"]
  /\ \/ ~Freed(t) /\ list' = [list EXCEPT ![WithIndex(at[t].idx)].on = TRUE] /\ UNCHANGED dangling
     \/ Freed(t) /\ UseAfterFree /\ UNCHANGED list
  /\ UNCHANGED <<index, sync, timer, clock, over, nvs, queue, fired, replay, lost, stale,
                 overlap, counts>>

\* Without the time of day the first schedule starts the timer, and the others
\* leave it to the timer.
CheckSync(t) ==
  /\ at[t].pc = "check"
  /\ \/ /\ sync = "not started" /\ ~clock
        /\ timer' = "running" /\ sync' = "started"
        /\ Return(t)
     \/ /\ sync = "not started" /\ clock
        /\ sync' = "done"
        /\ at' = [at EXCEPT ![t].pc = "arm"]
        /\ UNCHANGED timer
     \/ sync = "started" /\ Return(t) /\ UNCHANGED <<sync, timer>>
     \/ sync = "done" /\ at' = [at EXCEPT ![t].pc = "arm"] /\ UNCHANGED <<sync, timer>>
  /\ UNCHANGED <<list, index, clock, over, nvs, queue, history, counts>>

\* An expired schedule is disabled and reported, any other gets its timer.
Arm(t) ==
  /\ at[t].pc = "arm"
  /\ \/ /\ ~Freed(t)
        /\ LET k == WithIndex(at[t].idx) IN
             \/ /\ Expired(list[k])
                /\ list' = [list EXCEPT ![k] = Disabled(@)]
                /\ at' = [at EXCEPT ![t].pc = "build"]
                /\ UNCHANGED fired
             \/ /\ ~Expired(list[k])
                /\ list' = [list EXCEPT ![k] = Armed(@)]
                /\ Return(t)
                /\ fired' = IF t = "cloud" THEN [fired EXCEPT ![list[k].id] = 0] ELSE fired
        /\ UNCHANGED dangling
     \/ /\ Freed(t) /\ UseAfterFree
        /\ Return(t) \/ at' = [at EXCEPT ![t].pc = "build"]
        /\ UNCHANGED <<list, fired>>
  /\ UNCHANGED <<index, sync, timer, clock, over, nvs, queue, replay, lost, stale,
                 overlap, counts>>

-----------------------------------------------------------------------------
(* esp_rmaker_schedule_report_params *)

Build(t) ==
  /\ at[t].pc = "build"
  /\ at' = [at EXCEPT ![t].pc = "store", ![t].data = Snapshot]
  /\ UNCHANGED <<memory, clock, over, nvs, queue, history, counts>>

\* esp_rmaker_param_update_and_report keeps the value in NVS.
Store(t) ==
  /\ at[t].pc = "store"
  /\ nvs' = at[t].data
  /\ stale' = {}
  /\ Return(t)
  /\ UNCHANGED <<memory, clock, over, queue, fired, replay, lost, overlap, dangling, counts>>

-----------------------------------------------------------------------------
(* Timers *)

ClockSet == ~clock /\ clock' = TRUE
            /\ UNCHANGED <<memory, over, nvs, queue, at, history, counts>>

\* It matters only while there is a dated schedule.
CalendarPasses == clock /\ ~over /\ over' = TRUE
                  /\ \E k \in DOMAIN list : list[k].kind = "dated"
                  /\ UNCHANGED <<memory, clock, nvs, queue, at, history, counts>>

\* The time of schedule i has come, wherever it is written down.
Aged(entries, id) ==
  [k \in DOMAIN entries |->
     IF entries[k].id = id /\ entries[k].ts = "future"
     THEN [entries[k] EXCEPT !.ts = "past"] ELSE entries[k]]

\* The timer of a schedule expires: esp_rmaker_schedule_trigger_common_cb.  It
\* is started again for the next day or month, if there is one.
Fire(k) ==
  LET s == list[k] IN
  /\ clock /\ s.armed
  /\ list' = [list EXCEPT ![k].ts = IF @ = "future" THEN "past" ELSE @,
                          ![k].armed = (s.kind = "dated" /\ ~over)]
  /\ nvs' = Aged(nvs, s.id)
  /\ at' = [t \in Tasks |-> [at[t] EXCEPT !.data = Aged(@, s.id)]]
  /\ Post([do |-> "trigger", idx |-> s.idx, for |-> s.id])
  /\ fired' = [fired EXCEPT ![s.id] = IF s.kind = "once" /\ @ < 2 THEN @ + 1 ELSE @]
  /\ UNCHANGED <<index, sync, timer, clock, over, replay, stale, overlap, dangling, counts>>

\* esp_rmaker_schedule_timesync_timer_cb
SyncTimer ==
  /\ timer = "running"
  /\ timer' = "expired"
  /\ Post([do |-> "sync", idx |-> NoIndex, for |-> "sync"])
  /\ UNCHANGED <<list, index, sync, clock, over, nvs, at, fired, replay, stale, overlap,
                 dangling, counts>>

-----------------------------------------------------------------------------
(* The work queue task *)

\* Mutant: the job has the schedule itself and not its index.
TakePointer ==
  /\ ~Busy("work") /\ queue # <<>> /\ Head(queue).do = "trigger"
  /\ queue' = Tail(queue)
  /\ Goto("work", "act", Head(queue).idx, "idle", <<>>)
  /\ Overlaps("work")
  /\ dangling' = (dangling \/ ~Listed(Head(queue).idx))
  /\ UNCHANGED <<memory, clock, over, nvs, fired, replay, lost, stale, counts>>

\* esp_rmaker_schedule_trigger_work_cb looks the schedule up by its index.
TakeTrigger ==
  /\ ~Busy("work") /\ queue # <<>> /\ Head(queue).do = "trigger"
  /\ queue' = Tail(queue)
  /\ \/ /\ Listed(Head(queue).idx)
        /\ Goto("work", "act", Head(queue).idx, "idle", <<>>)
        /\ Overlaps("work")
     \/ ~Listed(Head(queue).idx) /\ UNCHANGED <<at, overlap>>
  /\ UNCHANGED <<memory, clock, over, nvs, fired, replay, lost, stale, dangling, counts>>

\* esp_rmaker_schedule_process_action has ended: a schedule that does not repeat
\* is disabled and reported.
AfterAction ==
  /\ at["work"].pc = "act"
  /\ \/ /\ ~Freed("work")
        /\ IF Expired(list[WithIndex(at["work"].idx)])
           THEN at' = [at EXCEPT !["work"].pc = "disable"]
           ELSE at' = [at EXCEPT !["work"] = Idle]
        /\ UNCHANGED dangling
     \/ /\ Freed("work") /\ UseAfterFree
        /\ \/ at' = [at EXCEPT !["work"].pc = "disable"]
           \/ at' = [at EXCEPT !["work"] = Idle]
  /\ UNCHANGED <<memory, clock, over, nvs, queue, fired, replay, lost, stale, overlap, counts>>

DisableExpired ==
  /\ at["work"].pc = "disable"
  /\ at' = [at EXCEPT !["work"].pc = "build"]
  /\ \/ /\ ~Freed("work")
        /\ list' = [list EXCEPT ![WithIndex(at["work"].idx)] = Disabled(@)]
        /\ UNCHANGED dangling
     \/ Freed("work") /\ UseAfterFree /\ UNCHANGED list
  /\ UNCHANGED <<index, sync, timer, clock, over, nvs, queue, fired, replay, lost, stale,
                 overlap, counts>>

\* The sync job has found the time of day, and visits the list.
Visit(i) ==
  IF i = NoIndex THEN at' = [at EXCEPT !["work"] = Idle]
                 ELSE Goto("work", "visit", i, "idle", <<>>)

First == IF list = <<>> THEN NoIndex ELSE list[1].idx

\* Mutant: the timer is not started again while the time of day is not known.
TakeSyncOnce ==
  /\ ~Busy("work") /\ queue # <<>> /\ Head(queue).do = "sync"
  /\ queue' = Tail(queue)
  /\ \/ ~clock /\ UNCHANGED <<sync, timer, at, overlap>>
     \/ clock /\ timer' = "none" /\ sync' = "done" /\ Visit(First) /\ Overlaps("work")
  /\ UNCHANGED <<list, index, clock, over, nvs, fired, replay, lost, stale, dangling, counts>>

\* esp_rmaker_schedule_timesync_timer_work_cb
TakeSync ==
  /\ ~Busy("work") /\ queue # <<>> /\ Head(queue).do = "sync"
  /\ queue' = Tail(queue)
  /\ \/ ~clock /\ timer' = "running" /\ UNCHANGED <<sync, at, overlap>>
     \/ clock /\ timer' = "none" /\ sync' = "done" /\ Visit(First) /\ Overlaps("work")
  /\ UNCHANGED <<list, index, clock, over, nvs, fired, replay, lost, stale, dangling, counts>>

\* An enabled schedule is enabled again, now that it can be armed.
VisitOne ==
  /\ at["work"].pc = "visit"
  /\ \/ /\ ~Freed("work")
        /\ IF list[WithIndex(at["work"].idx)].on
           THEN at' = [at EXCEPT !["work"].pc = "enable", !["work"].after = "next"]
           ELSE at' = [at EXCEPT !["work"].pc = "next"]
        /\ UNCHANGED dangling
     \/ /\ Freed("work") /\ UseAfterFree
        /\ at' = [at EXCEPT !["work"].pc = "next"]
  /\ UNCHANGED <<memory, clock, over, nvs, queue, fired, replay, lost, stale, overlap, counts>>

VisitNext ==
  /\ at["work"].pc = "next"
  /\ \/ /\ ~Freed("work")
        /\ LET k == WithIndex(at["work"].idx) IN
             Visit(IF k = Len(list) THEN NoIndex ELSE list[k + 1].idx)
        /\ UNCHANGED dangling
     \/ /\ Freed("work") /\ UseAfterFree
        /\ \E i \in {list[k].idx : k \in DOMAIN list} \cup {NoIndex} : Visit(i)
  /\ UNCHANGED <<memory, clock, over, nvs, queue, fired, replay, lost, stale, overlap, counts>>

-----------------------------------------------------------------------------
(* Reboots *)

\* Mutant: the time at which a schedule fires is not read back.
RestoredTimeless(e, k) ==
  [id |-> e.id, idx |-> k - 1, kind |-> e.kind, on |-> e.on, armed |-> FALSE, ts |-> "none"]

\* A schedule from NVS, before it is enabled.
Restored(e, k) ==
  [id |-> e.id, idx |-> k - 1, kind |-> e.kind, on |-> e.on, armed |-> FALSE, ts |-> e.ts]

\* Those that are enabled while the time of day is known and that have expired.
Dead(e, known) == e.on /\ known /\ Expired(e)

RestoredList(entries, known) ==
  [k \in DOMAIN entries |->
     LET r == Restored(entries[k], k) IN
     IF Dead(r, known) THEN Disabled(r) ELSE IF known /\ r.on THEN Armed(r) ELSE r]

\* The timer for the time of day starts with the first schedule that waits.
RestoredSync(entries, known) ==
  IF \A k \in DOMAIN entries : ~entries[k].on THEN "not started"
  ELSE IF known THEN "done" ELSE "started"

\* While the node was off the time of some schedules may have passed.
WhileOff ==
  \E gone \in SUBSET Ids :
    nvs' = [k \in DOMAIN nvs |->
              IF nvs[k].id \in gone /\ nvs[k].ts = "future"
              THEN [nvs[k] EXCEPT !.ts = "past"] ELSE nvs[k]]

\* esp_rmaker_schedule_enable adds the schedules in NVS and enables those that
\* were enabled.  A report is not possible yet: the service does not exist.  A
\* power cut makes the node forget the time of day, a restart need not.
Boot ==
  /\ boots < MaxBoots /\ boots' = boots + 1
  /\ WhileOff
  /\ clock' \in {FALSE, clock}
  /\ list' = RestoredList(nvs', clock')
  /\ index' = Len(nvs)
  /\ sync' = RestoredSync(nvs', clock')
  /\ timer' = IF sync' = "started" THEN "running" ELSE "none"
  /\ stale' = {nvs'[k].id : k \in {j \in DOMAIN nvs : Dead(nvs'[j], clock')}}
  /\ queue' = <<>>
  /\ at' = [t \in Tasks |-> Idle]
  /\ replay' = {id \in Ids :
                  \/ id \in replay
                  \/ fired[id] > 0 /\ overlap
                  \/ /\ fired[id] > 0
                     /\ \E k \in DOMAIN nvs : nvs[k].id = id /\ nvs[k].on /\ nvs[k].ts = "none"}
  /\ lost' = {} /\ overlap' = FALSE /\ dangling' = FALSE
  /\ UNCHANGED <<over, fired, requests>>

-----------------------------------------------------------------------------
\* The node has booted with one schedule from earlier.
SchedulesInit ==
  /\ clock \in BOOLEAN /\ over = FALSE
  /\ \E id \in Ids : nvs = <<[id |-> id, kind |-> "once", on |-> TRUE, ts |-> "none"]>>
  /\ list = RestoredList(nvs, clock)
  /\ index = Len(nvs)
  /\ sync = RestoredSync(nvs, clock)
  /\ timer = IF sync = "started" THEN "running" ELSE "none"
  /\ queue = <<>>
  /\ at = [t \in Tasks |-> Idle]
  /\ fired = [id \in Ids |-> 0]
  /\ replay = {} /\ lost = {} /\ stale = {} /\ overlap = FALSE /\ dangling = FALSE
  /\ requests = 0 /\ boots = 0

Request ==
  \/ \E id \in Ids, kind \in Kinds : Add(id, kind) \/ Edit(id, kind)
  \/ \E id \in Ids : Remove(id) \/ Enable(id) \/ Disable(id)
  \/ Reject

TaskStep(t) == SetEnabled(t) \/ CheckSync(t) \/ Arm(t) \/ Build(t) \/ Store(t)

WorkStep == DisableExpired \/ VisitOne \/ VisitNext

TimerStep == ClockSet \/ CalendarPasses \/ SyncTimer \/ \E k \in DOMAIN list : Fire(k)

-----------------------------------------------------------------------------
(* Properties *)

AtRest == queue = <<>> /\ \A t \in Tasks : ~Busy(t)

SchedulesTypeOK ==
  /\ list \in Seq([id : Ids, idx : Nat, kind : Kinds, on : BOOLEAN, armed : BOOLEAN, ts : Times])
  /\ Len(list) <= MaxSchedules
  /\ index \in Nat
  /\ sync \in {"not started", "started", "done"} /\ timer \in {"none", "running", "expired"}
  /\ clock \in BOOLEAN /\ over \in BOOLEAN
  /\ nvs \in Seq(Entries)
  /\ queue \in Seq([do : {"trigger", "sync"}, idx : Nat \cup {NoIndex}, for : Ids \cup {"sync"}])
  /\ Len(queue) <= QueueSize
  /\ DOMAIN at = Tasks
  /\ \A t \in Tasks : at[t].data \in Seq(Entries)
  /\ fired \in [Ids -> 0..2]
  /\ replay \subseteq Ids /\ lost \subseteq Ids \cup {"sync"} /\ stale \subseteq Ids
  /\ overlap \in BOOLEAN /\ dangling \in BOOLEAN

\* When nothing is under way, NVS has the schedules of the list in the state
\* the list has them in: no change is only in memory, unless a request and a
\* trigger were handled at once, or a schedule that had expired was disabled at
\* boot, which cannot be reported yet.
SchedulesStored ==
  AtRest /\ ~overlap =>
    /\ Len(nvs) = Len(list)
    /\ \A k \in DOMAIN list :
         /\ nvs[k].id = list[k].id /\ nvs[k].kind = list[k].kind
         /\ nvs[k].on = list[k].on \/ list[k].id \in stale

\* When nothing is under way, a schedule that is shown as enabled has a timer,
\* or will get one when the time of day is known: whether the list is visited
\* before or after a request enables a schedule, one of the two arms it.  And
\* only such a schedule has one, unless a request and a trigger were handled at
\* once.
EnabledIsArmed ==
  AtRest /\ ~dangling =>
    \A k \in DOMAIN list :
      /\ list[k].on =>
           \/ list[k].armed
           \/ timer = "running" /\ sync = "started"
           \/ list[k].id \in lost \/ "sync" \in lost
           \/ list[k].kind = "dated" /\ over
      /\ list[k].armed => list[k].on \/ overlap

\* A schedule that runs once fires once for each time it is enabled, also when
\* the node reboots in between: NVS then tells that its time has passed.  The
\* exception is a schedule NVS has no time for, because it was accepted before
\* the time of day was known or the reboot came before the report.  A request
\* that crosses the work queue task may be undone by it, so that a schedule that
\* was disabled runs.
OneShotOnce == \A id \in Ids : fired[id] > 1 => id \in replay \/ overlap

\* A trigger in the queue never runs the action of another schedule than the
\* one that fired, also when that was removed and others were added since.
TriggerNamesItsSchedule ==
  \A j \in DOMAIN queue, k \in DOMAIN list :
    queue[j].do = "trigger" /\ queue[j].idx = list[k].idx => queue[j].for = list[k].id

\* A schedule is used after it was freed only when a request removes it while
\* the work queue task is using it, never because it was removed before.
UseAfterFreeNeedsOverlap == dangling => overlap
=============================================================================
