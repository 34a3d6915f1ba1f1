-------------------------- MODULE AutomationProofs ---------------------------
(***************************************************************************)
(* Proofs about Automation.  Schedules: a trigger runs its own schedule,   *)
(* one is used after it was freed only by a task that was using it when it *)
(* was removed, NVS has the list whenever no task is at work, what is      *)
(* shown as enabled has a timer or will get one, and a schedule that runs  *)
(* once fires once.  Scenes: they are kept in NVS.  Both: the types.       *)
(***************************************************************************)
EXTENDS Automation, SequenceTheorems, TLAPS

-----------------------------------------------------------------------------
(* Schedules: what the variables hold *)

\* The schedules of the list, the jobs of the work queue and where a task is.
Records == [id : Ids, idx : Nat, kind : Kinds, on : BOOLEAN, armed : BOOLEAN, ts : Times]

Jobs == [do : {"trigger", "sync"}, idx : Nat \cup {NoIndex}, for : Ids \cup {"sync"}]

Places == {"idle", "enable", "check", "arm", "build", "store", "act", "disable", "visit", "next"}

Positions == [pc : Places, idx : Nat \cup {NoIndex}, after : {"idle", "report", "next"},
              data : Seq(Entries)]

Types ==
  /\ list \in Seq(Records) /\ index \in Nat
  /\ nvs \in Seq(Entries)
  /\ queue \in Seq(Jobs)
  /\ at \in [Tasks -> Positions]
  /\ overlap \in BOOLEAN /\ dangling \in BOOLEAN

\* The list has the same schedules, whatever became of them.
SameNames ==
  /\ Len(list') = Len(list)
  /\ \A k \in 1..Len(list) : list'[k].id = list[k].id /\ list'[k].idx = list[k].idx

\* Disabling and arming a schedule change neither its id nor its index.
LEMMA Revisions ==
  ASSUME NEW r \in Records
  PROVE  /\ Disabled(r) \in Records /\ Disabled(r).id = r.id /\ Disabled(r).idx = r.idx
         /\ Armed(r) \in Records /\ Armed(r).id = r.id /\ Armed(r).idx = r.idx
BY DEF Records, Disabled, Armed, Times

\* A step that changes one schedule.
LEMMA Replace ==
  ASSUME list \in Seq(Records), NEW k \in DOMAIN list, NEW r \in Records,
         r.id = list[k].id, r.idx = list[k].idx, list' = [list EXCEPT ![k] = r]
  PROVE  list' \in Seq(Records) /\ SameNames
<1>1. DOMAIN list = 1..Len(list)
  BY LenProperties
<1>2. k \in 1..Len(list)
  BY <1>1
<1>3. /\ list' \in Seq(Records) /\ Len(list') = Len(list)
      /\ \A j \in 1..Len(list) : list'[j] = IF j = k THEN r ELSE list[j]
  BY <1>2, ExceptSeq
<1> QED
  BY <1>3 DEF SameNames

\* A step that changes none.
LEMMA Unchanged == ASSUME UNCHANGED list PROVE SameNames
BY DEF SameNames

\* The places of the list.
LEMMA Elements ==
  ASSUME list \in Seq(Records)
  PROVE  /\ DOMAIN list = 1..Len(list) /\ Len(list) \in Nat
         /\ \A k \in DOMAIN list : list[k] \in Records
BY LenProperties, ElementOfSeq

\* Looking up a schedule that is there.
LEMMA Found ==
  ASSUME list \in Seq(Records)
  PROVE  /\ \A id : Known(id) => WithId(id) \in DOMAIN list /\ list[WithId(id)].id = id
         /\ \A i : Listed(i) => WithIndex(i) \in DOMAIN list /\ list[WithIndex(i)].idx = i
<1>1. ASSUME NEW id, Known(id) PROVE WithId(id) \in DOMAIN list /\ list[WithId(id)].id = id
  BY <1>1 DEF Known, WithId
<1>2. ASSUME NEW i, Listed(i) PROVE WithIndex(i) \in DOMAIN list /\ list[WithIndex(i)].idx = i
  BY <1>2 DEF Listed, WithIndex
<1> QED
  BY <1>1, <1>2

\* What a report holds can be stored.
LEMMA Snap == ASSUME list \in Seq(Records) PROVE Snapshot \in Seq(Entries)
<1>1. \A k \in 1..Len(list) :
        [id |-> list[k].id, kind |-> list[k].kind, on |-> list[k].on, ts |-> list[k].ts] \in Entries
  BY Elements DEF Records, Entries
<1>2. Snapshot = [k \in 1..Len(list) |->
        [id |-> list[k].id, kind |-> list[k].kind, on |-> list[k].on, ts |-> list[k].ts]]
  BY Elements DEF Snapshot
<1>3. Snapshot \in [1..Len(list) -> Entries]
  BY <1>1, <1>2
<1> QED
  BY <1>3, Elements, SeqDef

\* The time of a schedule passes in what has been written down.
LEMMA AgedType == ASSUME NEW e \in Seq(Entries), NEW id PROVE Aged(e, id) \in Seq(Entries)
<1>1. DOMAIN e = 1..Len(e) /\ Len(e) \in Nat /\ \A k \in 1..Len(e) : e[k] \in Entries
  BY LenProperties, ElementOfSeq
<1>2. \A k \in 1..Len(e) : (IF e[k].id = id /\ e[k].ts = "future"
     THEN [e[k] EXCEPT !.ts = "past"] ELSE e[k]) \in Entries
  BY <1>1 DEF Entries, Times
<1>3. Aged(e, id) \in [1..Len(e) -> Entries]
  BY <1>1, <1>2 DEF Aged
<1> QED
  BY <1>3, <1>1, SeqDef

(* Where a task may go *)

\* A task begins something else.
LEMMA GotoType ==
  ASSUME at \in [Tasks -> Positions], NEW t \in Tasks, NEW pc \in Places,
         NEW i \in Nat \cup {NoIndex}, NEW after \in {"idle", "report", "next"},
         NEW data \in Seq(Entries), Goto(t, pc, i, after, data)
  PROVE  at' \in [Tasks -> Positions]
BY DEF Goto, Positions

\* A task goes on with the same schedule.
LEMMA GoType ==
  ASSUME at \in [Tasks -> Positions], NEW t \in Tasks, NEW pc \in Places,
         at' = [at EXCEPT ![t].pc = pc]
  PROVE  at' \in [Tasks -> Positions]
BY DEF Positions

\* A task at rest.
LEMMA IdleType == Idle \in Positions /\ <<>> \in Seq(Entries)
<1>1. <<>> \in Seq(Entries)
  BY EmptySeq
<1> QED
  BY <1>1 DEF Idle, Positions, Places

\* A task comes to rest.
LEMMA RestType ==
  ASSUME at \in [Tasks -> Positions], NEW t \in Tasks, at' = [at EXCEPT ![t] = Idle]
  PROVE  at' \in [Tasks -> Positions]
BY IdleType

\* A task returns to what it was doing.
LEMMA ReturnType ==
  ASSUME at \in [Tasks -> Positions], NEW t \in Tasks, Return(t)
  PROVE  at' \in [Tasks -> Positions]
<1>1. at[t].idx \in Nat \cup {NoIndex}
  BY DEF Positions
<1>2. CASE at[t].after = "report"
  <2>1. Goto(t, "build", NoIndex, "idle", <<>>)
    BY <1>2 DEF Return
  <2> QED
    BY <2>1, GotoType, IdleType DEF Places
<1>3. CASE at[t].after = "next"
  <2>1. Goto(t, "next", at[t].idx, "idle", <<>>)
    BY <1>3 DEF Return
  <2> QED
    BY <2>1, <1>1, GotoType, IdleType DEF Places
<1>4. CASE at[t].after \notin {"report", "next"}
  <2>1. at' = [at EXCEPT ![t] = Idle]
    BY <1>4 DEF Return
  <2> QED
    BY <2>1, RestType
<1> QED
  BY <1>2, <1>3, <1>4

\* A job is posted, or lost.
LEMMA PostType ==
  ASSUME queue \in Seq(Jobs), NEW job \in Jobs, Post(job)
  PROVE  queue' \in Seq(Jobs)
BY AppendProperties DEF Post

\* A job is taken.
LEMMA TakenType ==
  ASSUME queue \in Seq(Jobs), queue # <<>>
  PROVE  Head(queue) \in Jobs /\ Tail(queue) \in Seq(Jobs)
BY HeadTailProperties

\* The index at which the sync job starts.
LEMMA FirstType == ASSUME Types PROVE First \in Nat \cup {NoIndex}
<1>1. CASE list = <<>>
  BY <1>1 DEF First
<1>2. CASE list # <<>>
  <2>1. Len(list) \in Nat \ {0}
    BY <1>2, EmptySeq DEF Types
  <2>2. list[1] \in Records
    BY <2>1, Elements DEF Types
  <2> QED
    BY <1>2, <2>2 DEF First, Records
<1> QED
  BY <1>1, <1>2

\* The sync job goes to a schedule, or ends.
LEMMA VisitType ==
  ASSUME at \in [Tasks -> Positions], NEW i \in Nat \cup {NoIndex}, Visit(i)
  PROVE  at' \in [Tasks -> Positions]
<1>1. "work" \in Tasks
  BY DEF Tasks
<1>2. CASE i = NoIndex
  BY <1>1, <1>2, RestType DEF Visit
<1>3. CASE i # NoIndex
  BY <1>1, <1>3, GotoType, IdleType DEF Visit, Places
<1> QED
  BY <1>2, <1>3

-----------------------------------------------------------------------------
(* Steps that keep the schedules of the list *)
Kept == Types' /\ SameNames /\ index <= index'

\* Enabling a schedule, and reporting.
LEMMA TaskStepKeeps ==
  ASSUME Types, NEW t \in Tasks, TaskStep(t)
  PROVE  Kept
<1> USE DEF Types
<1>0. overlap' \in BOOLEAN /\ dangling' \in BOOLEAN /\ index' = index /\ queue' = queue
  BY DEF TaskStep, SetEnabled, CheckSync, Arm, Build, Store, UseAfterFree, memory, history
<1>1. CASE SetEnabled(t)
  <2>1. at' \in [Tasks -> Positions] /\ nvs' = nvs
    BY <1>1, GoType DEF SetEnabled, Places
  <2>2. CASE ~Freed(t) /\ list' = [list EXCEPT ![WithIndex(at[t].idx)].on = TRUE]
    <3>1. WithIndex(at[t].idx) \in DOMAIN list
      BY <2>2, Found DEF Freed
    <3>2. [list[WithIndex(at[t].idx)] EXCEPT !.on = TRUE] \in Records
      BY <3>1, Elements DEF Records
    <3>3. list' \in Seq(Records) /\ SameNames
      BY <2>2, <3>1, <3>2, Elements, Replace DEF Records
    <3> QED
      BY <1>0, <2>1, <3>3 DEF Kept
  <2>3. CASE UNCHANGED list
    BY <1>0, <2>1, <2>3, Unchanged DEF Kept
  <2> QED
    BY <1>1, <2>2, <2>3 DEF SetEnabled
<1>2. CASE CheckSync(t)
  <2>1. at' \in [Tasks -> Positions]
    BY <1>2, GoType, ReturnType DEF CheckSync, Places
  <2>2. UNCHANGED <<list, nvs>>
    BY <1>2 DEF CheckSync
  <2> QED
    BY <1>0, <2>1, <2>2, Unchanged DEF Kept
<1>3. CASE Arm(t)
  <2>1. at' \in [Tasks -> Positions] /\ nvs' = nvs
    BY <1>3, GoType, ReturnType DEF Arm, Places
  <2>2. CASE ~Freed(t) /\ ~UNCHANGED list
    <3>1. WithIndex(at[t].idx) \in DOMAIN list
      BY <2>2, Found DEF Freed
    <3>2. \E r \in {Disabled(list[WithIndex(at[t].idx)]), Armed(list[WithIndex(at[t].idx)])} :
            list' = [list EXCEPT ![WithIndex(at[t].idx)] = r]
      BY <1>3, <2>2 DEF Arm
    <3>3. list' \in Seq(Records) /\ SameNames
      BY <3>1, <3>2, Elements, Revisions, Replace
    <3> QED
      BY <1>0, <2>1, <3>3 DEF Kept
  <2>3. CASE UNCHANGED list
    BY <1>0, <2>1, <2>3, Unchanged DEF Kept
  <2> QED
    BY <1>3, <2>2, <2>3 DEF Arm
<1>4. CASE Build(t)
  <2>1. at' \in [Tasks -> Positions]
    BY <1>4, Snap DEF Build, Positions, Places
  <2> QED
    BY <1>0, <1>4, <2>1, Unchanged DEF Build, Kept, memory
<1>5. CASE Store(t)
  <2>1. at' \in [Tasks -> Positions] /\ nvs' \in Seq(Entries)
    BY <1>5, ReturnType DEF Store, Positions
  <2> QED
    BY <1>0, <1>5, <2>1, Unchanged DEF Store, Kept, memory
<1> QED
  BY <1>1, <1>2, <1>3, <1>4, <1>5 DEF TaskStep

\* Disabling one that has expired, and visiting the list.
LEMMA WorkStepKeeps ==
  ASSUME Types, WorkStep
  PROVE  Kept
<1> USE DEF Types
<1>0. /\ overlap' \in BOOLEAN /\ dangling' \in BOOLEAN /\ index' = index /\ queue' = queue
      /\ nvs' = nvs
  BY DEF WorkStep, DisableExpired, VisitOne, VisitNext, UseAfterFree, memory
<1>1. "work" \in Tasks /\ at["work"].idx \in Nat \cup {NoIndex}
  BY DEF Tasks, Positions
<1>2. CASE DisableExpired
  <2>1. at' \in [Tasks -> Positions]
    BY <1>1, <1>2, GoType DEF DisableExpired, Places
  <2>2. CASE ~Freed("work") /\ list' = [list EXCEPT ![WithIndex(at["work"].idx)] = Disabled(@)]
    <3>1. WithIndex(at["work"].idx) \in DOMAIN list
      BY <2>2, Found DEF Freed
    <3>2. list' \in Seq(Records) /\ SameNames
      BY <2>2, <3>1, Elements, Revisions, Replace
    <3> QED
      BY <1>0, <2>1, <3>2 DEF Kept
  <2>3. CASE UNCHANGED list
    BY <1>0, <2>1, <2>3, Unchanged DEF Kept
  <2> QED
    BY <1>2, <2>2, <2>3 DEF DisableExpired
<1>3. CASE VisitOne
  <2>1. [at["work"] EXCEPT !.pc = "enable", !.after = "next"] \in Positions
    BY <1>1 DEF Positions, Places
  <2>2. [at["work"] EXCEPT !.pc = "next"] \in Positions
    BY <1>1 DEF Positions, Places
  <2>3. \/ at' = [at EXCEPT !["work"] = [at["work"] EXCEPT !.pc = "enable", !.after = "next"]]
        \/ at' = [at EXCEPT !["work"] = [at["work"] EXCEPT !.pc = "next"]]
    BY <1>1, <1>3 DEF VisitOne, Positions
  <2>4. at' \in [Tasks -> Positions]
    BY <1>1, <2>1, <2>2, <2>3
  <2> QED
    BY <1>0, <1>3, <2>4, Unchanged DEF VisitOne, Kept, memory
<1>4. CASE VisitNext
  <2>1. \A k \in DOMAIN list : list[k].idx \in Nat
    BY Elements DEF Records
  <2>2. \E i \in Nat \cup {NoIndex} : Visit(i)
    <3>1. CASE Freed("work")
      BY <1>4, <2>1, <3>1 DEF VisitNext
    <3>2. CASE ~Freed("work")
      <4>1. WithIndex(at["work"].idx) \in 1..Len(list)
        BY <3>2, Found, Elements DEF Freed
      <4>2. WithIndex(at["work"].idx) # Len(list)
              => list[WithIndex(at["work"].idx) + 1].idx \in Nat
        BY <2>1, <4>1, Elements
      <4> QED
        BY <1>4, <3>2, <4>2 DEF VisitNext
    <3> QED
      BY <3>1, <3>2
  <2>3. at' \in [Tasks -> Positions]
    BY <2>2, VisitType
  <2> QED
    BY <1>0, <1>4, <2>3, Unchanged DEF VisitNext, Kept, memory
<1> QED
  BY <1>2, <1>3, <1>4 DEF WorkStep

\* Taking a job, and the end of an action.
LEMMA TakeKeeps ==
  ASSUME Types, TakeTrigger \/ TakeSync \/ TriggerActed
  PROVE  Kept
<1> USE DEF Types
<1>0. /\ overlap' \in BOOLEAN /\ dangling' \in BOOLEAN /\ index' = index /\ nvs' = nvs
      /\ UNCHANGED list
  BY DEF TakeTrigger, TakeSync, TriggerActed, AfterAction, UseAfterFree, memory, Overlaps
<1>1. "work" \in Tasks /\ queue' \in Seq(Jobs)
  BY TakenType DEF TakeTrigger, TakeSync, TriggerActed, AfterAction, Tasks
<1>2. CASE TakeTrigger
  <2>1. Head(queue).idx \in Nat \cup {NoIndex}
    BY <1>2, TakenType DEF TakeTrigger, Jobs
  <2>2. at' \in [Tasks -> Positions]
    BY <1>1, <1>2, <2>1, GotoType, IdleType DEF TakeTrigger, Places
  <2> QED
    BY <1>0, <1>1, <2>2, Unchanged DEF Kept
<1>3. CASE TakeSync
  <2>1. at' \in [Tasks -> Positions]
    BY <1>3, FirstType, VisitType DEF TakeSync
  <2> QED
    BY <1>0, <1>1, <2>1, Unchanged DEF Kept
<1>4. CASE TriggerActed
  <2>1. at' \in [Tasks -> Positions]
    BY <1>1, <1>4, GoType, RestType DEF TriggerActed, AfterAction, Places
  <2> QED
    BY <1>0, <1>1, <2>1, Unchanged DEF Kept
<1> QED
  BY <1>2, <1>3, <1>4

\* The clock, the calendar and the timers.
LEMMA TimerStepKeeps ==
  ASSUME Types, TimerStep
  PROVE  Kept
<1> USE DEF Types
<1>1. CASE ClockSet \/ CalendarPasses
  BY <1>1, Unchanged DEF ClockSet, CalendarPasses, memory, history, Kept
<1>2. CASE SyncTimer
  <2>1. [do |-> "sync", idx |-> NoIndex, for |-> "sync"] \in Jobs
    BY DEF Jobs
  <2>2. queue' \in Seq(Jobs)
    BY <1>2, <2>1, PostType DEF SyncTimer
  <2> QED
    BY <1>2, <2>2, Unchanged DEF SyncTimer, Kept
<1>3. ASSUME NEW k \in DOMAIN list, Fire(k) PROVE Kept
  <2>1. list[k] \in Records
    BY Elements
  <2>2. queue' \in Seq(Jobs)
    <3>1. [do |-> "trigger", idx |-> list[k].idx, for |-> list[k].id] \in Jobs
      BY <2>1 DEF Records, Jobs
    <3> QED
      BY <1>3, <3>1, PostType DEF Fire
  <2>3. at' \in [Tasks -> Positions]
    <3>1. \A t \in Tasks : Aged(at[t].data, list[k].id) \in Seq(Entries)
      BY AgedType DEF Positions
    <3>2. \A t \in Tasks : [at[t] EXCEPT !.data = Aged(@, list[k].id)] \in Positions
      BY <3>1 DEF Positions
    <3> QED
      BY <1>3, <3>2 DEF Fire
  <2>4. list' \in Seq(Records) /\ SameNames
    <3> DEFINE r == [list[k] EXCEPT !.ts = IF @ = "future" THEN "past" ELSE @,
                                    !.armed = (list[k].kind = "dated" /\ ~over)]
    <3>1. r \in Records /\ r.id = list[k].id /\ r.idx = list[k].idx
      BY <2>1 DEF Records, Times
    <3>2. list' = [list EXCEPT ![k] = r]
      BY <1>3, <2>1 DEF Fire, Records
    <3> QED
      BY <3>1, <3>2, Replace
  <2>5. nvs' \in Seq(Entries)
    BY <1>3, AgedType DEF Fire
  <2> QED
    BY <1>3, <2>2, <2>3, <2>4, <2>5 DEF Fire, Kept
<1> QED
  BY <1>1, <1>2, <1>3 DEF TimerStep

\* Requests other than add and remove.
LEMMA RequestKeeps ==
  ASSUME Types, NEW id, NEW kind \in Kinds,
         Edit(id, kind) \/ Enable(id) \/ Disable(id) \/ Reject
  PROVE  Kept
<1> USE DEF Types
<1>0. /\ overlap' \in BOOLEAN /\ dangling' \in BOOLEAN /\ index' = index /\ queue' = queue
      /\ nvs' = nvs
  BY DEF Edit, Enable, Disable, Reject, Begin, Overlaps, memory
<1>1. "cloud" \in Tasks /\ \A k \in DOMAIN list : list[k].idx \in Nat
  BY Elements DEF Tasks, Records
<1>2. Known(id) => WithId(id) \in DOMAIN list
  BY Found
<1>3. at' \in [Tasks -> Positions]
  <2>1. \/ Goto("cloud", "build", NoIndex, "idle", <<>>)
        \/ Known(id) /\ Goto("cloud", "enable", list[WithId(id)].idx, "report", <<>>)
    BY DEF Edit, Enable, Disable, Reject
  <2> QED
    BY <1>1, <1>2, <2>1, GotoType, IdleType DEF Places
<1>4. CASE Edit(id, kind)
  <2>1. list[WithId(id)] \in Records /\ WithId(id) \in DOMAIN list
    BY <1>2, <1>4, Elements DEF Edit
  <2> DEFINE e == [list[WithId(id)] EXCEPT !.kind = kind]
             n == [list[WithId(id)] EXCEPT !.kind = kind, !.ts = "none"]
  <2>2. /\ e \in Records /\ e.id = list[WithId(id)].id /\ e.idx = list[WithId(id)].idx
        /\ n \in Records /\ n.id = list[WithId(id)].id /\ n.idx = list[WithId(id)].idx
    BY <2>1 DEF Records, Times
  <2>3. CASE list' = [list EXCEPT ![WithId(id)] = Disabled(e)]
    <3> HIDE DEF e
    <3>1. /\ Disabled(e) \in Records /\ Disabled(e).id = list[WithId(id)].id
          /\ Disabled(e).idx = list[WithId(id)].idx
      BY <2>2, Revisions
    <3>2. list' \in Seq(Records) /\ SameNames
      BY <2>1, <2>3, <3>1, Replace
    <3> QED
      BY <1>0, <1>3, <3>2 DEF Kept
  <2>4. CASE list' = [list EXCEPT ![WithId(id)] = n]
    <3> HIDE DEF n
    <3>1. list' \in Seq(Records) /\ SameNames
      BY <2>1, <2>2, <2>4, Replace
    <3> QED
      BY <1>0, <1>3, <3>1 DEF Kept
  <2>5. \/ list' = [list EXCEPT ![WithId(id)] = Disabled(e)]
        \/ list' = [list EXCEPT ![WithId(id)] = n]
    BY <1>4, <2>1 DEF Edit, Records
  <2> QED
    BY <2>3, <2>4, <2>5
<1>5. CASE Disable(id)
  <2>1. list[WithId(id)] \in Records /\ WithId(id) \in DOMAIN list
        /\ list' = [list EXCEPT ![WithId(id)] = Disabled(list[WithId(id)])]
    BY <1>2, <1>5, Elements DEF Disable
  <2>2. list' \in Seq(Records) /\ SameNames
    BY <2>1, Revisions, Replace
  <2> QED
    BY <1>0, <1>3, <2>2 DEF Kept
<1>6. CASE Enable(id) \/ Reject
  BY <1>0, <1>3, <1>6, Unchanged DEF Enable, Reject, memory, Kept
<1> QED
  BY <1>4, <1>5, <1>6

-----------------------------------------------------------------------------
(* Steps that do not *)

\* The list has one more schedule, with the next index.
Grown ==
  /\ Len(list') = Len(list) + 1
  /\ \A k \in 1..Len(list) : list'[k] = list[k]
  /\ list'[Len(list) + 1].idx = index

\* An add, also when the list is full.
LEMMA AddGrows ==
  ASSUME Types, NEW id \in Ids, NEW kind \in Kinds, Add(id, kind)
  PROVE  Types' /\ index' = index + 1 /\ (SameNames \/ Grown)
<1> USE DEF Types
<1>0. /\ overlap' \in BOOLEAN /\ dangling' \in BOOLEAN /\ index' = index + 1 /\ queue' = queue
      /\ nvs' = nvs /\ AddNew(id, kind)
  BY DEF Add, AddNew, Begin, Overlaps
<1>1. at' \in [Tasks -> Positions]
  <2>1. \/ Goto("cloud", "build", NoIndex, "idle", <<>>)
        \/ Goto("cloud", "enable", index, "report", <<>>)
    BY <1>0 DEF AddNew
  <2>2. "cloud" \in Tasks
    BY DEF Tasks
  <2> QED
    BY <2>1, <2>2, GotoType, IdleType DEF Places
<1>2. CASE list' = Append(list, New(id, kind))
  <2>1. New(id, kind) \in Records /\ New(id, kind).idx = index
    BY DEF New, Records, Times
  <2>2. list' \in Seq(Records) /\ Grown
    BY <1>2, <2>1, AppendProperties DEF Grown
  <2> QED
    BY <1>0, <1>1, <2>2
<1>3. CASE UNCHANGED list
  BY <1>0, <1>1, <1>3, Unchanged
<1> QED
  BY <1>0, <1>2, <1>3 DEF AddNew

\* The list without its p-th schedule.
Without(p) ==
  /\ Len(list') = Len(list) - 1
  /\ \A k \in 1..Len(list') : list'[k] = list[IF k < p THEN k ELSE k + 1]

\* A remove.
LEMMA RemoveShrinks ==
  ASSUME Types, NEW id \in Ids, Remove(id)
  PROVE  Types' /\ index' = index /\ \E p \in 1..Len(list) : Without(p)
<1> USE DEF Types
<1>0. /\ overlap' \in BOOLEAN /\ dangling' \in BOOLEAN /\ index' = index /\ queue' = queue
      /\ nvs' = nvs
  BY DEF Remove, Begin, Overlaps
<1>1. at' \in [Tasks -> Positions]
  <2>1. "cloud" \in Tasks /\ Goto("cloud", "build", NoIndex, "idle", <<>>)
    BY DEF Tasks, Remove
  <2> QED
    BY <2>1, GotoType, IdleType DEF Places
<1> DEFINE p == WithId(id)
           front == SubSeq(list, 1, p - 1)
           back  == SubSeq(list, p + 1, Len(list))
<1>2. p \in 1..Len(list) /\ Len(list) \in Nat /\ \A k \in 1..Len(list) : list[k] \in Records
  BY Found, Elements DEF Remove
<1>3. list' = front \o back
  BY DEF Remove, SeqExt!RemoveAt
<1> HIDE DEF p
<1>4. /\ front \in Seq(Records) /\ Len(front) = p - 1
      /\ \A k \in 1..(p - 1) : front[k] = list[k]
  <2>1. \A k \in 1..(p - 1) : list[k] \in Records
    BY <1>2
  <2> QED
    BY <1>2, <2>1, SubSeqProperties
<1>5. /\ back \in Seq(Records) /\ Len(back) = Len(list) - p
      /\ \A k \in 1..(Len(list) - p) : back[k] = list[p + k]
  <2>1. \A k \in (p + 1)..Len(list) : list[k] \in Records
    BY <1>2
  <2> QED
    BY <1>2, <2>1, SubSeqProperties
<1> HIDE DEF front, back
<1>6. /\ list' \in Seq(Records) /\ Len(list') = Len(list) - 1
      /\ \A k \in 1..(Len(list) - 1) : list'[k] = IF k <= p - 1 THEN front[k] ELSE back[k - (p - 1)]
  <2>1. /\ list' \in Seq(Records) /\ Len(list') = Len(front) + Len(back)
        /\ \A k \in 1..(Len(front) + Len(back)) :
             list'[k] = IF k <= Len(front) THEN front[k] ELSE back[k - Len(front)]
    BY <1>3, <1>4, <1>5, ConcatProperties
  <2> QED
    BY <1>2, <1>4, <1>5, <2>1
<1>7. \A k \in 1..(Len(list) - 1) : list'[k] = list[IF k < p THEN k ELSE k + 1]
  <2> SUFFICES ASSUME NEW k \in 1..(Len(list) - 1)
               PROVE  list'[k] = list[IF k < p THEN k ELSE k + 1]
    OBVIOUS
  <2>1. CASE k < p
    BY <1>2, <1>4, <1>6, <2>1
  <2>2. CASE ~(k < p)
    <3>1. k - (p - 1) \in 1..(Len(list) - p) /\ p + (k - (p - 1)) = k + 1 /\ ~(k <= p - 1)
      BY <1>2, <2>2
    <3>2. back[k - (p - 1)] = list[k + 1]
      BY <1>5, <3>1
    <3> QED
      BY <1>6, <2>2, <3>1, <3>2
  <2> QED
    BY <2>1, <2>2
<1>8. Without(p)
  BY <1>6, <1>7 DEF Without
<1> QED
  BY <1>0, <1>1, <1>2, <1>6, <1>8

\* The index of a schedule is its place.
Numbered(l) == \A k \in 1..Len(l) : l[k].idx = k - 1

\* The list that is read back from NVS.
LEMMA RestoredType ==
  ASSUME NEW e \in Seq(Entries), NEW known
  PROVE  /\ RestoredList(e, known) \in Seq(Records)
         /\ Len(RestoredList(e, known)) = Len(e)
         /\ Numbered(RestoredList(e, known))
<1>1. DOMAIN e = 1..Len(e) /\ Len(e) \in Nat /\ \A k \in 1..Len(e) : e[k] \in Entries
  BY LenProperties, ElementOfSeq
<1> DEFINE new(k) == LET r == Restored(e[k], k) IN
                     IF Dead(r, known) THEN Disabled(r)
                     ELSE IF known /\ r.on THEN Armed(r) ELSE r
<1>2. ASSUME NEW k \in 1..Len(e) PROVE new(k) \in Records /\ new(k).idx = k - 1
  <2>1. Restored(e[k], k) \in Records /\ Restored(e[k], k).idx = k - 1
    BY <1>1 DEF Restored, Records, Entries
  <2>2. new(k) \in {Disabled(Restored(e[k], k)), Armed(Restored(e[k], k)), Restored(e[k], k)}
    OBVIOUS
  <2> QED
    BY <2>1, <2>2, Revisions
<1>3. RestoredList(e, known) = [k \in 1..Len(e) |-> new(k)]
  BY <1>1 DEF RestoredList
<1> HIDE DEF new
<1>4. RestoredList(e, known) \in [1..Len(e) -> Records]
  BY <1>2, <1>3
<1>5. RestoredList(e, known) \in Seq(Records)
  BY <1>1, <1>4, SeqDef
<1>6. Len(RestoredList(e, known)) = Len(e)
  BY <1>1, <1>4, <1>5, LenProperties
<1> QED
  BY <1>2, <1>3, <1>5, <1>6 DEF Numbered

\* A reboot.
LEMMA BootRestores ==
  ASSUME Types, Boot
  PROVE  Types' /\ Numbered(list') /\ index' = Len(list') /\ queue' = <<>> /\ dangling' = FALSE
         /\ \A t \in Tasks : at'[t] = Idle
<1> USE DEF Types
<1>1. PICK gone \in SUBSET Ids :
        nvs' = [k \in DOMAIN nvs |->
                  IF nvs[k].id \in gone /\ nvs[k].ts = "future"
                  THEN [nvs[k] EXCEPT !.ts = "past"] ELSE nvs[k]]
  BY DEF Boot, WhileOff
<1>2. DOMAIN nvs = 1..Len(nvs) /\ Len(nvs) \in Nat /\ \A k \in 1..Len(nvs) : nvs[k] \in Entries
  BY LenProperties, ElementOfSeq
<1>3. nvs' \in [1..Len(nvs) -> Entries]
  <2>1. \A k \in 1..Len(nvs) : (IF nvs[k].id \in gone /\ nvs[k].ts = "future"
                               THEN [nvs[k] EXCEPT !.ts = "past"] ELSE nvs[k]) \in Entries
    BY <1>2 DEF Entries, Times
  <2> QED
    BY <1>1, <1>2, <2>1
<1>4. nvs' \in Seq(Entries) /\ Len(nvs') = Len(nvs)
  BY <1>2, <1>3, SeqDef, LenProperties
<1>5. list' = RestoredList(nvs', clock') /\ index' = Len(nvs)
  BY DEF Boot
<1>6. list' \in Seq(Records) /\ Len(list') = Len(nvs) /\ Numbered(list')
  BY <1>4, <1>5, RestoredType
<1>7. \A t \in Tasks : at'[t] = Idle
  BY DEF Boot
<1>8. at' \in [Tasks -> Positions]
  BY IdleType DEF Boot
<1>9. queue' = <<>> /\ queue' \in Seq(Jobs)
  BY EmptySeq DEF Boot
<1>10. overlap' = FALSE /\ dangling' = FALSE
  BY DEF Boot
<1> QED
  BY <1>2, <1>4, <1>5, <1>6, <1>7, <1>8, <1>9, <1>10

\* A sequence of one.
LEMMA Singleton ==
  ASSUME NEW S, NEW e \in S
  PROVE  <<e>> \in Seq(S) /\ Len(<<e>>) \in Nat
OBVIOUS

\* The initial state is one after a reboot.
LEMMA InitRestores ==
  ASSUME Init
  PROVE  Types /\ Numbered(list) /\ index = Len(list) /\ queue = <<>> /\ dangling = FALSE
         /\ \A t \in Tasks : at[t] = Idle
<1> USE DEF Init, SchedulesInit
<1>1. PICK id \in Ids : nvs = <<[id |-> id, kind |-> "once", on |-> TRUE, ts |-> "none"]>>
  OBVIOUS
<1>2. [id |-> id, kind |-> "once", on |-> TRUE, ts |-> "none"] \in Entries
  BY DEF Entries, Kinds, Times
<1>3. nvs \in Seq(Entries) /\ Len(nvs) \in Nat
  BY <1>1, <1>2, Singleton
<1>4. list = RestoredList(nvs, clock) /\ index = Len(nvs)
  OBVIOUS
<1>5. list \in Seq(Records) /\ Len(list) = Len(nvs) /\ Numbered(list)
  BY <1>3, <1>4, RestoredType
<1>6. queue = <<>> /\ queue \in Seq(Jobs)
  BY EmptySeq
<1>7. at \in [Tasks -> Positions] /\ \A t \in Tasks : at[t] = Idle
  BY IdleType
<1> QED
  BY <1>3, <1>4, <1>5, <1>6, <1>7 DEF Types

-----------------------------------------------------------------------------
(* Triggers *)

\* An index is given once.
Indices ==
  /\ \A k \in DOMAIN list : list[k].idx < index
  /\ \A j, k \in DOMAIN list : list[j].idx = list[k].idx => j = k

\* A trigger has an index that was given, so that no later schedule can have it.
QueueInv ==
  /\ \A j \in DOMAIN queue : queue[j].do = "trigger" => queue[j].idx < index
  /\ TriggerNamesItsSchedule

TriggerInv == Indices /\ QueueInv

\* Every job of the queue was in it before.
NothingPosted == \A j \in DOMAIN queue' : \E i \in DOMAIN queue : queue'[j] = queue[i]

\* The jobs of the queue.
LEMMA QueueElements ==
  ASSUME queue \in Seq(Jobs)
  PROVE  /\ DOMAIN queue = 1..Len(queue) /\ Len(queue) \in Nat
         /\ \A j \in DOMAIN queue : queue[j] \in Jobs
BY LenProperties, ElementOfSeq

\* Triggers still name their schedules after a step that keeps the list and posts nothing.
LEMMA KeptTrigger ==
  ASSUME Types, TriggerInv, Kept, NothingPosted
  PROVE  TriggerInv'
<1>1. /\ DOMAIN list = 1..Len(list) /\ DOMAIN list' = 1..Len(list)
      /\ index \in Nat /\ index' \in Nat
      /\ \A k \in 1..Len(list) : list[k].idx \in Nat
  <2>1. list' \in Seq(Records) /\ Len(list') = Len(list) /\ index' \in Nat
    BY DEF Kept, Types, SameNames
  <2>2. DOMAIN list' = 1..Len(list')
    BY <2>1, LenProperties
  <2> QED
    BY <2>1, <2>2, Elements DEF Types, Records
<1>2. Indices'
  BY <1>1 DEF Indices, TriggerInv, Kept, SameNames
<1>3. \A j \in DOMAIN queue : queue[j].idx \in Nat \cup {NoIndex}
  BY QueueElements DEF Types, Jobs
<1>4. \A j \in DOMAIN queue' : queue'[j].do = "trigger" => queue'[j].idx < index'
  BY <1>1, <1>3 DEF TriggerInv, QueueInv, Kept, NothingPosted, NoIndex
<1>5. TriggerNamesItsSchedule'
  BY <1>1 DEF TriggerInv, QueueInv, Kept, SameNames, NothingPosted, TriggerNamesItsSchedule
<1> QED
  BY <1>2, <1>4, <1>5 DEF TriggerInv, QueueInv

\* What the work queue task takes from the queue.
LEMMA TailPostsNothing ==
  ASSUME queue \in Seq(Jobs), queue # <<>>, queue' = Tail(queue)
  PROVE  NothingPosted
<1>1. /\ Tail(queue) \in Seq(Jobs) /\ Len(Tail(queue)) = Len(queue) - 1
      /\ \A i \in 1..Len(Tail(queue)) : Tail(queue)[i] = queue[i + 1]
  BY HeadTailProperties
<1>2. DOMAIN Tail(queue) = 1..Len(Tail(queue)) /\ DOMAIN queue = 1..Len(queue) /\ Len(queue) \in Nat
  BY <1>1, LenProperties
<1> QED
  BY <1>1, <1>2 DEF NothingPosted

\* A job that is posted.
LEMMA PostTrigger ==
  ASSUME Types, TriggerInv, Kept, NEW job \in Jobs, Post(job),
         \/ job.do # "trigger"
         \/ /\ job.idx < index
            /\ \A k \in DOMAIN list : list[k].idx = job.idx => list[k].id = job.for
  PROVE  TriggerInv'
<1>1. CASE UNCHANGED queue
  <2>1. NothingPosted
    BY <1>1 DEF NothingPosted
  <2> QED
    BY <2>1, KeptTrigger
<1>2. CASE queue' = Append(queue, job)
  <2>1. /\ queue' \in Seq(Jobs) /\ Len(queue') = Len(queue) + 1
        /\ \A j \in 1..Len(queue) : queue'[j] = queue[j]
        /\ queue'[Len(queue) + 1] = job
    BY <1>2, AppendProperties DEF Types
  <2>2. DOMAIN queue' = 1..(Len(queue) + 1) /\ DOMAIN queue = 1..Len(queue) /\ Len(queue) \in Nat
        /\ \A j \in 1..Len(queue) : queue[j].idx \in Nat \cup {NoIndex}
    BY <2>1, LenProperties, QueueElements DEF Types, Jobs
  <2>3. /\ DOMAIN list = 1..Len(list) /\ DOMAIN list' = 1..Len(list) /\ index \in Nat
        /\ index' \in Nat /\ \A k \in 1..Len(list) : list[k].idx \in Nat
    <3>1. list' \in Seq(Records) /\ Len(list') = Len(list) /\ index' \in Nat
      BY DEF Kept, Types, SameNames
    <3>2. DOMAIN list' = 1..Len(list')
      BY <3>1, LenProperties
    <3> QED
      BY <3>1, <3>2, Elements DEF Types, Records
  <2>4. Indices'
    BY <2>3 DEF Indices, TriggerInv, Kept, SameNames
  <2>5. job.idx \in Nat \cup {NoIndex}
    BY DEF Jobs
  <2>6. \A j \in DOMAIN queue' : queue'[j].do = "trigger" => queue'[j].idx < index'
    <3> SUFFICES ASSUME NEW j \in DOMAIN queue', queue'[j].do = "trigger"
                 PROVE  queue'[j].idx < index'
      OBVIOUS
    <3>1. CASE j \in 1..Len(queue)
      <4>1. queue'[j] = queue[j] /\ queue[j].idx < index /\ queue[j].idx \in Int
        BY <2>1, <2>2, <3>1 DEF TriggerInv, QueueInv, NoIndex
      <4> QED
        BY <2>3, <4>1 DEF Kept
    <3>2. CASE j = Len(queue) + 1
      <4>1. queue'[j] = job /\ job.idx < index /\ job.idx \in Int
        BY <2>1, <2>5, <3>2 DEF NoIndex
      <4> QED
        BY <2>3, <4>1 DEF Kept
    <3> QED
      BY <2>2, <3>1, <3>2
  <2>7. TriggerNamesItsSchedule'
    <3> SUFFICES ASSUME NEW j \in DOMAIN queue', NEW k \in DOMAIN list',
                        queue'[j].do = "trigger", queue'[j].idx = list'[k].idx
                 PROVE  queue'[j].for = list'[k].id
      BY DEF TriggerNamesItsSchedule
    <3>1. k \in DOMAIN list /\ list'[k].id = list[k].id /\ list'[k].idx = list[k].idx
      BY <2>3 DEF Kept, SameNames
    <3>2. CASE j \in 1..Len(queue)
      BY <2>1, <2>2, <3>1, <3>2 DEF TriggerInv, QueueInv, TriggerNamesItsSchedule
    <3>3. CASE j = Len(queue) + 1
      BY <2>1, <3>1, <3>3
    <3> QED
      BY <2>2, <3>2, <3>3
  <2> QED
    BY <2>4, <2>6, <2>7 DEF TriggerInv, QueueInv
<1> QED
  BY <1>1, <1>2 DEF Post

\* No trigger in the queue has the index of a new schedule.
LEMMA AddTrigger ==
  ASSUME Types, TriggerInv, NEW id \in Ids, NEW kind \in Kinds, Add(id, kind)
  PROVE  TriggerInv'
<1>0. Types' /\ index' = index + 1 /\ queue' = queue /\ NothingPosted
  BY AddGrows DEF Add, NothingPosted
<1>1. CASE SameNames
  <2>1. Kept
    BY <1>0, <1>1 DEF Kept, Types
  <2> QED
    BY <1>0, <2>1, KeptTrigger
<1>2. CASE Grown
  <2>1. /\ DOMAIN list = 1..Len(list) /\ Len(list) \in Nat /\ index \in Nat
        /\ \A k \in DOMAIN list : list[k].idx \in Nat
    BY Elements DEF Types, Records
  <2>2. DOMAIN list' = 1..(Len(list) + 1)
    BY <1>0, <1>2, LenProperties DEF Types, Grown
  <2>3. \A k \in DOMAIN list' : \/ k \in DOMAIN list /\ list'[k] = list[k]
                                \/ k = Len(list) + 1 /\ list'[k].idx = index
    <3> SUFFICES ASSUME NEW k \in DOMAIN list'
                 PROVE  \/ k \in DOMAIN list /\ list'[k] = list[k]
                        \/ k = Len(list) + 1 /\ list'[k].idx = index
      OBVIOUS
    <3>1. k \in 1..Len(list) \/ k = Len(list) + 1
      BY <2>1, <2>2
    <3> QED
      BY <1>2, <2>1, <3>1 DEF Grown
  <2>4. Indices'
    <3>1. \A k \in DOMAIN list' : list'[k].idx < index'
      BY <1>0, <2>1, <2>3 DEF TriggerInv, Indices
    <3>2. \A j, k \in DOMAIN list' : list'[j].idx = list'[k].idx => j = k
      BY <2>1, <2>3 DEF TriggerInv, Indices
    <3> QED
      BY <3>1, <3>2 DEF Indices
  <2>5. \A j \in DOMAIN queue : queue[j].idx \in Int
    BY QueueElements DEF Types, Jobs, NoIndex
  <2>6. \A j \in DOMAIN queue' : queue'[j].do = "trigger" => queue'[j].idx < index'
    BY <1>0, <2>1, <2>5 DEF TriggerInv, QueueInv
  <2>7. TriggerNamesItsSchedule'
    <3> SUFFICES ASSUME NEW j \in DOMAIN queue, NEW k \in DOMAIN list',
                        queue[j].do = "trigger", queue[j].idx = list'[k].idx
                 PROVE  queue[j].for = list'[k].id
      BY <1>0 DEF TriggerNamesItsSchedule
    <3>1. queue[j].idx < index
      BY DEF TriggerInv, QueueInv
    <3>2. k \in DOMAIN list /\ list'[k] = list[k]
      BY <2>1, <2>3, <3>1
    <3> QED
      BY <3>2 DEF TriggerInv, QueueInv, TriggerNamesItsSchedule
  <2> QED
    BY <2>4, <2>6, <2>7 DEF TriggerInv, QueueInv
<1> QED
  BY <1>1, <1>2, AddGrows

\* Nor does one get another schedule when one is removed.
LEMMA RemoveTrigger ==
  ASSUME Types, TriggerInv, NEW id \in Ids, Remove(id)
  PROVE  TriggerInv'
<1>1. Types' /\ index' = index /\ queue' = queue
  BY RemoveShrinks DEF Remove
<1>2. PICK p \in 1..Len(list) : Without(p)
  BY RemoveShrinks
<1>3. /\ DOMAIN list = 1..Len(list) /\ Len(list) \in Nat
      /\ DOMAIN list' = 1..(Len(list) - 1)
  BY <1>1, <1>2, Elements, LenProperties DEF Types, Without
<1> DEFINE from(k) == IF k < p THEN k ELSE k + 1
<1>4. /\ \A k \in DOMAIN list' : from(k) \in DOMAIN list /\ list'[k] = list[from(k)]
      /\ \A j, k \in DOMAIN list' : from(j) = from(k) => j = k
  BY <1>2, <1>3 DEF Without
<1> HIDE DEF from
<1>5. Indices'
  BY <1>1, <1>4 DEF TriggerInv, Indices
<1>6. QueueInv'
  BY <1>1, <1>4 DEF TriggerInv, QueueInv, TriggerNamesItsSchedule
<1> QED
  BY <1>5, <1>6 DEF TriggerInv

\* An empty queue and a list that is numbered.
LEMMA NumberedTrigger ==
  ASSUME Types, Numbered(list), index = Len(list), queue = <<>>
  PROVE  TriggerInv
<1>1. DOMAIN list = 1..Len(list) /\ Len(list) \in Nat
  BY Elements DEF Types
<1>2. Indices
  BY <1>1 DEF Numbered, Indices
<1> QED
  BY <1>2 DEF TriggerInv, QueueInv, TriggerNamesItsSchedule

\* A reboot empties the queue.
LEMMA BootTrigger ==
  ASSUME Types, Boot
  PROVE  TriggerInv'
<1>1. Types' /\ Numbered(list') /\ index' = Len(list') /\ queue' = <<>>
  BY BootRestores
<1>2. DOMAIN list' = 1..Len(list') /\ Len(list') \in Nat
  BY <1>1, LenProperties DEF Types
<1>3. Indices'
  BY <1>1, <1>2 DEF Numbered, Indices
<1> QED
  BY <1>1, <1>3 DEF TriggerInv, QueueInv, TriggerNamesItsSchedule

\* A timer posts the trigger of its own schedule.
LEMMA FireTrigger ==
  ASSUME Types, TriggerInv, NEW k \in DOMAIN list, Fire(k)
  PROVE  TriggerInv'
<1>1. Kept
  BY TimerStepKeeps DEF TimerStep
<1>2. list[k] \in Records
  BY Elements DEF Types
<1> DEFINE job == [do |-> "trigger", idx |-> list[k].idx, for |-> list[k].id]
<1>3. job \in Jobs
  BY <1>2 DEF Jobs, Records
<1>4. job.idx < index /\ \A j \in DOMAIN list : list[j].idx = job.idx => list[j].id = job.for
  BY DEF TriggerInv, Indices
<1>5. Post(job)
  BY DEF Fire
<1> HIDE DEF job
<1> QED
  BY <1>1, <1>3, <1>4, <1>5, PostTrigger

-----------------------------------------------------------------------------
(* Use after free *)

\* The task goes on to use the schedule at at[t].idx.
Holds(t) ==
  \/ at[t].pc \in {"enable", "check", "arm", "act", "disable", "visit", "next"}
  \/ at[t].pc \in {"build", "store"} /\ at[t].after = "next"

OverlapInv ==
  /\ dangling => overlap
  /\ \A t \in Tasks : Holds(t) => Listed(at[t].idx) \/ overlap

\* After the step the list has a schedule with index i.
Present(i) == \E k \in DOMAIN list' : list'[k].idx = i

\* Schedules that were listed still are, whatever else is.
StillListed == \A i : Listed(i) => Present(i)

\* A step that keeps the names keeps the indices.
LEMMA KeptListed ==
  ASSUME Types, Kept
  PROVE  StillListed
<1>1. DOMAIN list = 1..Len(list) /\ DOMAIN list' = 1..Len(list)
  <2>1. list' \in Seq(Records) /\ Len(list') = Len(list)
    BY DEF Kept, Types, SameNames
  <2>2. DOMAIN list' = 1..Len(list')
    BY <2>1, LenProperties
  <2> QED
    BY <2>1, <2>2, Elements DEF Types
<1> QED
  BY <1>1 DEF Listed, Present, StillListed, Kept, SameNames

\* A task that the step does not concern.
Unmoved(u) == at'[u].pc = at[u].pc /\ at'[u].idx = at[u].idx /\ at'[u].after = at[u].after

\* What a step owes for the task that makes it.
Secured(t) ==
  Holds(t)' => \/ overlap'
               \/ Present(at'[t].idx)
               \/ Holds(t) /\ at'[t].idx = at[t].idx

\* The step of a task that owes nothing keeps the invariant.
LEMMA OverlapStep ==
  ASSUME OverlapInv, StillListed, NEW t \in Tasks, \A u \in Tasks \ {t} : Unmoved(u),
         overlap => overlap', dangling' => overlap', Secured(t)
  PROVE  OverlapInv'
<1>1. ASSUME NEW u \in Tasks, Holds(u)' PROVE Listed(at[u].idx)' \/ overlap'
  <2>1. CASE u = t
    BY <1>1, <2>1 DEF Secured, OverlapInv, Listed, Present, StillListed
  <2>2. CASE u # t
    <3>1. Holds(u)
      BY <1>1, <2>2 DEF Holds, Unmoved
    <3>2. Listed(at[u].idx) \/ overlap
      BY <3>1 DEF OverlapInv
    <3>3. at'[u].idx = at[u].idx
      BY <2>2 DEF Unmoved
    <3> QED
      BY <3>2, <3>3 DEF Listed, Present, StillListed
  <2> QED
    BY <2>1, <2>2
<1> QED
  BY <1>1 DEF OverlapInv

\* The position of a task that goes on, returns or comes to rest.
LEMMA GoMoves ==
  ASSUME Types, NEW t \in Tasks, NEW pc, at' = [at EXCEPT ![t].pc = pc]
  PROVE  /\ \A u \in Tasks \ {t} : Unmoved(u)
         /\ at'[t].pc = pc /\ at'[t].idx = at[t].idx /\ at'[t].after = at[t].after
BY DEF Types, Positions, Unmoved

\* The position of a task that begins something else.
LEMMA GotoMoves ==
  ASSUME Types, NEW t \in Tasks, NEW pc, NEW i, NEW after, NEW data, Goto(t, pc, i, after, data)
  PROVE  /\ \A u \in Tasks \ {t} : Unmoved(u)
         /\ at'[t].pc = pc /\ at'[t].idx = i /\ at'[t].after = after
BY DEF Types, Goto, Unmoved

\* The position of a task that comes to rest.
LEMMA RestMoves ==
  ASSUME Types, NEW t \in Tasks, at' = [at EXCEPT ![t] = Idle]
  PROVE  (\A u \in Tasks \ {t} : Unmoved(u)) /\ at'[t].pc = "idle" /\ ~Holds(t)'
BY DEF Types, Unmoved, Holds, Idle

\* A task that returns holds a schedule only if it did before.
LEMMA ReturnMoves ==
  ASSUME Types, NEW t \in Tasks, Return(t)
  PROVE  /\ \A u \in Tasks \ {t} : Unmoved(u)
         /\ Holds(t)' => at[t].after = "next" /\ at'[t].idx = at[t].idx
<1>1. CASE at[t].after = "report"
  <2>1. Goto(t, "build", NoIndex, "idle", <<>>)
    BY <1>1 DEF Return
  <2> QED
    BY <2>1, GotoMoves DEF Holds
<1>2. CASE at[t].after = "next"
  <2>1. Goto(t, "next", at[t].idx, "idle", <<>>)
    BY <1>2 DEF Return
  <2> QED
    BY <1>2, <2>1, GotoMoves
<1>3. CASE at[t].after \notin {"report", "next"}
  <2>1. at' = [at EXCEPT ![t] = Idle]
    BY <1>3 DEF Return
  <2> QED
    BY <2>1, RestMoves
<1> QED
  BY <1>1, <1>2, <1>3

\* Enabling and reporting use the schedule the task holds.
LEMMA TaskStepOverlap ==
  ASSUME Types, OverlapInv, NEW t \in Tasks, TaskStep(t)
  PROVE  OverlapInv'
<1>1. StillListed
  BY TaskStepKeeps, KeptListed
<1>2. overlap' = overlap
  BY DEF TaskStep, SetEnabled, CheckSync, Arm, Build, Store, history
<1>3. dangling' => overlap'
  BY <1>2 DEF TaskStep, SetEnabled, CheckSync, Arm, Build, Store, history, UseAfterFree,
              OverlapInv, Holds, Freed
<1>4. CASE SetEnabled(t)
  <2>1. (\A u \in Tasks \ {t} : Unmoved(u)) /\ Secured(t)
    BY <1>4, GoMoves DEF SetEnabled, Secured, Holds
  <2> QED
    BY <1>1, <1>2, <1>3, <2>1, OverlapStep
<1>5. CASE CheckSync(t)
  <2>1. (\A u \in Tasks \ {t} : Unmoved(u)) /\ Secured(t)
    BY <1>5, GoMoves, ReturnMoves DEF CheckSync, Secured, Holds
  <2> QED
    BY <1>1, <1>2, <1>3, <2>1, OverlapStep
<1>6. CASE Arm(t)
  <2>1. (\A u \in Tasks \ {t} : Unmoved(u)) /\ Secured(t)
    BY <1>6, GoMoves, ReturnMoves DEF Arm, Secured, Holds
  <2> QED
    BY <1>1, <1>2, <1>3, <2>1, OverlapStep
<1>7. CASE Build(t)
  <2>1. (\A u \in Tasks \ {t} : Unmoved(u)) /\ Secured(t)
    BY <1>7 DEF Build, Secured, Holds, Unmoved, Types, Positions
  <2> QED
    BY <1>1, <1>2, <1>3, <2>1, OverlapStep
<1>8. CASE Store(t)
  <2>1. (\A u \in Tasks \ {t} : Unmoved(u)) /\ Secured(t)
    BY <1>8, ReturnMoves DEF Store, Secured, Holds
  <2> QED
    BY <1>1, <1>2, <1>3, <2>1, OverlapStep
<1> QED
  BY <1>4, <1>5, <1>6, <1>7, <1>8 DEF TaskStep

\* The schedule the sync job goes to.
LEMMA VisitMoves ==
  ASSUME Types, NEW i, Visit(i)
  PROVE  /\ \A u \in Tasks \ {"work"} : Unmoved(u)
         /\ Holds("work")' => at'["work"].idx = i /\ i # NoIndex
<1>1. "work" \in Tasks
  BY DEF Tasks
<1>2. CASE i = NoIndex
  BY <1>1, <1>2, RestMoves DEF Visit
<1>3. CASE i # NoIndex
  BY <1>1, <1>3, GotoMoves DEF Visit
<1> QED
  BY <1>2, <1>3

\* The sync job goes from one schedule of the list to the next.
LEMMA WorkStepOverlap ==
  ASSUME Types, OverlapInv, WorkStep
  PROVE  OverlapInv'
<1>1. StillListed /\ "work" \in Tasks
  BY WorkStepKeeps, KeptListed DEF Tasks
<1>2. overlap' = overlap
  BY DEF WorkStep, DisableExpired, VisitOne, VisitNext
<1>3. dangling' => overlap'
  BY <1>1, <1>2 DEF WorkStep, DisableExpired, VisitOne, VisitNext, UseAfterFree, OverlapInv, Holds,
                    Freed
<1>4. CASE DisableExpired
  <2>1. (\A u \in Tasks \ {"work"} : Unmoved(u)) /\ Secured("work")
    BY <1>1, <1>4, GoMoves DEF DisableExpired, Secured, Holds
  <2> QED
    BY <1>1, <1>2, <1>3, <2>1, OverlapStep
<1>5. CASE VisitOne
  <2>1. (\A u \in Tasks \ {"work"} : Unmoved(u)) /\ at'["work"].idx = at["work"].idx
    BY <1>1, <1>5 DEF VisitOne, Unmoved, Types, Positions
  <2>2. Secured("work")
    BY <1>5, <2>1 DEF VisitOne, Secured, Holds
  <2> QED
    BY <1>1, <1>2, <1>3, <2>1, <2>2, OverlapStep
<1>6. CASE VisitNext
  <2>1. \E i : Visit(i) /\ (i = NoIndex \/ Listed(i))
    <3>1. CASE Freed("work")
      <4>1. PICK i \in {list[k].idx : k \in DOMAIN list} \cup {NoIndex} : Visit(i)
        BY <1>6, <3>1 DEF VisitNext
      <4> QED
        BY <4>1 DEF Listed
    <3>2. CASE ~Freed("work")
      <4>0. Len(list) \in Nat /\ DOMAIN list = 1..Len(list)
        BY Elements DEF Types
      <4>1. PICK k \in 1..Len(list) : k = WithIndex(at["work"].idx)
        BY <3>2, <4>0, Found DEF Freed, Types
      <4>2. Visit(IF k = Len(list) THEN NoIndex ELSE list[k + 1].idx)
        BY <1>6, <3>2, <4>1 DEF VisitNext
      <4>3. CASE k = Len(list)
        BY <4>2, <4>3
      <4>4. CASE k # Len(list)
        <5>1. k + 1 \in 1..Len(list)
          BY <4>0, <4>1, <4>4
        <5>2. Listed(list[k + 1].idx)
          BY <4>0, <5>1 DEF Listed
        <5> QED
          BY <4>2, <4>4, <5>2
      <4> QED
        BY <4>3, <4>4
    <3> QED
      BY <3>1, <3>2
  <2>2. (\A u \in Tasks \ {"work"} : Unmoved(u)) /\ Secured("work")
    BY <1>1, <2>1, VisitMoves DEF Secured, StillListed
  <2> QED
    BY <1>1, <1>2, <1>3, <2>2, OverlapStep
<1> QED
  BY <1>4, <1>5, <1>6 DEF WorkStep

\* A trigger is looked up before it is used.
LEMMA TakeOverlap ==
  ASSUME Types, OverlapInv, TakeTrigger \/ TakeSync \/ TriggerActed
  PROVE  OverlapInv'
<1>1. StillListed /\ "work" \in Tasks
  BY TakeKeeps, KeptListed DEF Tasks
<1>2. overlap => overlap'
  BY DEF TakeTrigger, TakeSync, TriggerActed, AfterAction, Overlaps
<1>3. dangling' => overlap'
  BY <1>1, <1>2 DEF TakeTrigger, TakeSync, TriggerActed, AfterAction, UseAfterFree, OverlapInv,
                    Holds, Freed
<1>4. CASE TakeTrigger
  <2>1. (\A u \in Tasks \ {"work"} : Unmoved(u)) /\ Secured("work")
    <3>1. CASE Listed(Head(queue).idx) /\ Goto("work", "act", Head(queue).idx, "idle", <<>>)
      BY <1>1, <3>1, GotoMoves DEF Secured, StillListed
    <3>2. CASE UNCHANGED <<at, overlap>>
      BY <3>2 DEF Secured, Unmoved, Holds
    <3> QED
      BY <1>4, <3>1, <3>2 DEF TakeTrigger
  <2> QED
    BY <1>1, <1>2, <1>3, <2>1, OverlapStep
<1>5. CASE TakeSync
  <2>1. (\A u \in Tasks \ {"work"} : Unmoved(u)) /\ Secured("work")
    <3>1. CASE Visit(First)
      <4>1. First = NoIndex \/ Listed(First)
        <5>1. CASE list # <<>>
          <6>1. Len(list) \in Nat \ {0} /\ DOMAIN list = 1..Len(list)
            BY <5>1, EmptySeq, Elements DEF Types
          <6> QED
            BY <5>1, <6>1 DEF First, Listed
        <5> QED
          BY <5>1 DEF First
      <4> QED
        BY <1>1, <3>1, <4>1, VisitMoves DEF Secured, StillListed
    <3>2. CASE UNCHANGED <<sync, at, overlap>>
      BY <3>2 DEF Secured, Unmoved, Holds
    <3> QED
      BY <1>5, <3>1, <3>2 DEF TakeSync
  <2> QED
    BY <1>1, <1>2, <1>3, <2>1, OverlapStep
<1>6. CASE TriggerActed
  <2>1. (\A u \in Tasks \ {"work"} : Unmoved(u)) /\ Secured("work")
    BY <1>1, <1>6, GoMoves, RestMoves DEF TriggerActed, AfterAction, Secured, Holds
  <2> QED
    BY <1>1, <1>2, <1>3, <2>1, OverlapStep
<1> QED
  BY <1>4, <1>5, <1>6

\* Timers move no task.
LEMMA TimerStepOverlap ==
  ASSUME Types, OverlapInv, TimerStep
  PROVE  OverlapInv'
<1>1. StillListed /\ "work" \in Tasks
  BY TimerStepKeeps, KeptListed DEF Tasks
<1>2. overlap' = overlap /\ dangling' = dangling
  BY DEF TimerStep, ClockSet, CalendarPasses, SyncTimer, Fire, history
<1>3. \A u \in Tasks : Unmoved(u)
  <2>1. CASE UNCHANGED at
    BY <2>1 DEF Unmoved
  <2>2. ASSUME NEW k \in DOMAIN list, Fire(k) PROVE \A u \in Tasks : Unmoved(u)
    BY <2>2 DEF Fire, Unmoved, Types, Positions
  <2> QED
    BY <2>1, <2>2 DEF TimerStep, ClockSet, CalendarPasses, SyncTimer
<1>4. Secured("work")
  BY <1>1, <1>3 DEF Secured, Unmoved, Holds
<1> QED
  BY <1>1, <1>2, <1>3, <1>4, OverlapStep DEF OverlapInv

\* A request looks its schedule up as well.
LEMMA RequestOverlap ==
  ASSUME Types, OverlapInv, NEW id, NEW kind \in Kinds,
         Edit(id, kind) \/ Enable(id) \/ Disable(id) \/ Reject
  PROVE  OverlapInv'
<1>1. StillListed /\ "cloud" \in Tasks
  BY RequestKeeps, KeptListed DEF Tasks
<1>2. (overlap => overlap') /\ dangling' = dangling
  BY DEF Edit, Enable, Disable, Reject, Begin, Overlaps
<1>3. \/ Goto("cloud", "build", NoIndex, "idle", <<>>)
      \/ Known(id) /\ Goto("cloud", "enable", list[WithId(id)].idx, "report", <<>>)
  BY DEF Edit, Enable, Disable, Reject
<1>4. Known(id) => Listed(list[WithId(id)].idx)
  BY Found DEF Types, Listed
<1>5. (\A u \in Tasks \ {"cloud"} : Unmoved(u)) /\ Secured("cloud")
  <2>1. CASE Goto("cloud", "build", NoIndex, "idle", <<>>)
    BY <1>1, <2>1, GotoMoves DEF Secured, Holds
  <2>2. CASE Known(id) /\ Goto("cloud", "enable", list[WithId(id)].idx, "report", <<>>)
    BY <1>1, <1>4, <2>2, GotoMoves DEF Secured, StillListed
  <2> QED
    BY <1>3, <2>1, <2>2
<1> QED
  BY <1>1, <1>2, <1>5, OverlapStep DEF OverlapInv

\* A request enables the schedule it has added.
LEMMA AddOverlap ==
  ASSUME Types, OverlapInv, NEW id \in Ids, NEW kind \in Kinds, Add(id, kind)
  PROVE  OverlapInv'
<1>0. Types' /\ index' = index + 1 /\ "cloud" \in Tasks
  BY AddGrows DEF Tasks
<1>1. (overlap => overlap') /\ dangling' = dangling
  BY DEF Add, Begin, Overlaps
<1>2. CASE UNCHANGED list /\ Goto("cloud", "build", NoIndex, "idle", <<>>)
  <2>1. StillListed
    BY <1>2 DEF StillListed, Listed, Present
  <2>2. (\A u \in Tasks \ {"cloud"} : Unmoved(u)) /\ Secured("cloud")
    BY <1>0, <1>2, GotoMoves DEF Secured, Holds
  <2> QED
    BY <1>0, <1>1, <2>1, <2>2, OverlapStep DEF OverlapInv
<1>3. CASE /\ list' = Append(list, New(id, kind))
           /\ Goto("cloud", "enable", index, "report", <<>>)
  <2>1. New(id, kind) \in Records /\ New(id, kind).idx = index
    BY DEF New, Records, Times, Types
  <2>2. /\ Len(list') = Len(list) + 1 /\ \A k \in 1..Len(list) : list'[k] = list[k]
        /\ list'[Len(list) + 1].idx = index
    BY <1>3, <2>1, AppendProperties DEF Types
  <2>3. /\ DOMAIN list = 1..Len(list) /\ Len(list) \in Nat
        /\ DOMAIN list' = 1..(Len(list) + 1)
    BY <1>0, <2>2, Elements, LenProperties DEF Types
  <2>4. StillListed
    BY <2>2, <2>3 DEF StillListed, Listed, Present
  <2>5. Present(index)
    BY <2>2, <2>3 DEF Present
  <2>6. (\A u \in Tasks \ {"cloud"} : Unmoved(u)) /\ Secured("cloud")
    BY <1>0, <1>3, <2>5, GotoMoves DEF Secured
  <2> QED
    BY <1>0, <1>1, <2>4, <2>6, OverlapStep DEF OverlapInv
<1> QED
  BY <1>2, <1>3 DEF Add, AddNew

\* When a request removes a schedule the work queue task does nothing, or the
\* two overlap.
LEMMA RemoveOverlap ==
  ASSUME Types, OverlapInv, NEW id \in Ids, Remove(id)
  PROVE  OverlapInv'
<1>1. overlap' = (overlap \/ \E u \in Tasks \ {"cloud"} : Busy(u)) /\ dangling' = dangling
  BY DEF Remove, Begin, Overlaps
<1>2. "cloud" \in Tasks /\ (\A u \in Tasks \ {"cloud"} : Unmoved(u)) /\ ~Holds("cloud")'
  BY GotoMoves DEF Remove, Tasks, Holds
<1>3. ASSUME NEW u \in Tasks, Holds(u)' PROVE overlap'
  <2>1. u # "cloud" /\ Holds(u)
    BY <1>2, <1>3 DEF Unmoved, Holds
  <2>2. Busy(u)
    BY <2>1 DEF Busy, Holds
  <2> QED
    BY <1>1, <2>1, <2>2
<1> QED
  BY <1>1, <1>3 DEF OverlapInv

-----------------------------------------------------------------------------
(* The invariant of the schedules *)
SchedulesInv == Types /\ TriggerInv /\ OverlapInv

\* It holds at first.
LEMMA SchedulesInvInit == Init => SchedulesInv
<1> SUFFICES ASSUME Init PROVE SchedulesInv
  OBVIOUS
<1>1. OverlapInv
  BY InitRestores DEF OverlapInv, Holds, Idle
<1> QED
  BY <1>1, InitRestores, NumberedTrigger DEF SchedulesInv

\* A step that does not touch the schedules.
LEMMA SchedulesUntouched ==
  ASSUME SchedulesInv, UNCHANGED <<list, index, nvs, queue, at, overlap, dangling>>
  PROVE  SchedulesInv'
BY DEF SchedulesInv, Types, TriggerInv, Indices, QueueInv, TriggerNamesItsSchedule, OverlapInv,
       Holds, Listed

\* A request keeps it.
LEMMA RequestStep ==
  ASSUME SchedulesInv, Request
  PROVE  SchedulesInv'
<1> USE DEF SchedulesInv
<1>1. ASSUME NEW id, NEW kind \in Kinds, Edit(id, kind) \/ Enable(id) \/ Disable(id) \/ Reject
      PROVE  SchedulesInv'
  <2>1. Kept
    BY <1>1, RequestKeeps
  <2>2. NothingPosted
    BY <1>1 DEF Edit, Enable, Disable, Reject, NothingPosted
  <2> QED
    BY <1>1, <2>1, <2>2, KeptTrigger, RequestOverlap DEF Kept
<1>2. ASSUME NEW id \in Ids, NEW kind \in Kinds, Add(id, kind) PROVE SchedulesInv'
  BY <1>2, AddGrows, AddTrigger, AddOverlap
<1>3. ASSUME NEW id \in Ids, Remove(id) PROVE SchedulesInv'
  BY <1>3, RemoveShrinks, RemoveTrigger, RemoveOverlap
<1>4. "once" \in Kinds
  BY DEF Kinds
<1>5. CASE Reject
  BY <1>1, <1>4, <1>5
<1>6. CASE \E id \in Ids, kind \in Kinds : Add(id, kind) \/ Edit(id, kind)
  BY <1>1, <1>2, <1>6
<1>7. CASE \E id \in Ids : Remove(id) \/ Enable(id) \/ Disable(id)
  BY <1>1, <1>3, <1>4, <1>7
<1> QED
  BY <1>5, <1>6, <1>7 DEF Request

\* So does every step.
LEMMA SchedulesInvStep == SchedulesInv /\ [Next]_vars => SchedulesInv'
<1> SUFFICES ASSUME SchedulesInv, [Next]_vars PROVE SchedulesInv'
  OBVIOUS
<1>0. Types /\ TriggerInv /\ OverlapInv /\ queue \in Seq(Jobs)
  BY DEF SchedulesInv, Types
<1>1. CASE ScheduleRequest
  BY <1>1, RequestStep DEF ScheduleRequest
<1>2. CASE SceneRequest
  BY <1>2, SchedulesUntouched DEF SceneRequest, memory, history
<1>3. CASE TakeTrigger \/ TakeSync \/ TriggerActed
  <2>1. Kept
    BY <1>0, <1>3, TakeKeeps
  <2>2. NothingPosted
    <3>1. CASE UNCHANGED queue
      BY <3>1 DEF NothingPosted
    <3>2. CASE queue # <<>> /\ queue' = Tail(queue)
      BY <1>0, <3>2, TailPostsNothing
    <3> QED
      BY <1>3, <3>1, <3>2 DEF TakeTrigger, TakeSync, TriggerActed, AfterAction
  <2> QED
    BY <1>0, <1>3, <2>1, <2>2, KeptTrigger, TakeOverlap DEF Kept, SchedulesInv
<1>4. CASE Reboot
  <2>1. Boot
    BY <1>4 DEF Reboot
  <2>2. OverlapInv'
    BY <1>0, <2>1, BootRestores DEF OverlapInv, Holds, Idle
  <2> QED
    BY <1>0, <2>1, <2>2, BootRestores, BootTrigger DEF SchedulesInv
<1>5. ASSUME NEW t \in Tasks, TaskStep(t) PROVE SchedulesInv'
  <2>1. Kept
    BY <1>0, <1>5, TaskStepKeeps
  <2>2. NothingPosted
    BY <1>5 DEF TaskStep, SetEnabled, CheckSync, Arm, Build, Store, NothingPosted
  <2> QED
    BY <1>0, <1>5, <2>1, <2>2, KeptTrigger, TaskStepOverlap DEF Kept, SchedulesInv
<1>6. CASE WorkStep
  <2>1. Kept
    BY <1>0, <1>6, WorkStepKeeps
  <2>2. NothingPosted
    BY <1>6 DEF WorkStep, DisableExpired, VisitOne, VisitNext, NothingPosted
  <2> QED
    BY <1>0, <1>6, <2>1, <2>2, KeptTrigger, WorkStepOverlap DEF Kept, SchedulesInv
<1>7. CASE TimerStep
  <2>1. Kept
    BY <1>0, <1>7, TimerStepKeeps
  <2>2. TriggerInv'
    <3>1. CASE ClockSet \/ CalendarPasses
      <4>1. NothingPosted
        BY <3>1 DEF ClockSet, CalendarPasses, NothingPosted
      <4> QED
        BY <1>0, <2>1, <4>1, KeptTrigger
    <3>2. CASE SyncTimer
      <4>1. [do |-> "sync", idx |-> NoIndex, for |-> "sync"] \in Jobs
        BY DEF Jobs
      <4> QED
        BY <1>0, <2>1, <3>2, <4>1, PostTrigger DEF SyncTimer
    <3> QED
      BY <1>0, <1>7, <3>1, <3>2, FireTrigger DEF TimerStep
  <2> QED
    BY <1>0, <1>7, <2>1, <2>2, TimerStepOverlap DEF Kept, SchedulesInv
<1>8. CASE UNCHANGED schedules
  BY <1>8, SchedulesUntouched DEF schedules, memory, history
<1> QED
  BY <1>1, <1>2, <1>3, <1>4, <1>5, <1>6, <1>7, <1>8 DEF Next, Trigger, vars

\* A trigger in the queue never runs another schedule than the one that fired,
\* whatever was added or removed since, for any number of schedules and any
\* length of the queue.  It rests on the index being given only once between
\* two reboots.  (esp_rmaker_schedule.c: the index of esp_rmaker_schedule_new and
\* its use in esp_rmaker_schedule_trigger_work_cb.)
THEOREM AutomationTriggerNames == Spec => []TriggerNamesItsSchedule
<1>1. SchedulesInv => TriggerNamesItsSchedule
  BY DEF SchedulesInv, TriggerInv, QueueInv
<1> QED
  BY <1>1, SchedulesInvInit, SchedulesInvStep, PTL DEF Spec

\* No task uses a schedule after it was freed unless a request removed it while
\* the work queue task was at work: a trigger that finds its schedule gone does
\* nothing.  (esp_rmaker_schedule.c: esp_rmaker_schedule_operation_remove frees
\* it, the work queue task looks it up.)
THEOREM AutomationUseAfterFree == Spec => []UseAfterFreeNeedsOverlap
<1>1. SchedulesInv => UseAfterFreeNeedsOverlap
  BY DEF SchedulesInv, OverlapInv, UseAfterFreeNeedsOverlap
<1> QED
  BY <1>1, SchedulesInvInit, SchedulesInvStep, PTL DEF Spec

-----------------------------------------------------------------------------
(* Scenes *)

\* The request with which a schedule activates its scene.
Activations == [op : {"activate"}, id : {ActionScene}]

\* The fields of a handler, whatever the request holds.
Handlers(rest, data) ==
  [pc : {"idle", "next", "store"}, rest : {rest}, report : BOOLEAN, changed : BOOLEAN,
   undone : BOOLEAN, data : {data}]

HandlerFields ==
  \A t \in SceneTasks : handler[t] \in Handlers(handler[t].rest, handler[t].data)

SceneTypes ==
  /\ DOMAIN handler = SceneTasks
  /\ HandlerFields
  /\ masked \in BOOLEAN

\* The work queue task handles nothing but the action of a schedule.
WorkInv ==
  /\ handler["work"].pc \in {"idle", "next"}
  /\ handler["work"].rest \in Seq(Activations)
  /\ handler["work"].report = FALSE /\ handler["work"].changed = FALSE
  /\ handler["work"].undone = FALSE

\* A request of the cloud that has changed the scenes is on its way to a
\* report, or has had it taken back.
CloudInv ==
  /\ handler["cloud"].pc \in {"idle", "next", "store"}
  /\ handler["cloud"].pc = "idle" => scenesNvs = scenes \/ masked
  /\ handler["cloud"].pc = "next" =>
       /\ scenesNvs = scenes \/ masked \/ handler["cloud"].changed
       /\ handler["cloud"].changed => handler["cloud"].report \/ handler["cloud"].undone
  /\ handler["cloud"].pc = "store" => handler["cloud"].data = scenes

ScenesInv == SceneTypes /\ WorkInv /\ CloudInv

\* What an idle task has.
LEMMA RequestFacts ==
  /\ NoRequest \in Handlers(NoRequest.rest, NoRequest.data)
  /\ NoRequest.pc = "idle" /\ NoRequest.report = FALSE /\ NoRequest.changed = FALSE
  /\ NoRequest.undone = FALSE /\ NoRequest.rest \in Seq(Activations)
<1>1. NoRequest.rest = <<>>
  BY DEF NoRequest
<1>2. NoRequest.rest \in Seq(Activations)
  BY <1>1, EmptySeq
<1> QED
  BY <1>2 DEF NoRequest, Handlers

\* What an object that is not skipped leaves of the request.
LEMMA HandledFacts ==
  ASSUME SceneTypes, NEW t \in SceneTasks, NEW op, Handled(t, op)
  PROVE  /\ DOMAIN handler' = SceneTasks
         /\ \A u \in SceneTasks \ {t} : handler'[u] = handler[u]
         /\ handler'[t] \in Handlers(handler'[t].rest, handler'[t].data)
         /\ handler'[t].pc = handler[t].pc
         /\ handler'[t].rest = Tail(handler[t].rest)
         /\ handler'[t].report = Reports(op)
         /\ handler'[t].changed = (handler[t].changed \/ op # "activate")
         /\ handler'[t].undone = (op = "activate" /\ handler[t].changed)
<1>1. handler[t] \in Handlers(handler[t].rest, handler[t].data)
  BY DEF SceneTypes, HandlerFields
<1>2. /\ Reports(op) \in BOOLEAN
      /\ (handler[t].changed \/ op # "activate") \in BOOLEAN
      /\ (op = "activate" /\ handler[t].changed) \in BOOLEAN
  BY <1>1 DEF Reports, Handlers
<1>3. handler'[t] = [handler[t] EXCEPT
                       !.rest = Tail(handler[t].rest), !.report = Reports(op),
                       !.changed = (handler[t].changed \/ op # "activate"),
                       !.undone = (op = "activate" /\ handler[t].changed)]
  BY DEF SceneTypes, Handled
<1>4. handler'[t] \in Handlers(handler'[t].rest, handler'[t].data)
  BY <1>1, <1>2, <1>3 DEF Handlers
<1> QED
  BY <1>4 DEF SceneTypes, HandlerFields, Handlers, Handled

\* The changed flag and the others are truth values.
LEMMA HandlerBooleans ==
  ASSUME SceneTypes, NEW t \in SceneTasks
  PROVE  handler[t].report \in BOOLEAN /\ handler[t].changed \in BOOLEAN
         /\ handler[t].undone \in BOOLEAN
BY DEF SceneTypes, HandlerFields, Handlers

LEMMA ScenesInvInit == Init => ScenesInv
<1> SUFFICES ASSUME Init PROVE ScenesInv
  OBVIOUS
<1>1. \A t \in SceneTasks : handler[t] = NoRequest
  BY DEF Init, ScenesInit
<1>2. SceneTypes
  BY <1>1, RequestFacts DEF Init, ScenesInit, SceneTypes, HandlerFields
<1>3. WorkInv
  BY <1>1, RequestFacts DEF WorkInv, SceneTasks
<1>4. CloudInv
  BY <1>1, RequestFacts DEF CloudInv, SceneTasks, Init, ScenesInit
<1> QED
  BY <1>2, <1>3, <1>4 DEF ScenesInv

\* The work queue task never changes a scene or asks for a report.
LEMMA WorkSceneStep ==
  ASSUME ScenesInv, SceneStep("work")
  PROVE  ScenesInv'
<1>0. SceneTypes /\ WorkInv /\ CloudInv
  BY DEF ScenesInv
<1>1. ASSUME HasObject("work")
      PROVE  Object("work").op = "activate" /\ Tail(handler["work"].rest) \in Seq(Activations)
  <2>1. handler["work"].rest \in Seq(Activations) /\ handler["work"].rest # <<>>
    BY <1>0, <1>1 DEF HasObject, WorkInv
  <2>2. Head(handler["work"].rest) \in Activations
        /\ Tail(handler["work"].rest) \in Seq(Activations)
    BY <2>1, HeadTailProperties
  <2> QED
    BY <2>2 DEF Object, Activations
<1>2. CASE ObjectAdd("work") \/ ObjectEdit("work") \/ ObjectRemove("work")
  BY <1>1, <1>2 DEF ObjectAdd, ObjectEdit, ObjectRemove
<1>3. CASE ObjectActivate("work")
  <2>1. /\ HasObject("work") /\ UNCHANGED <<scenes, scenesNvs, masked>>
        /\ Handled("work", "activate")
    BY <1>3 DEF ObjectActivate
  <2>2. SceneTypes'
    BY <1>0, <2>1, HandledFacts DEF SceneTypes, HandlerFields, SceneTasks
  <2>3. WorkInv'
    <3>1. /\ handler'["work"].pc = handler["work"].pc
          /\ handler'["work"].rest = Tail(handler["work"].rest)
          /\ handler'["work"].report = Reports("activate")
          /\ handler'["work"].changed = (handler["work"].changed \/ "activate" # "activate")
          /\ handler'["work"].undone = ("activate" = "activate" /\ handler["work"].changed)
      BY <1>0, <2>1, HandledFacts, Zenon DEF SceneTasks
    <3>2. /\ handler'["work"].report = FALSE /\ handler'["work"].changed = FALSE
          /\ handler'["work"].undone = FALSE
      <4>1. handler["work"].changed = FALSE
        BY <1>0 DEF WorkInv
      <4>2. Reports("activate") = FALSE
        BY DEF Reports
      <4> QED
        BY <3>1, <4>1, <4>2, Zenon
    <3>3. Tail(handler["work"].rest) \in Seq(Activations)
      BY <1>1, <2>1, Zenon
    <3>4. handler'["work"].rest \in Seq(Activations)
      BY <3>1, <3>3, Zenon
    <3> QED
      BY <1>0, <3>1, <3>2, <3>4 DEF WorkInv
  <2>4. CloudInv'
    BY <1>0, <2>1, HandledFacts, HandlerBooleans DEF SceneTasks, CloudInv, HasObject
  <2> QED
    BY <2>2, <2>3, <2>4 DEF ScenesInv
<1>4. CASE ObjectSkip("work")
  <2>1. /\ HasObject("work") /\ UNCHANGED <<scenes, scenesNvs, masked>>
        /\ handler' = [handler EXCEPT !["work"].rest = Tail(@)]
    BY <1>0, <1>4 DEF ObjectSkip
  <2>2. SceneTypes'
    BY <1>0, <2>1 DEF SceneTypes, HandlerFields, Handlers, SceneTasks
  <2>3. WorkInv'
    BY <1>0, <1>1, <2>1 DEF SceneTypes, HandlerFields, Handlers, SceneTasks, WorkInv
  <2>4. CloudInv'
    BY <1>0, <2>1 DEF SceneTypes, HandlerFields, Handlers, SceneTasks, CloudInv, HasObject
  <2> QED
    BY <2>2, <2>3, <2>4 DEF ScenesInv
<1>5. CASE EndScenes("work") \/ StoreScenes("work")
  <2>1. /\ handler' = [handler EXCEPT !["work"] = NoRequest]
        /\ UNCHANGED <<scenes, scenesNvs, masked>>
    BY <1>0, <1>5 DEF EndScenes, StoreScenes, WorkInv, SceneTypes
  <2>2. handler'["work"] = NoRequest /\ handler'["cloud"] = handler["cloud"]
        /\ DOMAIN handler' = SceneTasks
    BY <1>0, <2>1 DEF SceneTypes, SceneTasks
  <2>3. SceneTypes' /\ WorkInv'
    BY <1>0, <2>1, <2>2, RequestFacts DEF SceneTypes, HandlerFields, Handlers, SceneTasks, WorkInv
  <2>4. CloudInv'
    BY <1>0, <2>1, <2>2 DEF CloudInv
  <2> QED
    BY <2>3, <2>4 DEF ScenesInv
<1> QED
  BY <1>2, <1>3, <1>4, <1>5 DEF SceneStep

\* A step of a request from the cloud.
LEMMA CloudSceneStep ==
  ASSUME ScenesInv, SceneStep("cloud")
  PROVE  ScenesInv'
<1>0. SceneTypes /\ WorkInv /\ CloudInv
  BY DEF ScenesInv
<1>1. CASE ObjectAdd("cloud") \/ ObjectEdit("cloud") \/ ObjectRemove("cloud")
  <2>1. /\ HasObject("cloud") /\ UNCHANGED <<scenesNvs, masked>>
        /\ \E op \in {"add", "edit", "remove"} : Handled("cloud", op)
    BY <1>1 DEF ObjectAdd, ObjectEdit, ObjectRemove
  <2>2. SceneTypes'
    BY <1>0, <2>1, HandledFacts DEF SceneTypes, HandlerFields, SceneTasks
  <2>3. WorkInv'
    BY <1>0, <2>1, HandledFacts DEF SceneTasks, WorkInv
  <2>4. CloudInv'
    BY <1>0, <2>1, HandledFacts DEF SceneTasks, CloudInv, HasObject, Reports
  <2> QED
    BY <2>2, <2>3, <2>4 DEF ScenesInv
<1>2. CASE ObjectActivate("cloud")
  <2>1. /\ HasObject("cloud") /\ UNCHANGED <<scenes, scenesNvs, masked>>
        /\ Handled("cloud", "activate")
    BY <1>2 DEF ObjectActivate
  <2>2. SceneTypes'
    BY <1>0, <2>1, HandledFacts DEF SceneTypes, HandlerFields, SceneTasks
  <2>3. WorkInv'
    BY <1>0, <2>1, HandledFacts DEF SceneTasks, Reports, WorkInv
  <2>4. CloudInv'
    BY <1>0, <2>1, HandledFacts, HandlerBooleans DEF SceneTasks, CloudInv, HasObject
  <2> QED
    BY <2>2, <2>3, <2>4 DEF ScenesInv
<1>3. CASE ObjectSkip("cloud")
  <2>1. /\ HasObject("cloud") /\ UNCHANGED <<scenes, scenesNvs, masked>>
        /\ handler' = [handler EXCEPT !["cloud"].rest = Tail(@)]
    BY <1>0, <1>3 DEF ObjectSkip
  <2>2. SceneTypes'
    BY <1>0, <2>1 DEF SceneTypes, HandlerFields, Handlers, SceneTasks
  <2>3. WorkInv'
    BY <1>0, <2>1 DEF SceneTypes, HandlerFields, Handlers, SceneTasks, WorkInv
  <2>4. CloudInv'
    BY <1>0, <2>1 DEF SceneTypes, HandlerFields, Handlers, SceneTasks, CloudInv, HasObject
  <2> QED
    BY <2>2, <2>3, <2>4 DEF ScenesInv
<1>4. CASE EndScenes("cloud")
  <2>1. CASE /\ ~handler["cloud"].report
             /\ handler' = [handler EXCEPT !["cloud"] = NoRequest]
             /\ masked' = (masked \/ handler["cloud"].undone)
    <3>1. handler'["cloud"] = NoRequest /\ handler'["work"] = handler["work"]
          /\ DOMAIN handler' = SceneTasks
      BY <1>0, <2>1 DEF SceneTypes, SceneTasks
    <3>2. masked' \in BOOLEAN
      BY <1>0, <2>1, HandlerBooleans DEF SceneTypes, SceneTasks
    <3>3. SceneTypes' /\ WorkInv'
      BY <1>0, <3>1, <3>2, RequestFacts DEF SceneTypes, HandlerFields, SceneTasks, WorkInv
    <3>4. CloudInv'
      BY <1>0, <1>4, <2>1, <3>1, RequestFacts, HandlerBooleans
      DEF CloudInv, EndScenes, SceneTypes, SceneTasks
    <3> QED
      BY <3>3, <3>4 DEF ScenesInv
  <2>2. CASE /\ handler' = [handler EXCEPT !["cloud"].pc = "store", !["cloud"].data = scenes]
             /\ UNCHANGED masked
    <3>1. SceneTypes' /\ WorkInv'
      BY <1>0, <2>2 DEF SceneTypes, HandlerFields, Handlers, SceneTasks, WorkInv
    <3>2. CloudInv'
      BY <1>0, <1>4, <2>2
      DEF EndScenes, SceneTypes, HandlerFields, Handlers, SceneTasks, CloudInv
    <3> QED
      BY <3>1, <3>2 DEF ScenesInv
  <2> QED
    BY <1>4, <2>1, <2>2 DEF EndScenes
<1>5. CASE StoreScenes("cloud")
  <2>1. SceneTypes' /\ WorkInv'
    BY <1>0, <1>5 DEF StoreScenes, NoRequest, SceneTypes, HandlerFields, Handlers, SceneTasks,
                      WorkInv
  <2>2. CloudInv'
    BY <1>0, <1>5 DEF StoreScenes, NoRequest, SceneTypes, HandlerFields, Handlers, SceneTasks,
                      CloudInv
  <2> QED
    BY <2>1, <2>2 DEF ScenesInv
<1> QED
  BY <1>1, <1>2, <1>3, <1>4, <1>5 DEF SceneStep

\* A new request of the cloud.
LEMMA BeginCloudScenes ==
  ASSUME ScenesInv, NEW batch, BeginScenes("cloud", batch)
  PROVE  ScenesInv'
<1> USE DEF ScenesInv, BeginScenes, HandlerIdle, NoRequest, SceneTypes, HandlerFields, Handlers,
            SceneTasks
<1>1. SceneTypes' /\ WorkInv'
  BY DEF WorkInv
<1>2. CloudInv'
  BY DEF CloudInv
<1> QED
  BY <1>1, <1>2

\* The action of a schedule.
LEMMA BeginWorkScenes ==
  ASSUME ScenesInv, NEW batch \in Seq(Activations), BeginScenes("work", batch)
  PROVE  ScenesInv'
<1> USE DEF ScenesInv, BeginScenes, HandlerIdle, NoRequest, SceneTypes, HandlerFields, Handlers,
            SceneTasks
<1>1. SceneTypes' /\ WorkInv'
  BY DEF WorkInv
<1>2. CloudInv'
  BY DEF CloudInv
<1> QED
  BY <1>1, <1>2

LEMMA ScenesInvStep == ScenesInv /\ [Next]_vars => ScenesInv'
<1> SUFFICES ASSUME ScenesInv, [Next]_vars PROVE ScenesInv'
  OBVIOUS
<1>1. ASSUME UNCHANGED sceneVars PROVE ScenesInv'
  BY <1>1 DEF sceneVars, ScenesInv, SceneTypes, HandlerFields, WorkInv, CloudInv
<1>2. CASE ScheduleRequest \/ TriggerActed
  BY <1>1, <1>2 DEF ScheduleRequest, TriggerActed
<1>3. CASE SceneRequest
  BY <1>3, BeginCloudScenes DEF SceneRequest
<1>4. CASE Trigger
  <2>1. <<[op |-> "activate", id |-> ActionScene]>> \in Seq(Activations)
    BY DEF Activations
  <2> QED
    BY <1>1, <1>4, <2>1, BeginWorkScenes DEF Trigger
<1>5. CASE Reboot
  <2>1. /\ \A t \in SceneTasks : handler'[t] = NoRequest
        /\ DOMAIN handler' = SceneTasks /\ masked' = FALSE /\ scenesNvs' = scenes'
    BY <1>5 DEF Reboot, RestoreScenes
  <2>2. SceneTypes'
    BY <2>1, RequestFacts DEF SceneTypes, HandlerFields
  <2>3. WorkInv' /\ CloudInv'
    BY <2>1, RequestFacts DEF WorkInv, CloudInv, SceneTasks
  <2> QED
    BY <2>2, <2>3 DEF ScenesInv
<1>6. CASE ((\E t \in Tasks : TaskStep(t)) \/ WorkStep \/ TakeSync \/ TimerStep)
           /\ UNCHANGED sceneVars
  BY <1>1, <1>6
<1>7. CASE (\E t \in SceneTasks : SceneStep(t)) /\ UNCHANGED schedules
  BY <1>7, WorkSceneStep, CloudSceneStep DEF SceneTasks
<1>8. CASE UNCHANGED vars
  BY <1>1, <1>8 DEF vars
<1> QED
  BY <1>2, <1>3, <1>4, <1>5, <1>6, <1>7, <1>8 DEF Next

\* No power cut loses a scene: when no request is under way NVS has the scenes
\* of the list, for any number of scenes and any length of the requests, except
\* after a request that changed scenes and ended with one it only activated.
\* (esp_rmaker_scenes.c: write_cb reports, and the report is what is stored.)
THEOREM AutomationScenesStored == Spec => []ScenesStored
<1>1. ScenesInv => ScenesStored
  BY DEF ScenesInv, CloudInv, ScenesStored, HandlerIdle, SceneTasks
<1> QED
  BY <1>1, ScenesInvInit, ScenesInvStep, PTL DEF Spec

-----------------------------------------------------------------------------
(* What is written down of the schedules *)

\* A list of schedules, or a report of one: it is not too long, no id is in it
\* twice, and a dated schedule has no time.
WellFormed(s) ==
  /\ Len(s) <= MaxSchedules
  /\ \A j, k \in DOMAIN s : s[j].id = s[k].id => j = k
  /\ \A k \in DOMAIN s : s[k].kind = "dated" => s[k].ts = "none"

Written == WellFormed(list) /\ WellFormed(nvs) /\ \A t \in Tasks : WellFormed(at[t].data)

\* Schedules with the names of others.
Names(s, e) ==
  /\ Len(s) = Len(e) /\ DOMAIN s = DOMAIN e
  /\ \A k \in DOMAIN e : s[k].id = e[k].id /\ (s[k].kind = "dated" => s[k].ts = "none")

LEMMA NamesWellFormed == ASSUME NEW s, NEW e, WellFormed(e), Names(s, e) PROVE WellFormed(s)
BY DEF WellFormed, Names

LEMMA EmptyWellFormed == WellFormed(<<>>)
<1>1. Len(<<>>) = 0 /\ DOMAIN <<>> = {}
  OBVIOUS
<1> QED
  BY <1>1, SchedulesAssumption DEF WellFormed

LEMMA SnapshotWellFormed ==
  ASSUME list \in Seq(Records), WellFormed(list) PROVE WellFormed(Snapshot)
<1>1. DOMAIN Snapshot = DOMAIN list
  BY DEF Snapshot
<1>2. Len(Snapshot) = Len(list)
  <2>1. DOMAIN Snapshot = 1..Len(Snapshot) /\ Len(Snapshot) \in Nat
    BY Snap, LenProperties
  <2> QED
    BY <1>1, <2>1, Elements
<1>3. Names(Snapshot, list)
  BY <1>1, <1>2 DEF Names, Snapshot, WellFormed
<1> QED
  BY <1>3, NamesWellFormed

LEMMA AgedWellFormed ==
  ASSUME NEW e \in Seq(Entries), NEW id, WellFormed(e) PROVE WellFormed(Aged(e, id))
<1>1. DOMAIN e = 1..Len(e) /\ Len(e) \in Nat /\ \A k \in 1..Len(e) : e[k] \in Entries
  BY LenProperties, ElementOfSeq
<1>2. DOMAIN Aged(e, id) = DOMAIN e
  BY DEF Aged
<1>3. Len(Aged(e, id)) = Len(e)
  <2>1. DOMAIN Aged(e, id) = 1..Len(Aged(e, id)) /\ Len(Aged(e, id)) \in Nat
    BY AgedType, LenProperties
  <2> QED
    BY <1>1, <1>2, <2>1
<1>4. Names(Aged(e, id), e)
  BY <1>1, <1>2, <1>3 DEF Names, Aged, WellFormed, Entries
<1> QED
  BY <1>4, NamesWellFormed

\* What is read back of an entry.
Read(e, k, known) ==
  LET r == Restored(e[k], k) IN
  IF Dead(r, known) THEN Disabled(r) ELSE IF known /\ r.on THEN Armed(r) ELSE r

LEMMA ReadList ==
  ASSUME NEW e \in Seq(Entries), NEW known
  PROVE  /\ DOMAIN RestoredList(e, known) = DOMAIN e
         /\ \A k \in DOMAIN e : RestoredList(e, known)[k] = Read(e, k, known)
BY DEF RestoredList, Read

\* An entry that is read back: expired, with a timer, or as it is.
ReadAs(x, r, known) ==
  /\ r.id = x.id /\ r.kind = x.kind
  /\ \/ /\ x.on /\ known /\ Expired(x)
        /\ r.on = FALSE /\ r.armed = FALSE /\ r.ts = "none"
     \/ /\ x.on /\ known /\ ~Expired(x)
        /\ r.on = TRUE /\ r.armed = TRUE
        /\ r.kind = "once" => r.ts = "future"
        /\ r.kind # "once" => r.ts = x.ts
     \/ ~(x.on /\ known) /\ r.on = x.on /\ r.armed = FALSE /\ r.ts = x.ts

LEMMA ReadFacts ==
  ASSUME NEW e, NEW k, e[k] \in Entries, NEW known
  PROVE  ReadAs(e[k], Read(e, k, known), known)
<1> USE DEF ReadAs
<1> DEFINE r == Restored(e[k], k)
<1>1. /\ r.id = e[k].id /\ r.kind = e[k].kind /\ r.on = e[k].on /\ r.armed = FALSE
      /\ r.ts = e[k].ts
      /\ r = [id |-> e[k].id, idx |-> k - 1, kind |-> e[k].kind, on |-> e[k].on,
              armed |-> FALSE, ts |-> e[k].ts]
  BY DEF Restored
<1>2. Expired(r) = Expired(e[k])
  BY <1>1 DEF Expired
<1>3. CASE Dead(r, known)
  <2>1. Read(e, k, known) = Disabled(r)
    BY <1>3 DEF Read
  <2>2. e[k].on /\ known /\ Expired(e[k])
    BY <1>1, <1>2, <1>3 DEF Dead
  <2> QED
    BY <1>1, <2>1, <2>2 DEF Disabled
<1>4. CASE ~Dead(r, known) /\ known /\ r.on
  <2>1. Read(e, k, known) = Armed(r)
    BY <1>4 DEF Read
  <2>2. e[k].on /\ known /\ ~Expired(e[k])
    BY <1>1, <1>2, <1>4 DEF Dead
  <2>3. e[k].on = TRUE
    BY <2>2 DEF Entries
  <2> QED
    BY <1>1, <2>1, <2>2, <2>3 DEF Armed
<1>5. CASE ~Dead(r, known) /\ ~(known /\ r.on)
  <2>1. Read(e, k, known) = r
    BY <1>5 DEF Read
  <2>2. ~(e[k].on /\ known)
    BY <1>1, <1>5
  <2> HIDE DEF r
  <2> QED
    BY <1>1, <2>1, <2>2
<1> QED
  BY <1>3, <1>4, <1>5

LEMMA RestoredWellFormed ==
  ASSUME NEW e \in Seq(Entries), NEW known, WellFormed(e) PROVE WellFormed(RestoredList(e, known))
<1>1. DOMAIN e = 1..Len(e) /\ Len(e) \in Nat /\ \A k \in 1..Len(e) : e[k] \in Entries
  BY LenProperties, ElementOfSeq
<1>2. /\ Len(RestoredList(e, known)) = Len(e) /\ DOMAIN RestoredList(e, known) = DOMAIN e
      /\ \A k \in DOMAIN e : RestoredList(e, known)[k] = Read(e, k, known)
  BY RestoredType, ReadList
<1>3. ASSUME NEW k \in DOMAIN e
      PROVE  /\ Read(e, k, known).id = e[k].id
             /\ Read(e, k, known).kind = "dated" => Read(e, k, known).ts = "none"
  <2>1. e[k] \in Entries
    BY <1>1
  <2> DEFINE r == Read(e, k, known)
  <2>2. ReadAs(e[k], r, known)
    BY <2>1, ReadFacts, Zenon
  <2>3. /\ r.id = e[k].id /\ r.kind = e[k].kind
        /\ r.ts = "none" \/ r.ts = e[k].ts \/ r.kind = "once"
    BY <2>2, Zenon DEF ReadAs
  <2>4. e[k].kind = "dated" => e[k].ts = "none"
    BY DEF WellFormed
  <2> QED
    BY <2>3, <2>4
<1>4. Names(RestoredList(e, known), e)
  BY <1>2, <1>3 DEF Names
<1> QED
  BY <1>4, NamesWellFormed

\* What is in NVS after the node was off: times have passed.
Passed(e, f) ==
  /\ f \in Seq(Entries) /\ Len(f) = Len(e) /\ DOMAIN f = DOMAIN e
  /\ \A k \in DOMAIN e : /\ e[k] \in Entries /\ f[k] \in Entries
                         /\ f[k].id = e[k].id /\ f[k].kind = e[k].kind /\ f[k].on = e[k].on
                         /\ f[k].ts = e[k].ts \/ (e[k].ts = "future" /\ f[k].ts = "past")

LEMMA OffPassed == ASSUME nvs \in Seq(Entries), WhileOff PROVE Passed(nvs, nvs')
<1>1. PICK gone \in SUBSET Ids :
        nvs' = [k \in DOMAIN nvs |->
                  IF nvs[k].id \in gone /\ nvs[k].ts = "future"
                  THEN [nvs[k] EXCEPT !.ts = "past"] ELSE nvs[k]]
  BY DEF WhileOff
<1>2. DOMAIN nvs = 1..Len(nvs) /\ Len(nvs) \in Nat /\ \A k \in 1..Len(nvs) : nvs[k] \in Entries
  BY LenProperties, ElementOfSeq
<1>3. nvs' \in [1..Len(nvs) -> Entries]
  <2>1. \A k \in 1..Len(nvs) : (IF nvs[k].id \in gone /\ nvs[k].ts = "future"
                               THEN [nvs[k] EXCEPT !.ts = "past"] ELSE nvs[k]) \in Entries
    BY <1>2 DEF Entries, Times
  <2> QED
    BY <1>1, <1>2, <2>1
<1>4. nvs' \in Seq(Entries) /\ Len(nvs') = Len(nvs)
  BY <1>2, <1>3, SeqDef, LenProperties
<1>5. \A k \in DOMAIN nvs : /\ nvs'[k].id = nvs[k].id /\ nvs'[k].kind = nvs[k].kind
                            /\ nvs'[k].on = nvs[k].on
                            /\ nvs'[k].ts = nvs[k].ts \/ (nvs[k].ts = "future" /\ nvs'[k].ts = "past")
  BY <1>1, <1>2 DEF Entries
<1> QED
  BY <1>2, <1>3, <1>4, <1>5 DEF Passed

LEMMA PassedWellFormed ==
  ASSUME NEW e, NEW f, WellFormed(e), Passed(e, f) PROVE WellFormed(f)
<1>1. Names(f, e)
  BY DEF Names, Passed, WellFormed
<1> QED
  BY <1>1, NamesWellFormed

-----------------------------------------------------------------------------
(* What each step does, schedule by schedule and task by task *)

\* One task moves, the other stays.
MovesTo(t, pc, i, after, data) ==
  /\ \A u \in Tasks \ {t} : at'[u] = at[u]
  /\ at'[t].pc = pc /\ at'[t].idx = i /\ at'[t].after = after /\ at'[t].data = data

\* A task goes on with its schedule.
GoesOn(t, pc) == MovesTo(t, pc, at[t].idx, at[t].after, at[t].data)

Rests(t) == MovesTo(t, "idle", NoIndex, "idle", <<>>)

Returns(t) ==
  \/ at[t].after = "report" /\ MovesTo(t, "build", NoIndex, "idle", <<>>)
  \/ at[t].after = "next" /\ MovesTo(t, "next", at[t].idx, "idle", <<>>)
  \/ at[t].after = "idle" /\ Rests(t)

\* The p-th schedule becomes r, the others stay.
Revises(p, r) ==
  /\ p \in DOMAIN list /\ DOMAIN list' = DOMAIN list /\ Len(list') = Len(list)
  /\ r.id = list[p].id /\ r.idx = list[p].idx
  /\ \A k \in DOMAIN list : list'[k] = IF k = p THEN r ELSE list[k]

LEMMA Moving ==
  ASSUME Types, NEW t \in Tasks
  PROVE  /\ \A pc, i, after, data : Goto(t, pc, i, after, data) => MovesTo(t, pc, i, after, data)
         /\ \A pc : at' = [at EXCEPT ![t].pc = pc] => GoesOn(t, pc)
         /\ at' = [at EXCEPT ![t] = Idle] => Rests(t)
         /\ Return(t) => Returns(t)
<1>1. ASSUME NEW pc, NEW i, NEW after, NEW data, Goto(t, pc, i, after, data)
      PROVE  MovesTo(t, pc, i, after, data)
  BY <1>1 DEF Goto, MovesTo, Types
<1>2. ASSUME NEW pc, at' = [at EXCEPT ![t].pc = pc] PROVE GoesOn(t, pc)
  BY <1>2 DEF GoesOn, MovesTo, Types, Positions
<1>3. ASSUME at' = [at EXCEPT ![t] = Idle] PROVE Rests(t)
  BY <1>3 DEF Rests, MovesTo, Types, Idle
<1>4. ASSUME Return(t) PROVE Returns(t)
  <2>1. at[t].after \in {"idle", "report", "next"}
    BY DEF Types, Positions
  <2>2. CASE at[t].after = "report"
    <3>1. Goto(t, "build", NoIndex, "idle", <<>>)
      BY <1>4, <2>2 DEF Return
    <3> QED
      BY <1>1, <2>2, <3>1 DEF Returns
  <2>3. CASE at[t].after = "next"
    <3>1. Goto(t, "next", at[t].idx, "idle", <<>>)
      BY <1>4, <2>3 DEF Return
    <3> QED
      BY <1>1, <2>3, <3>1 DEF Returns
  <2>4. CASE at[t].after = "idle"
    <3>1. at' = [at EXCEPT ![t] = Idle]
      BY <1>4, <2>4 DEF Return
    <3> QED
      BY <1>3, <2>4, <3>1 DEF Returns
  <2> QED
    BY <2>1, <2>2, <2>3, <2>4
<1> QED
  BY <1>1, <1>2, <1>3, <1>4

LEMMA Revising ==
  ASSUME list \in Seq(Records), NEW p \in DOMAIN list, NEW r \in Records,
         r.id = list[p].id, r.idx = list[p].idx, list' = [list EXCEPT ![p] = r]
  PROVE  Revises(p, r)
<1>1. DOMAIN list = 1..Len(list)
  BY LenProperties
<1>2. p \in 1..Len(list)
  BY <1>1
<1>3. /\ list' \in Seq(Records) /\ Len(list') = Len(list)
      /\ \A j \in 1..Len(list) : list'[j] = IF j = p THEN r ELSE list[j]
  BY <1>2, ExceptSeq
<1>4. DOMAIN list' = 1..Len(list')
  BY <1>3, LenProperties
<1> QED
  BY <1>1, <1>2, <1>3, <1>4 DEF Revises

\* The schedule that a task works on, when it is still there.
Mine(t, p) == p \in DOMAIN list /\ list[p].idx = at[t].idx

LEMMA SetEnabledDoes ==
  ASSUME Types, NEW t \in Tasks, SetEnabled(t)
  PROVE  /\ at[t].pc = "enable" /\ GoesOn(t, "check")
         /\ \/ /\ dangling' = dangling
               /\ \E p \in DOMAIN list : Mine(t, p) /\ Revises(p, [list[p] EXCEPT !.on = TRUE])
            \/ dangling' = TRUE /\ list' = list
<1>1. at[t].pc = "enable" /\ GoesOn(t, "check")
  BY Moving DEF SetEnabled
<1>2. CASE ~Freed(t) /\ list' = [list EXCEPT ![WithIndex(at[t].idx)].on = TRUE] /\ UNCHANGED dangling
  <2>1. PICK p \in DOMAIN list : p = WithIndex(at[t].idx) /\ Mine(t, p)
    BY <1>2, Found DEF Freed, Mine, Types
  <2> DEFINE r == [list[p] EXCEPT !.on = TRUE]
  <2>2. r \in Records /\ r.id = list[p].id /\ r.idx = list[p].idx /\ list' = [list EXCEPT ![p] = r]
    BY <1>2, <2>1, Elements DEF Records, Types
  <2>3. Revises(p, r)
    <3> HIDE DEF r
    <3> QED
      BY <2>2, Revising DEF Types
  <2> QED
    BY <1>1, <1>2, <2>1, <2>3
<1>3. CASE Freed(t) /\ UseAfterFree /\ UNCHANGED list
  BY <1>1, <1>3 DEF UseAfterFree
<1> QED
  BY <1>2, <1>3 DEF SetEnabled

LEMMA ArmDoes ==
  ASSUME Types, NEW t \in Tasks, Arm(t)
  PROVE  /\ at[t].pc = "arm"
         /\ \/ /\ dangling' = dangling
               /\ \E p \in DOMAIN list :
                    /\ Mine(t, p)
                    /\ \/ /\ Expired(list[p]) /\ Revises(p, Disabled(list[p]))
                          /\ GoesOn(t, "build") /\ fired' = fired
                       \/ /\ ~Expired(list[p]) /\ Revises(p, Armed(list[p])) /\ Returns(t)
                          /\ fired' = IF t = "cloud" THEN [fired EXCEPT ![list[p].id] = 0] ELSE fired
            \/ /\ dangling' = TRUE /\ list' = list /\ fired' = fired
               /\ Returns(t) \/ GoesOn(t, "build")
<1>1. CASE ~Freed(t)
  <2>1. PICK p \in DOMAIN list : p = WithIndex(at[t].idx) /\ Mine(t, p)
    BY <1>1, Found DEF Freed, Mine, Types
  <2>2. list[p] \in Records
    BY <2>1, Elements DEF Types
  <2>3. CASE Expired(list[p])
    <3>1. /\ list' = [list EXCEPT ![p] = Disabled(list[p])]
          /\ at' = [at EXCEPT ![t].pc = "build"] /\ fired' = fired /\ dangling' = dangling
      BY <1>1, <2>1, <2>3 DEF Arm
    <3>2. Revises(p, Disabled(list[p]))
      BY <2>1, <2>2, <3>1, Revisions, Revising DEF Types
    <3> QED
      BY <2>1, <2>3, <3>1, <3>2, Moving DEF Arm
  <2>4. CASE ~Expired(list[p])
    <3>1. /\ list' = [list EXCEPT ![p] = Armed(list[p])] /\ Return(t) /\ dangling' = dangling
          /\ fired' = IF t = "cloud" THEN [fired EXCEPT ![list[p].id] = 0] ELSE fired
      BY <1>1, <2>1, <2>4 DEF Arm
    <3>2. Revises(p, Armed(list[p]))
      BY <2>1, <2>2, <3>1, Revisions, Revising DEF Types
    <3> QED
      BY <2>1, <2>4, <3>1, <3>2, Moving DEF Arm
  <2> QED
    BY <2>3, <2>4
<1>2. CASE Freed(t)
  BY <1>2, Moving DEF Arm, UseAfterFree
<1> QED
  BY <1>1, <1>2

LEMMA CheckSyncDoes ==
  ASSUME Types, NEW t \in Tasks, CheckSync(t)
  PROVE  /\ at[t].pc = "check"
         /\ \/ /\ sync = "not started" /\ ~clock /\ timer' = "running" /\ sync' = "started"
               /\ Returns(t)
            \/ /\ sync = "not started" /\ sync' = "done" /\ timer' = timer /\ GoesOn(t, "arm")
            \/ sync = "started" /\ sync' = sync /\ timer' = timer /\ Returns(t)
            \/ sync = "done" /\ sync' = sync /\ timer' = timer /\ GoesOn(t, "arm")
BY Moving DEF CheckSync

LEMMA BuildDoes ==
  ASSUME Types, NEW t \in Tasks, Build(t)
  PROVE  at[t].pc = "build" /\ MovesTo(t, "store", at[t].idx, at[t].after, Snapshot)
BY DEF Build, MovesTo, Types, Positions

LEMMA StoreDoes ==
  ASSUME Types, NEW t \in Tasks, Store(t)
  PROVE  at[t].pc = "store" /\ Returns(t)
BY Moving DEF Store

LEMMA DisableExpiredDoes ==
  ASSUME Types, DisableExpired
  PROVE  /\ at["work"].pc = "disable" /\ GoesOn("work", "build")
         /\ \/ /\ dangling' = dangling
               /\ \E p \in DOMAIN list : Mine("work", p) /\ Revises(p, Disabled(list[p]))
            \/ dangling' = TRUE /\ list' = list
<1>1. at["work"].pc = "disable" /\ GoesOn("work", "build")
  BY Moving DEF DisableExpired, Tasks
<1>2. CASE ~Freed("work")
  <2>1. PICK p \in DOMAIN list : p = WithIndex(at["work"].idx) /\ Mine("work", p)
    BY <1>2, Found DEF Freed, Mine, Types
  <2>2. /\ list[p] \in Records
        /\ list' = [list EXCEPT ![p] = Disabled(list[p])] /\ dangling' = dangling
    BY <1>2, <2>1, Elements DEF Types, DisableExpired
  <2>3. Revises(p, Disabled(list[p]))
    BY <2>1, <2>2, Revisions, Revising DEF Types
  <2> QED
    BY <1>1, <2>1, <2>2, <2>3
<1>3. CASE Freed("work")
  BY <1>1, <1>3 DEF DisableExpired, UseAfterFree
<1> QED
  BY <1>2, <1>3

\* The sync job goes to the schedule with index i, or ends.
Visits(i) ==
  \/ i = NoIndex /\ Rests("work")
  \/ i # NoIndex /\ MovesTo("work", "visit", i, "idle", <<>>)

LEMMA Visiting == ASSUME Types, NEW i, Visit(i) PROVE Visits(i)
<1>1. "work" \in Tasks
  BY DEF Tasks
<1>2. CASE i = NoIndex
  BY <1>1, <1>2, Moving DEF Visit, Visits
<1>3. CASE i # NoIndex
  BY <1>1, <1>3, Moving DEF Visit, Visits
<1> QED
  BY <1>2, <1>3

LEMMA VisitOneDoes ==
  ASSUME Types, VisitOne
  PROVE  /\ at["work"].pc = "visit"
         /\ \/ /\ dangling' = dangling
               /\ \E p \in DOMAIN list :
                    /\ Mine("work", p)
                    /\ \/ /\ list[p].on
                          /\ MovesTo("work", "enable", at["work"].idx, "next", at["work"].data)
                       \/ ~list[p].on /\ GoesOn("work", "next")
            \/ dangling' = TRUE /\ GoesOn("work", "next")
<1>1. "work" \in Tasks /\ at["work"].pc = "visit"
  BY DEF Tasks, VisitOne
<1>2. CASE ~Freed("work")
  <2>1. PICK p \in DOMAIN list : p = WithIndex(at["work"].idx) /\ Mine("work", p)
    BY <1>2, Found DEF Freed, Mine, Types
  <2>2. CASE list[p].on
    <3>1. at' = [at EXCEPT !["work"].pc = "enable", !["work"].after = "next"] /\ dangling' = dangling
      BY <1>2, <2>1, <2>2 DEF VisitOne
    <3>2. MovesTo("work", "enable", at["work"].idx, "next", at["work"].data)
      BY <1>1, <3>1 DEF MovesTo, Types, Positions
    <3> QED
      BY <1>1, <2>1, <2>2, <3>1, <3>2
  <2>3. CASE ~list[p].on
    <3>1. at' = [at EXCEPT !["work"].pc = "next"] /\ dangling' = dangling
      BY <1>2, <2>1, <2>3 DEF VisitOne
    <3> QED
      BY <1>1, <2>1, <2>3, <3>1, Moving
  <2> QED
    BY <2>2, <2>3
<1>3. CASE Freed("work")
  BY <1>1, <1>3, Moving DEF VisitOne, UseAfterFree
<1> QED
  BY <1>2, <1>3

LEMMA VisitNextDoes ==
  ASSUME Types, VisitNext
  PROVE  /\ at["work"].pc = "next"
         /\ \/ /\ dangling' = dangling
               /\ \E p \in DOMAIN list :
                    /\ Mine("work", p)
                    /\ \/ p = Len(list) /\ Visits(NoIndex)
                       \/ p # Len(list) /\ p + 1 \in DOMAIN list /\ Visits(list[p + 1].idx)
            \/ dangling' = TRUE /\ \E i : Visits(i)
<1>1. at["work"].pc = "next"
  BY DEF VisitNext
<1>2. CASE ~Freed("work")
  <2>1. PICK p \in DOMAIN list : p = WithIndex(at["work"].idx) /\ Mine("work", p)
    BY <1>2, Found DEF Freed, Mine, Types
  <2>2. DOMAIN list = 1..Len(list) /\ Len(list) \in Nat
    BY Elements DEF Types
  <2>3. Visit(IF p = Len(list) THEN NoIndex ELSE list[p + 1].idx) /\ dangling' = dangling
    BY <1>2, <2>1 DEF VisitNext
  <2>4. CASE p = Len(list)
    BY <1>1, <2>1, <2>3, <2>4, Visiting
  <2>5. CASE p # Len(list)
    <3>1. p + 1 \in DOMAIN list
      BY <2>2, <2>5
    <3>2. Visit(list[p + 1].idx)
      BY <2>3, <2>5
    <3> QED
      BY <1>1, <2>1, <2>3, <2>5, <3>1, <3>2, Visiting
  <2> QED
    BY <2>4, <2>5
<1>3. CASE Freed("work")
  BY <1>1, <1>3, Visiting DEF VisitNext, UseAfterFree
<1> QED
  BY <1>2, <1>3

LEMMA AfterActionDoes ==
  ASSUME Types, AfterAction
  PROVE  /\ at["work"].pc = "act"
         /\ \/ /\ dangling' = dangling
               /\ \E p \in DOMAIN list :
                    /\ Mine("work", p)
                    /\ \/ Expired(list[p]) /\ GoesOn("work", "disable")
                       \/ ~Expired(list[p]) /\ Rests("work")
            \/ dangling' = TRUE /\ (GoesOn("work", "disable") \/ Rests("work"))
<1>1. "work" \in Tasks /\ at["work"].pc = "act"
  BY DEF Tasks, AfterAction
<1>2. CASE ~Freed("work")
  <2>1. PICK p \in DOMAIN list : p = WithIndex(at["work"].idx) /\ Mine("work", p)
    BY <1>2, Found DEF Freed, Mine, Types
  <2>2. CASE Expired(list[p])
    <3>1. at' = [at EXCEPT !["work"].pc = "disable"] /\ dangling' = dangling
      BY <1>2, <2>1, <2>2 DEF AfterAction
    <3> QED
      BY <1>1, <2>1, <2>2, <3>1, Moving
  <2>3. CASE ~Expired(list[p])
    <3>1. at' = [at EXCEPT !["work"] = Idle] /\ dangling' = dangling
      BY <1>2, <2>1, <2>3 DEF AfterAction
    <3> QED
      BY <1>1, <2>1, <2>3, <3>1, Moving
  <2> QED
    BY <2>2, <2>3
<1>3. CASE Freed("work")
  BY <1>1, <1>3, Moving DEF AfterAction, UseAfterFree
<1> QED
  BY <1>2, <1>3

(* The work queue *)

\* A trigger of the schedule with index i waits in the queue, or the sync job does.
Pending(i) == \E j \in DOMAIN queue : queue[j].do = "trigger" /\ queue[j].idx = i
SyncPending == \E j \in DOMAIN queue : queue[j].do = "sync"

\* Nothing leaves the queue.
Waits == (\A i : Pending(i) => Pending(i)') /\ (SyncPending => SyncPending')

LEMMA Posting ==
  ASSUME queue \in Seq(Jobs), NEW job \in Jobs, Post(job), Len(queue) <= QueueSize
  PROVE  /\ Waits /\ lost \subseteq lost' /\ lost' \subseteq lost \cup {job.for}
         /\ Len(queue') <= QueueSize
         /\ \/ job.for \in lost'
            \/ (job.do = "trigger" => Pending(job.idx)') /\ (job.do = "sync" => SyncPending')
<1>1. CASE queue' = Append(queue, job) /\ UNCHANGED lost /\ Len(queue) < QueueSize
  <2>1. /\ queue' \in Seq(Jobs) /\ Len(queue') = Len(queue) + 1
        /\ \A j \in 1..Len(queue) : queue'[j] = queue[j]
        /\ queue'[Len(queue) + 1] = job
    BY <1>1, AppendProperties
  <2>2. DOMAIN queue' = 1..(Len(queue) + 1) /\ DOMAIN queue = 1..Len(queue) /\ Len(queue) \in Nat
    BY <2>1, LenProperties
  <2>3. Waits
    BY <2>1, <2>2 DEF Waits, Pending, SyncPending
  <2>4. (job.do = "trigger" => Pending(job.idx)') /\ (job.do = "sync" => SyncPending')
    BY <2>1, <2>2 DEF Pending, SyncPending
  <2>5. Len(queue') <= QueueSize
    BY <1>1, <2>1, <2>2, SchedulesAssumption
  <2> QED
    BY <1>1, <2>3, <2>4, <2>5
<1>2. CASE lost' = lost \cup {job.for} /\ UNCHANGED queue
  BY <1>2 DEF Waits, Pending, SyncPending
<1> QED
  BY <1>1, <1>2 DEF Post

LEMMA Taking ==
  ASSUME queue \in Seq(Jobs), queue # <<>>, queue' = Tail(queue), Len(queue) <= QueueSize
  PROVE  /\ Len(queue') <= QueueSize
         /\ \A i : Pending(i) => Pending(i)' \/ (Head(queue).do = "trigger" /\ Head(queue).idx = i)
         /\ SyncPending => SyncPending' \/ Head(queue).do = "sync"
<1>1. /\ Tail(queue) \in Seq(Jobs) /\ Len(Tail(queue)) = Len(queue) - 1
      /\ \A i \in 1..Len(Tail(queue)) : Tail(queue)[i] = queue[i + 1]
      /\ Head(queue) = queue[1]
  BY HeadTailProperties
<1>2. DOMAIN Tail(queue) = 1..Len(Tail(queue)) /\ DOMAIN queue = 1..Len(queue) /\ Len(queue) \in Nat
  BY <1>1, LenProperties
<1>3. \A j \in DOMAIN queue : j = 1 \/ (j - 1 \in DOMAIN queue' /\ queue'[j - 1] = queue[j])
  BY <1>1, <1>2
<1>4. Len(queue') <= QueueSize
  BY <1>1, <1>2, SchedulesAssumption
<1> QED
  BY <1>1, <1>3, <1>4 DEF Pending, SyncPending

LEMMA TakeTriggerDoes ==
  ASSUME Types, TakeTrigger
  PROVE  /\ at["work"].pc = "idle" /\ queue # <<>> /\ queue' = Tail(queue)
         /\ Head(queue).do = "trigger"
         /\ \/ MovesTo("work", "act", Head(queue).idx, "idle", <<>>) /\ Overlaps("work")
            \/ ~Listed(Head(queue).idx) /\ UNCHANGED <<at, overlap>>
<1>1. "work" \in Tasks
  BY DEF Tasks
<1> QED
  BY <1>1, Moving DEF TakeTrigger, Busy

LEMMA TakeSyncDoes ==
  ASSUME Types, TakeSync
  PROVE  /\ at["work"].pc = "idle" /\ queue # <<>> /\ queue' = Tail(queue)
         /\ Head(queue).do = "sync"
         /\ \/ ~clock /\ timer' = "running" /\ UNCHANGED <<sync, at, overlap>>
            \/ clock /\ timer' = "none" /\ sync' = "done" /\ Visits(First) /\ Overlaps("work")
BY Visiting DEF TakeSync, Busy

LEMMA FireDoes ==
  ASSUME Types, NEW p \in DOMAIN list, Fire(p)
  PROVE  /\ list[p].armed /\ nvs' = Aged(nvs, list[p].id)
         /\ Revises(p, [list[p] EXCEPT !.ts = IF @ = "future" THEN "past" ELSE @,
                                       !.armed = (list[p].kind = "dated" /\ ~over)])
         /\ \A t \in Tasks : /\ at'[t].pc = at[t].pc /\ at'[t].idx = at[t].idx
                             /\ at'[t].after = at[t].after
                             /\ at'[t].data = Aged(at[t].data, list[p].id)
         /\ [do |-> "trigger", idx |-> list[p].idx, for |-> list[p].id] \in Jobs
         /\ Post([do |-> "trigger", idx |-> list[p].idx, for |-> list[p].id])
<1>1. list[p] \in Records
  BY Elements DEF Types
<1> DEFINE r == [list[p] EXCEPT !.ts = IF @ = "future" THEN "past" ELSE @,
                                !.armed = (list[p].kind = "dated" /\ ~over)]
<1>2. r \in Records /\ r.id = list[p].id /\ r.idx = list[p].idx
  BY <1>1 DEF Records, Times
<1>3. list' = [list EXCEPT ![p] = r]
  BY <1>1 DEF Fire, Records
<1>4. Revises(p, r)
  <2> HIDE DEF r
  <2> QED
    BY <1>2, <1>3, Revising DEF Types
<1>5. \A t \in Tasks : /\ at'[t].pc = at[t].pc /\ at'[t].idx = at[t].idx
                       /\ at'[t].after = at[t].after
                       /\ at'[t].data = Aged(at[t].data, list[p].id)
  BY DEF Fire, Types, Positions
<1>6. [do |-> "trigger", idx |-> list[p].idx, for |-> list[p].id] \in Jobs
  BY <1>1 DEF Jobs, Records
<1> QED
  BY <1>4, <1>5, <1>6 DEF Fire

(* Requests and reboots *)

\* A request ends with a report, or goes on to enable a schedule first.
ToReport  == MovesTo("cloud", "build", NoIndex, "idle", <<>>)
ToEnable(i) == MovesTo("cloud", "enable", i, "report", <<>>)

\* The list has one more schedule, r, or one less, the p-th.
Grows(r) ==
  /\ Len(list) < MaxSchedules /\ Len(list') = Len(list) + 1
  /\ DOMAIN list = 1..Len(list) /\ DOMAIN list' = 1..(Len(list) + 1)
  /\ \A k \in DOMAIN list : list'[k] = list[k]
  /\ list'[Len(list) + 1] = r

Shrinks(p) ==
  /\ Len(list') = Len(list) - 1
  /\ \A k \in DOMAIN list' :
       \/ k < p /\ k \in DOMAIN list /\ list'[k] = list[k]
       \/ k >= p /\ k + 1 \in DOMAIN list /\ list'[k] = list[k + 1]

LEMMA AddDoes ==
  ASSUME Types, NEW id \in Ids, NEW kind \in Kinds, Add(id, kind)
  PROVE  /\ at["cloud"].pc = "idle" /\ Overlaps("cloud") /\ ~Known(id) /\ index' = index + 1
         /\ \/ Grows(New(id, kind)) /\ ToEnable(index) /\ Wanted(id)
            \/ list' = list /\ ToReport /\ Unasked
<1>1. /\ at["cloud"].pc = "idle" /\ Overlaps("cloud") /\ ~Known(id) /\ AddNew(id, kind)
      /\ "cloud" \in Tasks
  BY DEF Add, Begin, Busy, Tasks
<1>2. CASE /\ Len(list) < MaxSchedules /\ list' = Append(list, New(id, kind))
           /\ Goto("cloud", "enable", index, "report", <<>>) /\ Wanted(id)
  <2>1. New(id, kind) \in Records
    BY DEF New, Records, Times, Types
  <2>2. /\ list' \in Seq(Records) /\ Len(list') = Len(list) + 1
        /\ \A k \in 1..Len(list) : list'[k] = list[k]
        /\ list'[Len(list) + 1] = New(id, kind)
    BY <1>2, <2>1, AppendProperties DEF Types
  <2>3. DOMAIN list = 1..Len(list) /\ DOMAIN list' = 1..(Len(list) + 1)
    BY <2>2, Elements, LenProperties DEF Types
  <2>4. Grows(New(id, kind))
    BY <1>2, <2>2, <2>3 DEF Grows
  <2>5. ToEnable(index)
    BY <1>1, <1>2, Moving DEF ToEnable
  <2> QED
    BY <1>1, <1>2, <2>4, <2>5 DEF AddNew
<1>3. CASE Goto("cloud", "build", NoIndex, "idle", <<>>) /\ UNCHANGED list /\ Unasked
  BY <1>1, <1>3, Moving DEF ToReport, AddNew
<1> QED
  BY <1>1, <1>2, <1>3 DEF AddNew

LEMMA EditDoes ==
  ASSUME Types, NEW id, NEW kind \in Kinds, Edit(id, kind)
  PROVE  /\ at["cloud"].pc = "idle" /\ Overlaps("cloud")
         /\ \E p \in DOMAIN list :
              /\ list[p].id = id
              /\ \/ /\ list[p].on /\ Revises(p, Disabled([list[p] EXCEPT !.kind = kind]))
                    /\ ToEnable(list[p].idx) /\ Wanted(id)
                 \/ /\ ~list[p].on /\ Revises(p, [list[p] EXCEPT !.kind = kind, !.ts = "none"])
                    /\ ToReport /\ Unasked
<1>1. at["cloud"].pc = "idle" /\ Overlaps("cloud") /\ "cloud" \in Tasks
  BY DEF Edit, Begin, Busy, Tasks
<1>2. PICK p \in DOMAIN list : p = WithId(id) /\ list[p].id = id
  BY Found DEF Edit, Types
<1>3. list[p] \in Records
  BY Elements DEF Types
<1> DEFINE e == [list[p] EXCEPT !.kind = kind]
           n == [list[p] EXCEPT !.kind = kind, !.ts = "none"]
<1>4. /\ e \in Records /\ e.id = list[p].id /\ e.idx = list[p].idx
      /\ n \in Records /\ n.id = list[p].id /\ n.idx = list[p].idx
  BY <1>3 DEF Records, Times
<1>5. CASE list[p].on
  <2>1. /\ list' = [list EXCEPT ![p] = Disabled(e)] /\ Wanted(id)
        /\ Goto("cloud", "enable", list[p].idx, "report", <<>>)
    BY <1>2, <1>5 DEF Edit
  <2>2. Revises(p, Disabled(e))
    <3> HIDE DEF e
    <3> QED
      BY <1>4, <2>1, Revisions, Revising DEF Types
  <2>3. ToEnable(list[p].idx)
    BY <1>1, <2>1, Moving DEF ToEnable
  <2> QED
    BY <1>1, <1>2, <1>5, <2>1, <2>2, <2>3
<1>6. CASE ~list[p].on
  <2>1. /\ list' = [list EXCEPT ![p] = n] /\ Unasked
        /\ Goto("cloud", "build", NoIndex, "idle", <<>>)
    BY <1>2, <1>3, <1>6 DEF Edit, Records
  <2>2. Revises(p, n)
    <3> HIDE DEF n
    <3> QED
      BY <1>4, <2>1, Revising DEF Types
  <2>3. ToReport
    BY <1>1, <2>1, Moving DEF ToReport
  <2> QED
    BY <1>1, <1>2, <1>6, <2>1, <2>2, <2>3
<1> QED
  BY <1>5, <1>6

LEMMA RemoveDoes ==
  ASSUME Types, NEW id \in Ids, Remove(id)
  PROVE  /\ at["cloud"].pc = "idle" /\ Overlaps("cloud") /\ ToReport /\ Unasked
         /\ \E p \in Nat : Shrinks(p)
<1>1. at["cloud"].pc = "idle" /\ Overlaps("cloud") /\ "cloud" \in Tasks /\ Unasked
  BY DEF Remove, Begin, Busy, Tasks
<1>2. ToReport
  BY <1>1, Moving DEF Remove, ToReport
<1>3. PICK p \in 1..Len(list) : Without(p)
  BY RemoveShrinks
<1>4. DOMAIN list = 1..Len(list) /\ Len(list) \in Nat /\ DOMAIN list' = 1..Len(list')
  BY RemoveShrinks, Elements, LenProperties DEF Types
<1>5. Shrinks(p)
  BY <1>3, <1>4 DEF Shrinks, Without
<1>6. p \in Nat
  BY <1>4
<1> QED
  BY <1>1, <1>2, <1>5, <1>6

LEMMA EnableDoes ==
  ASSUME Types, NEW id, Enable(id)
  PROVE  /\ at["cloud"].pc = "idle" /\ Overlaps("cloud") /\ Wanted(id)
         /\ \E p \in DOMAIN list : list[p].id = id /\ ToEnable(list[p].idx)
<1>1. at["cloud"].pc = "idle" /\ Overlaps("cloud") /\ "cloud" \in Tasks
  BY DEF Enable, Begin, Busy, Tasks
<1>2. PICK p \in DOMAIN list : p = WithId(id) /\ list[p].id = id
  BY Found DEF Enable, Types
<1> QED
  BY <1>1, <1>2, Moving DEF Enable, ToEnable

LEMMA DisableDoes ==
  ASSUME Types, NEW id, Disable(id)
  PROVE  /\ at["cloud"].pc = "idle" /\ Overlaps("cloud") /\ ToReport /\ Unasked
         /\ \E p \in DOMAIN list : list[p].id = id /\ Revises(p, Disabled(list[p]))
<1>1. at["cloud"].pc = "idle" /\ Overlaps("cloud") /\ "cloud" \in Tasks
  BY DEF Disable, Begin, Busy, Tasks
<1>2. PICK p \in DOMAIN list : p = WithId(id) /\ list[p].id = id
  BY Found DEF Disable, Types
<1>3. list[p] \in Records /\ list' = [list EXCEPT ![p] = Disabled(list[p])]
  BY <1>2, Elements DEF Disable, Types
<1>4. Revises(p, Disabled(list[p]))
  BY <1>3, Revisions, Revising DEF Types
<1> QED
  BY <1>1, <1>2, <1>4, Moving DEF Disable, ToReport

LEMMA RejectDoes ==
  ASSUME Types, Reject
  PROVE  at["cloud"].pc = "idle" /\ Overlaps("cloud") /\ ToReport /\ Unasked
<1>1. "cloud" \in Tasks
  BY DEF Tasks
<1> QED
  BY <1>1, Moving DEF Reject, Begin, Busy, ToReport

\* Nothing is under way.
AllRest == \A t \in Tasks : /\ at[t].pc = "idle" /\ at[t].idx = NoIndex
                            /\ at[t].after = "idle" /\ at[t].data = <<>>

\* The list l is what the entries e read back.
ListReads(l, e, known) ==
  /\ DOMAIN l = DOMAIN e /\ Len(l) = Len(e)
  /\ \A k \in DOMAIN e : e[k] \in Entries /\ l[k].idx = k - 1 /\ ReadAs(e[k], l[k], known)

LEMMA RestoredReads ==
  ASSUME NEW e \in Seq(Entries), NEW known, NEW l, l = RestoredList(e, known)
  PROVE  ListReads(l, e, known)
<1>1. /\ DOMAIN l = DOMAIN e
      /\ \A k \in DOMAIN e : l[k] = Read(e, k, known)
  BY ReadList
<1>2. DOMAIN e = 1..Len(e) /\ Len(e) \in Nat /\ \A k \in 1..Len(e) : e[k] \in Entries
  BY LenProperties, ElementOfSeq
<1>3. Len(l) = Len(e) /\ \A k \in DOMAIN e : l[k].idx = k - 1
  BY <1>1, <1>2, RestoredType DEF Numbered
<1>4. \A k \in DOMAIN e : e[k] \in Entries
  BY <1>2
<1>5. ASSUME NEW k \in DOMAIN e PROVE ReadAs(e[k], l[k], known)
  <2>1. ReadAs(e[k], Read(e, k, known), known)
    BY <1>4, ReadFacts, Zenon
  <2>2. l[k] = Read(e, k, known)
    BY <1>1
  <2> QED
    BY <2>1, <2>2, Zenon
<1> QED
  BY <1>1, <1>3, <1>4, <1>5, Zenon DEF ListReads

LEMMA BootDoes ==
  ASSUME Types, Boot
  PROVE  Passed(nvs, nvs') /\ ListReads(list', nvs', clock') /\ AllRest'
<1>1. Passed(nvs, nvs')
  BY OffPassed DEF Boot, Types
<1>2. nvs' \in Seq(Entries)
  BY <1>1 DEF Passed
<1>3. list' = RestoredList(nvs', clock') /\ over' = over
  BY DEF Boot
<1>5. ListReads(list', nvs', clock')
  BY <1>2, <1>3, RestoredReads
<1>6. AllRest'
  BY DEF Boot, AllRest, Idle, Tasks
<1> QED
  BY <1>1, <1>5, <1>6

LEMMA InitDoes ==
  ASSUME Init
  PROVE  /\ Types /\ ListReads(list, nvs, clock) /\ AllRest /\ over = FALSE
         /\ Len(nvs) = 1 /\ nvs \in Seq(Entries) /\ DOMAIN nvs = {1}
         /\ nvs[1].kind = "once" /\ nvs[1].on = TRUE /\ nvs[1].ts = "none"
<1>1. Types
  BY InitRestores
<1>2. list = RestoredList(nvs, clock) /\ over = FALSE
  BY DEF Init, SchedulesInit
<1>3. ListReads(list, nvs, clock)
  BY <1>1, <1>2, RestoredReads DEF Types
<1>4. AllRest
  BY DEF Init, SchedulesInit, AllRest, Idle, Tasks
<1>5. /\ Len(nvs) = 1 /\ DOMAIN nvs = {1}
      /\ nvs[1].kind = "once" /\ nvs[1].on = TRUE /\ nvs[1].ts = "none"
  BY DEF Init, SchedulesInit
<1> QED
  BY <1>1, <1>2, <1>3, <1>4, <1>5 DEF Types

-----------------------------------------------------------------------------
(* Types *)

Data == \A t \in Tasks : WellFormed(at[t].data)

LEMMA RevisesWellFormed ==
  ASSUME WellFormed(list), NEW p, NEW r, Revises(p, r), r.kind = "dated" => r.ts = "none"
  PROVE  WellFormed(list')
<1>1. Names(list', list)
  BY DEF Names, Revises, WellFormed
<1> QED
  BY <1>1, NamesWellFormed

LEMMA MovesData ==
  ASSUME Data, NEW t \in Tasks, NEW pc, NEW i, NEW after, NEW data, WellFormed(data),
         MovesTo(t, pc, i, after, data)
  PROVE  Data'
BY DEF Data, MovesTo, WellFormed

LEMMA ReturnsData == ASSUME Data, NEW t \in Tasks, Returns(t) PROVE Data'
BY EmptyWellFormed, MovesData DEF Returns, Rests

LEMMA GoesOnData == ASSUME Data, NEW t \in Tasks, NEW pc, GoesOn(t, pc) PROVE Data'
BY MovesData DEF GoesOn, Data

LEMMA VisitsData == ASSUME Data, NEW i, Visits(i) PROVE Data'
<1>1. "work" \in Tasks
  BY DEF Tasks
<1> QED
  BY <1>1, EmptyWellFormed, MovesData DEF Visits, Rests

\* Disabling and arming.
LEMMA Tame ==
  ASSUME NEW r \in Records, r.kind = "dated" => r.ts = "none"
  PROVE  /\ Disabled(r).kind = "dated" => Disabled(r).ts = "none"
         /\ Armed(r).kind = "dated" => Armed(r).ts = "none"
BY DEF Records, Disabled, Armed

LEMMA TaskStepWritten ==
  ASSUME Types, Written, NEW t \in Tasks, TaskStep(t)
  PROVE  Written'
<1>0. WellFormed(list) /\ WellFormed(nvs) /\ Data
  BY DEF Written, Data
<1>1. ASSUME NEW p \in DOMAIN list PROVE list[p] \in Records /\ (list[p].kind = "dated" => list[p].ts = "none")
  BY <1>0, Elements DEF Types, WellFormed
<1>2. CASE SetEnabled(t)
  <2>1. Data'
    BY <1>0, <1>2, SetEnabledDoes, GoesOnData
  <2>2. WellFormed(list')
    <3>1. ASSUME NEW p \in DOMAIN list, Revises(p, [list[p] EXCEPT !.on = TRUE]) PROVE WellFormed(list')
      <4>1. [list[p] EXCEPT !.on = TRUE].kind = "dated" => [list[p] EXCEPT !.on = TRUE].ts = "none"
        BY <1>1 DEF Records
      <4> QED
        BY <1>0, <3>1, <4>1, RevisesWellFormed
    <3> QED
      BY <1>0, <1>2, <3>1, SetEnabledDoes
  <2> QED
    BY <1>0, <1>2, <2>1, <2>2 DEF Written, Data, SetEnabled
<1>3. CASE CheckSync(t)
  <2>1. Data'
    BY <1>0, <1>3, CheckSyncDoes, GoesOnData, ReturnsData
  <2> QED
    BY <1>0, <1>3, <2>1 DEF Written, Data, CheckSync
<1>4. CASE Arm(t)
  <2>1. Data'
    BY <1>0, <1>4, ArmDoes, GoesOnData, ReturnsData
  <2>2. WellFormed(list')
    BY <1>0, <1>1, <1>4, ArmDoes, Tame, RevisesWellFormed
  <2> QED
    BY <1>0, <1>4, <2>1, <2>2 DEF Written, Data, Arm
<1>5. CASE Build(t)
  <2>1. WellFormed(Snapshot)
    BY <1>0, SnapshotWellFormed DEF Types
  <2>2. Data'
    BY <1>0, <1>5, <2>1, BuildDoes, MovesData
  <2> QED
    BY <1>0, <1>5, <2>2 DEF Written, Data, Build, memory
<1>6. CASE Store(t)
  <2>1. Data'
    BY <1>0, <1>6, StoreDoes, ReturnsData
  <2> QED
    BY <1>0, <1>6, <2>1 DEF Written, Data, Store, memory
<1> QED
  BY <1>2, <1>3, <1>4, <1>5, <1>6 DEF TaskStep

LEMMA WorkStepWritten ==
  ASSUME Types, Written, WorkStep \/ TakeTrigger \/ TakeSync \/ AfterAction
  PROVE  Written'
<1>0. WellFormed(list) /\ WellFormed(nvs) /\ Data /\ "work" \in Tasks
  BY DEF Written, Data, Tasks
<1>1. ASSUME NEW p \in DOMAIN list PROVE list[p] \in Records /\ (list[p].kind = "dated" => list[p].ts = "none")
  BY <1>0, Elements DEF Types, WellFormed
<1>2. CASE DisableExpired
  <2>1. Data'
    BY <1>0, <1>2, DisableExpiredDoes, GoesOnData
  <2>2. WellFormed(list')
    BY <1>0, <1>1, <1>2, DisableExpiredDoes, Tame, RevisesWellFormed
  <2> QED
    BY <1>0, <1>2, <2>1, <2>2 DEF Written, Data, DisableExpired
<1>3. CASE VisitOne
  <2>1. WellFormed(at["work"].data)
    BY <1>0 DEF Data
  <2>2. Data'
    BY <1>0, <1>3, <2>1, VisitOneDoes, GoesOnData, MovesData
  <2> QED
    BY <1>0, <1>3, <2>2 DEF Written, Data, VisitOne, memory
<1>4. CASE VisitNext
  <2>1. Data'
    BY <1>0, <1>4, VisitNextDoes, VisitsData
  <2> QED
    BY <1>0, <1>4, <2>1 DEF Written, Data, VisitNext, memory
<1>5. CASE TakeTrigger
  <2>1. Data'
    <3>1. CASE MovesTo("work", "act", Head(queue).idx, "idle", <<>>)
      BY <1>0, <3>1, EmptyWellFormed, MovesData
    <3>2. CASE UNCHANGED at
      BY <1>0, <3>2 DEF Data
    <3> QED
      BY <1>5, <3>1, <3>2, TakeTriggerDoes
  <2> QED
    BY <1>0, <1>5, <2>1 DEF Written, Data, TakeTrigger, memory
<1>6. CASE TakeSync
  <2>1. Data'
    <3>1. CASE Visits(First)
      BY <1>0, <3>1, VisitsData
    <3>2. CASE UNCHANGED at
      BY <1>0, <3>2 DEF Data
    <3> QED
      BY <1>6, <3>1, <3>2, TakeSyncDoes
  <2> QED
    BY <1>0, <1>6, <2>1 DEF Written, Data, TakeSync
<1>7. CASE AfterAction
  <2>1. Data'
    BY <1>0, <1>7, AfterActionDoes, GoesOnData, EmptyWellFormed, MovesData DEF Rests
  <2> QED
    BY <1>0, <1>7, <2>1 DEF Written, Data, AfterAction, memory
<1> QED
  BY <1>2, <1>3, <1>4, <1>5, <1>6, <1>7 DEF WorkStep

LEMMA TimerStepWritten ==
  ASSUME Types, Written, TimerStep
  PROVE  Written'
<1>0. WellFormed(list) /\ WellFormed(nvs) /\ Data
  BY DEF Written, Data
<1>1. CASE ClockSet \/ CalendarPasses \/ SyncTimer
  BY <1>0, <1>1 DEF ClockSet, CalendarPasses, SyncTimer, memory, Written, Data
<1>2. ASSUME NEW p \in DOMAIN list, Fire(p) PROVE Written'
  <2>1. list[p] \in Records /\ (list[p].kind = "dated" => list[p].ts = "none")
    BY <1>0, Elements DEF Types, WellFormed
  <2> DEFINE r == [list[p] EXCEPT !.ts = IF @ = "future" THEN "past" ELSE @,
                                  !.armed = (list[p].kind = "dated" /\ ~over)]
  <2>2. r.kind = "dated" => r.ts = "none"
    BY <2>1 DEF Records
  <2>3. Revises(p, r)
    BY <1>2, FireDoes
  <2>4. WellFormed(list')
    <3> HIDE DEF r
    <3> QED
      BY <1>0, <2>2, <2>3, RevisesWellFormed
  <2>5. WellFormed(nvs')
    BY <1>0, <1>2, AgedWellFormed DEF Types, Fire
  <2>6. ASSUME NEW t \in Tasks PROVE WellFormed(at[t].data)'
    <3>1. at[t].data \in Seq(Entries) /\ WellFormed(at[t].data)
      BY <1>0 DEF Types, Positions, Data
    <3>2. at'[t].data = Aged(at[t].data, list[p].id)
      BY <1>2, FireDoes
    <3>3. WellFormed(Aged(at[t].data, list[p].id))
      BY <3>1, AgedWellFormed
    <3> QED
      BY <3>2, <3>3 DEF WellFormed
  <2> QED
    BY <2>4, <2>5, <2>6 DEF Written
<1> QED
  BY <1>1, <1>2 DEF TimerStep

LEMMA RequestWritten ==
  ASSUME Types, Written, Request
  PROVE  Written'
<1>0. WellFormed(list) /\ WellFormed(nvs) /\ Data /\ "cloud" \in Tasks
  BY DEF Written, Data, Tasks
<1>1. ASSUME NEW p \in DOMAIN list PROVE list[p] \in Records /\ (list[p].kind = "dated" => list[p].ts = "none")
  BY <1>0, Elements DEF Types, WellFormed
<1>2. nvs' = nvs
  BY DEF Request, Add, Edit, Remove, Enable, Disable, Reject
<1>3. ASSUME ToReport \/ \E i : ToEnable(i) PROVE Data'
  BY <1>0, <1>3, EmptyWellFormed, MovesData DEF ToReport, ToEnable
<1>4. ASSUME NEW id \in Ids, NEW kind \in Kinds, Add(id, kind) PROVE Written'
  <2>1. Data'
    BY <1>3, <1>4, AddDoes
  <2>2. CASE Grows(New(id, kind))
    <3>1. ~Known(id) /\ New(id, kind).id = id /\ New(id, kind).ts = "none"
      BY <1>4, AddDoes DEF New
    <3>2. Len(list') <= MaxSchedules
      <4>1. Len(list) \in Nat
        BY Elements DEF Types
      <4> QED
        BY <2>2, <4>1, SchedulesAssumption DEF Grows
    <3>3. ASSUME NEW j \in DOMAIN list', NEW k \in DOMAIN list', list'[j].id = list'[k].id PROVE j = k
      <4>1. Len(list) \in Nat
        BY Elements DEF Types
      <4>2. /\ j \in DOMAIN list \/ j = Len(list) + 1
            /\ k \in DOMAIN list \/ k = Len(list) + 1
        BY <2>2, <3>3, <4>1 DEF Grows
      <4>3. \A x \in DOMAIN list : list[x].id # id
        BY <3>1 DEF Known
      <4> QED
        BY <1>0, <2>2, <3>1, <3>3, <4>2, <4>3 DEF Grows, WellFormed
    <3>4. \A k \in DOMAIN list' : list'[k].kind = "dated" => list'[k].ts = "none"
      <4>1. Len(list) \in Nat
        BY Elements DEF Types
      <4> QED
        BY <1>0, <2>2, <3>1, <4>1 DEF Grows, WellFormed
    <3>5. WellFormed(list')
      BY <3>2, <3>3, <3>4 DEF WellFormed
    <3> QED
      BY <1>0, <1>2, <2>1, <3>5 DEF Written, Data
  <2>3. CASE list' = list
    BY <1>0, <1>2, <2>1, <2>3 DEF Written, Data
  <2> QED
    BY <1>4, <2>2, <2>3, AddDoes
<1>5. ASSUME NEW id, NEW kind \in Kinds, Edit(id, kind) PROVE Written'
  <2>1. Data'
    BY <1>3, <1>5, EditDoes
  <2>2. PICK p \in DOMAIN list :
          \/ Revises(p, Disabled([list[p] EXCEPT !.kind = kind]))
          \/ Revises(p, [list[p] EXCEPT !.kind = kind, !.ts = "none"])
    BY <1>5, EditDoes
  <2> DEFINE e == Disabled([list[p] EXCEPT !.kind = kind])
             n == [list[p] EXCEPT !.kind = kind, !.ts = "none"]
  <2>3. (e.kind = "dated" => e.ts = "none") /\ (n.kind = "dated" => n.ts = "none")
    BY <1>1 DEF Disabled, Records
  <2>4. Revises(p, e) \/ Revises(p, n)
    BY <2>2
  <2>5. WellFormed(list')
    <3> HIDE DEF e, n
    <3> QED
      BY <1>0, <2>3, <2>4, RevisesWellFormed
  <2> QED
    BY <1>0, <1>2, <2>1, <2>5 DEF Written, Data
<1>6. ASSUME NEW id \in Ids, Remove(id) PROVE Written'
  <2>1. Data'
    BY <1>3, <1>6, RemoveDoes
  <2>2. PICK p \in Nat : Shrinks(p)
    BY <1>6, RemoveDoes
  <2>3. Len(list) \in Nat /\ DOMAIN list = 1..Len(list) /\ DOMAIN list' = 1..Len(list')
    BY <1>6, RemoveShrinks, Elements, LenProperties DEF Types
  <2>4. WellFormed(list')
    <3>1. Len(list') <= MaxSchedules
      BY <1>0, <2>2, <2>3, SchedulesAssumption DEF Shrinks, WellFormed
    <3>2. \A j, k \in DOMAIN list' : list'[j].id = list'[k].id => j = k
      BY <1>0, <2>2, <2>3 DEF Shrinks, WellFormed
    <3>3. \A k \in DOMAIN list' : list'[k].kind = "dated" => list'[k].ts = "none"
      BY <1>0, <2>2, <2>3 DEF Shrinks, WellFormed
    <3> QED
      BY <3>1, <3>2, <3>3 DEF WellFormed
  <2> QED
    BY <1>0, <1>2, <2>1, <2>4 DEF Written, Data
<1>7. ASSUME NEW id, Enable(id) PROVE Written'
  <2>1. Data'
    BY <1>3, <1>7, EnableDoes
  <2> QED
    BY <1>0, <1>2, <1>7, <2>1 DEF Written, Data, Enable, memory
<1>8. ASSUME NEW id, Disable(id) PROVE Written'
  <2>1. Data'
    BY <1>3, <1>8, DisableDoes
  <2>2. WellFormed(list')
    BY <1>0, <1>1, <1>8, DisableDoes, Tame, RevisesWellFormed
  <2> QED
    BY <1>0, <1>2, <2>1, <2>2 DEF Written, Data
<1>9. CASE Reject
  <2>1. Data'
    BY <1>3, <1>9, RejectDoes
  <2> QED
    BY <1>0, <1>2, <1>9, <2>1 DEF Written, Data, Reject, memory
<1> QED
  BY <1>4, <1>5, <1>6, <1>7, <1>8, <1>9 DEF Request

LEMMA BootWritten == ASSUME Types, Written, Boot PROVE Written'
<1>1. WellFormed(nvs') /\ nvs' \in Seq(Entries)
  BY BootDoes, PassedWellFormed DEF Written, Passed
<1>2. WellFormed(list')
  BY <1>1, RestoredWellFormed DEF Boot
<1>3. Data'
  BY BootDoes, EmptyWellFormed DEF AllRest, Data, WellFormed
<1> QED
  BY <1>1, <1>2, <1>3 DEF Written, Data

LEMMA InitWritten == ASSUME Init PROVE Written
<1>1. WellFormed(nvs) /\ nvs \in Seq(Entries)
  <2>1. /\ Len(nvs) = 1 /\ nvs \in Seq(Entries) /\ DOMAIN nvs = {1}
        /\ nvs[1].kind = "once"
    BY InitDoes
  <2>2. 1 <= MaxSchedules
    BY SchedulesAssumption
  <2>3. \A k \in DOMAIN nvs : k = 1
    BY <2>1
  <2> QED
    BY <2>1, <2>2, <2>3 DEF WellFormed
<1>2. WellFormed(list)
  BY <1>1, RestoredWellFormed DEF Init, SchedulesInit
<1>3. \A t \in Tasks : WellFormed(at[t].data)
  BY InitDoes, EmptyWellFormed DEF AllRest
<1> QED
  BY <1>1, <1>2, <1>3 DEF Written

\* The other variables.
Flags ==
  /\ sync \in {"not started", "started", "done"} /\ timer \in {"none", "running", "expired"}
  /\ clock \in BOOLEAN /\ over \in BOOLEAN
  /\ fired \in [Ids -> 0..2]
  /\ replay \subseteq Ids /\ lost \subseteq Ids \cup {"sync"} /\ stale \subseteq Ids
  /\ Len(queue) <= QueueSize

LEMMA Counting ==
  ASSUME NEW S, NEW f \in [Ids -> S], NEW id, NEW n \in S
  PROVE  [f EXCEPT ![id] = n] \in [Ids -> S]
OBVIOUS

LEMMA WantedFlags ==
  ASSUME Flags, NEW id, Wanted(id) \/ Unasked
  PROVE  fired' \in [Ids -> 0..2] /\ replay' \subseteq Ids /\ lost' \subseteq Ids \cup {"sync"}
<1>1. 0 \in 0..2
  OBVIOUS
<1>2. fired' \in [Ids -> 0..2]
  <2>1. fired' = [fired EXCEPT ![id] = 0] \/ fired' = fired
    BY DEF Wanted, Unasked
  <2>2. fired \in [Ids -> 0..2]
    BY DEF Flags
  <2>3. [fired EXCEPT ![id] = 0] \in [Ids -> 0..2]
    BY <1>1, <2>2, Counting
  <2> QED
    BY <2>1, <2>2, <2>3
<1> QED
  BY <1>2 DEF Flags, Wanted, Unasked

LEMMA RequestFlags == ASSUME Types, Flags, Request PROVE Flags'
<1>1. UNCHANGED <<sync, timer, clock, over, queue, stale>>
  BY DEF Request, Add, Edit, Remove, Enable, Disable, Reject, memory
<1>2. \E id : Wanted(id) \/ Unasked
  BY DEF Request, Add, AddNew, Edit, Remove, Enable, Disable, Reject
<1> QED
  BY <1>1, <1>2, WantedFlags DEF Flags

LEMMA TaskStepFlags == ASSUME Types, Flags, NEW t \in Tasks, TaskStep(t) PROVE Flags'
<1>1. CASE SetEnabled(t) \/ Build(t)
  BY <1>1 DEF SetEnabled, Build, memory, history, Flags
<1>2. CASE CheckSync(t)
  BY <1>2 DEF CheckSync, history, Flags
<1>3. CASE Store(t)
  BY <1>3 DEF Store, memory, Flags
<1>4. CASE Arm(t)
  <2>1. UNCHANGED <<sync, timer, clock, over, queue, stale, replay, lost>>
    BY <1>4 DEF Arm
  <2>2. fired' = fired \/ \E id : fired' = [fired EXCEPT ![id] = 0]
    BY <1>4 DEF Arm
  <2>3. 0 \in 0..2
    OBVIOUS
  <2>4. fired' \in [Ids -> 0..2]
    BY <2>2, <2>3, Counting DEF Flags
  <2> QED
    BY <2>1, <2>4 DEF Flags
<1> QED
  BY <1>1, <1>2, <1>3, <1>4 DEF TaskStep

LEMMA WorkStepFlags ==
  ASSUME Types, Flags, WorkStep \/ TakeTrigger \/ TakeSync \/ AfterAction
  PROVE  Flags'
<1>1. CASE WorkStep \/ AfterAction
  BY <1>1 DEF WorkStep, DisableExpired, VisitOne, VisitNext, AfterAction, memory, Flags
<1>2. CASE TakeTrigger \/ TakeSync
  <2>1. Len(queue') <= QueueSize
    BY <1>2, Taking DEF Types, Flags, TakeTrigger, TakeSync
  <2> QED
    BY <1>2, <2>1 DEF TakeTrigger, TakeSync, memory, Flags
<1> QED
  BY <1>1, <1>2

LEMMA TimerStepFlags == ASSUME Types, Flags, TimerStep PROVE Flags'
<1>1. CASE ClockSet \/ CalendarPasses
  BY <1>1 DEF ClockSet, CalendarPasses, memory, history, Flags
<1>2. CASE SyncTimer
  <2>1. [do |-> "sync", idx |-> NoIndex, for |-> "sync"] \in Jobs
    BY DEF Jobs
  <2>2. Len(queue') <= QueueSize /\ lost' \subseteq lost \cup {"sync"}
    BY <1>2, <2>1, Posting DEF SyncTimer, Types, Flags
  <2> QED
    BY <1>2, <2>2 DEF SyncTimer, Flags
<1>3. ASSUME NEW p \in DOMAIN list, Fire(p) PROVE Flags'
  <2> DEFINE job == [do |-> "trigger", idx |-> list[p].idx, for |-> list[p].id]
  <2>1. job \in Jobs /\ Post(job) /\ job.for \in Ids
    BY <1>3, FireDoes, Elements DEF Types, Records
  <2> HIDE DEF job
  <2>2. Len(queue') <= QueueSize /\ lost' \subseteq lost \cup {job.for}
    BY <2>1, Posting DEF Types, Flags
  <2>3. fired' \in [Ids -> 0..2]
    <3>1. fired \in [Ids -> 0..2] /\ list[p].id \in Ids
      BY Elements DEF Types, Records, Flags
    <3> DEFINE n == IF list[p].kind = "once" /\ fired[list[p].id] < 2
                    THEN fired[list[p].id] + 1 ELSE fired[list[p].id]
    <3>2. fired[list[p].id] \in 0..2
      BY <3>1
    <3>3. n \in 0..2
      BY <3>2
    <3>4. fired' = [fired EXCEPT ![list[p].id] = n]
      BY <1>3 DEF Fire
    <3> HIDE DEF n
    <3> QED
      BY <3>1, <3>3, <3>4, Counting
  <2> QED
    BY <1>3, <2>1, <2>2, <2>3 DEF Fire, Flags
<1> QED
  BY <1>1, <1>2, <1>3 DEF TimerStep

LEMMA BootFlags == ASSUME Types, Flags, Boot PROVE Flags'
<1>1. nvs' \in Seq(Entries) /\ \A k \in DOMAIN nvs : nvs'[k].id \in Ids
  BY BootDoes DEF Passed, Entries
<1>2. stale' \subseteq Ids
  BY <1>1 DEF Boot
<1>3. Len(queue') <= QueueSize
  BY SchedulesAssumption DEF Boot
<1>4. sync' \in {"not started", "started", "done"} /\ timer' \in {"none", "running"}
  BY DEF Boot, RestoredSync
<1>5. clock' \in BOOLEAN /\ replay' \subseteq Ids /\ lost' = {}
  BY DEF Boot, Flags
<1> QED
  BY <1>2, <1>3, <1>4, <1>5 DEF Boot, Flags

LEMMA InitFlags == ASSUME Init PROVE Flags
<1>1. Len(queue) <= QueueSize
  BY SchedulesAssumption DEF Init, SchedulesInit
<1>2. sync \in {"not started", "started", "done"} /\ timer \in {"none", "running"}
  BY DEF Init, SchedulesInit, RestoredSync
<1>3. fired \in [Ids -> 0..2]
  <2>1. 0 \in 0..2
    OBVIOUS
  <2> QED
    BY <2>1 DEF Init, SchedulesInit
<1> QED
  BY <1>1, <1>2, <1>3 DEF Init, SchedulesInit, Flags

\* The schedules are in the order of their indices.
Sorted == \A j, k \in DOMAIN list : j < k => list[j].idx < list[k].idx

LEMMA SameSorted ==
  ASSUME Sorted, SameNames, list \in Seq(Records), list' \in Seq(Records)
  PROVE  Sorted'
<1>1. DOMAIN list = 1..Len(list) /\ DOMAIN list' = 1..Len(list)
  BY LenProperties DEF SameNames
<1> QED
  BY <1>1 DEF Sorted, SameNames

LEMMA AddSorted ==
  ASSUME Types, TriggerInv, Sorted, NEW id \in Ids, NEW kind \in Kinds, Add(id, kind)
  PROVE  Sorted'
<1>1. CASE list' = list
  BY <1>1 DEF Sorted
<1>2. CASE Grows(New(id, kind))
  <2>1. New(id, kind).idx = index /\ Len(list) \in Nat
    BY Elements DEF Types, New
  <2>2. \A k \in DOMAIN list : list[k].idx < index
    BY DEF TriggerInv, Indices
  <2> QED
    BY <1>2, <2>1, <2>2 DEF Grows, Sorted
<1> QED
  BY <1>1, <1>2, AddDoes

LEMMA RemoveSorted ==
  ASSUME Types, Sorted, NEW id \in Ids, Remove(id)
  PROVE  Sorted'
<1>1. PICK p \in Nat : Shrinks(p)
  BY RemoveDoes
<1>2. Len(list) \in Nat /\ DOMAIN list = 1..Len(list) /\ DOMAIN list' = 1..Len(list')
  BY RemoveShrinks, Elements, LenProperties DEF Types
<1> QED
  BY <1>1, <1>2 DEF Shrinks, Sorted

LEMMA NumberedSorted ==
  ASSUME NEW l, NEW e \in Seq(Entries), NEW known, ListReads(l, e, known)
  PROVE  \A j, k \in DOMAIN l : j < k => l[j].idx < l[k].idx
<1>1. DOMAIN e = 1..Len(e) /\ Len(e) \in Nat
  BY LenProperties
<1>2. DOMAIN l = 1..Len(e) /\ \A k \in 1..Len(e) : l[k].idx = k - 1
  BY <1>1 DEF ListReads
<1> QED
  BY <1>1, <1>2

\* What every step keeps of the schedules.
BaseInv == SchedulesInv /\ Written /\ Flags /\ Sorted

LEMMA BaseInvInit == Init => BaseInv
<1> SUFFICES ASSUME Init PROVE BaseInv
  OBVIOUS
<1>1. Sorted
  BY InitDoes, NumberedSorted DEF Sorted
<1> QED
  BY <1>1, SchedulesInvInit, InitWritten, InitFlags DEF BaseInv

LEMMA BaseInvStep == BaseInv /\ [Next]_vars => BaseInv'
<1> SUFFICES ASSUME BaseInv, [Next]_vars PROVE BaseInv'
  OBVIOUS
<1>0. SchedulesInv /\ Types /\ TriggerInv /\ Written /\ Flags /\ Sorted
  BY DEF BaseInv, SchedulesInv
<1>1. SchedulesInv' /\ Types'
  BY <1>0, SchedulesInvStep DEF SchedulesInv
<1>2. ASSUME Kept PROVE Sorted'
  BY <1>0, <1>1, <1>2, SameSorted DEF Types, Kept
<1>3. CASE ScheduleRequest
  <2>1. Request
    BY <1>3 DEF ScheduleRequest
  <2>2. Sorted'
    <3>1. ASSUME NEW id \in Ids, NEW kind \in Kinds, Edit(id, kind) \/ Enable(id) \/ Disable(id) \/ Reject
          PROVE  Sorted'
      BY <1>0, <1>2, <3>1, RequestKeeps
    <3>2. "once" \in Kinds /\ (Reject => list' = list)
      BY DEF Kinds, Reject, memory
    <3> QED
      BY <1>0, <2>1, <3>1, <3>2, AddSorted, RemoveSorted DEF Request, Sorted
  <2> QED
    BY <1>0, <1>1, <2>1, <2>2, RequestWritten, RequestFlags DEF BaseInv
<1>4. CASE UNCHANGED <<memory, clock, over, nvs, queue, at, history>>
  BY <1>0, <1>1, <1>4 DEF BaseInv, Written, Flags, Sorted, memory, history, WellFormed
<1>5. CASE Reboot
  <2>1. Boot
    BY <1>5 DEF Reboot
  <2>2. Sorted'
    BY <1>0, <2>1, BootDoes, NumberedSorted DEF Sorted, Passed
  <2> QED
    BY <1>0, <1>1, <2>1, <2>2, BootWritten, BootFlags DEF BaseInv
<1>6. ASSUME NEW t \in Tasks, TaskStep(t) PROVE BaseInv'
  BY <1>0, <1>1, <1>2, <1>6, TaskStepKeeps, TaskStepWritten, TaskStepFlags DEF BaseInv
<1>7. CASE WorkStep
  BY <1>0, <1>1, <1>2, <1>7, WorkStepKeeps, WorkStepWritten, WorkStepFlags DEF BaseInv
<1>8. CASE TakeTrigger \/ TakeSync \/ TriggerActed
  <2>1. TakeTrigger \/ TakeSync \/ AfterAction
    BY <1>8 DEF TriggerActed
  <2> QED
    BY <1>0, <1>1, <1>2, <1>8, <2>1, TakeKeeps, WorkStepWritten, WorkStepFlags DEF BaseInv
<1>9. CASE TimerStep
  BY <1>0, <1>1, <1>2, <1>9, TimerStepKeeps, TimerStepWritten, TimerStepFlags DEF BaseInv
<1>10. CASE SceneRequest
  BY <1>4, <1>10 DEF SceneRequest
<1>11. CASE UNCHANGED schedules
  BY <1>4, <1>11 DEF schedules
<1> QED
  BY <1>3, <1>5, <1>6, <1>7, <1>8, <1>9, <1>10, <1>11 DEF Next, Trigger, vars

LEMMA BaseSafe == Spec => []BaseInv
BY BaseInvInit, BaseInvStep, PTL DEF Spec

-----------------------------------------------------------------------------
(* Types of the scenes *)

SceneRecords == [id : SceneIds, ver : Versions]

SceneList(s) == s \in Seq(SceneRecords) /\ Len(s) <= MaxScenes

SceneLists ==
  /\ SceneList(scenes) /\ SceneList(scenesNvs)
  /\ \A t \in SceneTasks :
       /\ handler[t].rest \in Seq(Objects)
       /\ handler[t].pc = "store" => SceneList(handler[t].data)

\* A sequence without its p-th element.
LEMMA Removing ==
  ASSUME NEW S, NEW s \in Seq(S), NEW p \in 1..Len(s)
  PROVE  ListOps!RemoveAt(s, p) \in Seq(S) /\ Len(ListOps!RemoveAt(s, p)) = Len(s) - 1
<1> DEFINE front == SubSeq(s, 1, p - 1)
           back  == SubSeq(s, p + 1, Len(s))
<1>1. Len(s) \in Nat /\ \A k \in 1..Len(s) : s[k] \in S
  BY LenProperties, ElementOfSeq
<1>2. front \in Seq(S) /\ Len(front) = p - 1
  <2>1. \A k \in 1..(p - 1) : s[k] \in S
    BY <1>1
  <2> QED
    BY <1>1, <2>1, SubSeqProperties
<1>3. back \in Seq(S) /\ Len(back) = Len(s) - p
  <2>1. \A k \in (p + 1)..Len(s) : s[k] \in S
    BY <1>1
  <2> QED
    BY <1>1, <2>1, SubSeqProperties
<1>4. ListOps!RemoveAt(s, p) = front \o back
  BY DEF ListOps!RemoveAt
<1> HIDE DEF front, back
<1>5. front \o back \in Seq(S) /\ Len(front \o back) = Len(front) + Len(back)
  BY <1>2, <1>3, ConcatProperties
<1> QED
  BY <1>1, <1>2, <1>3, <1>4, <1>5

\* What a step does to the scenes and to what is left of a request.
LEMMA AddSceneType ==
  ASSUME SceneList(scenes), NEW id \in SceneIds, AddScene(id) PROVE SceneList(scenes')
<1>1. Len(scenes) \in Nat
  BY LenProperties DEF SceneList
<1>2. CASE Len(scenes) < MaxScenes
  <2>1. [id |-> id, ver |-> 0] \in SceneRecords
    BY DEF SceneRecords, Versions
  <2>2. scenes' = Append(scenes, [id |-> id, ver |-> 0])
    BY <1>2 DEF AddScene
  <2>3. scenes' \in Seq(SceneRecords) /\ Len(scenes') = Len(scenes) + 1
    BY <2>1, <2>2, AppendProperties DEF SceneList
  <2> QED
    BY <1>1, <1>2, <2>3, ScenesAssumption DEF SceneList
<1>3. CASE ~(Len(scenes) < MaxScenes)
  BY <1>3 DEF AddScene, SceneList
<1> QED
  BY <1>2, <1>3

\* Looking up a scene that is there.
LEMMA SceneFound ==
  ASSUME SceneList(scenes), NEW id, KnownScene(id)
  PROVE  SceneWithId(id) \in 1..Len(scenes) /\ scenes[SceneWithId(id)] \in SceneRecords
<1>1. DOMAIN scenes = 1..Len(scenes) /\ \A k \in DOMAIN scenes : scenes[k] \in SceneRecords
  BY LenProperties, ElementOfSeq DEF SceneList
<1>2. SceneWithId(id) \in DOMAIN scenes
  BY DEF KnownScene, SceneWithId
<1> QED
  BY <1>1, <1>2

LEMMA EditSceneType ==
  ASSUME SceneList(scenes), NEW id, KnownScene(id), EditScene(id) PROVE SceneList(scenes')
<1> DEFINE p == SceneWithId(id)
           r == [scenes[p] EXCEPT !.ver = 1 - @]
<1>1. p \in 1..Len(scenes) /\ scenes[p] \in SceneRecords
  BY SceneFound
<1> HIDE DEF p
<1>2. r \in SceneRecords
  BY <1>1 DEF SceneRecords, Versions
<1>3. scenes' = [scenes EXCEPT ![p] = r]
  BY DEF EditScene, p
<1> HIDE DEF r
<1>4. scenes' \in Seq(SceneRecords) /\ Len(scenes') = Len(scenes)
  BY <1>1, <1>2, <1>3, ExceptSeq DEF SceneList
<1> QED
  BY <1>4 DEF SceneList

LEMMA RemoveSceneType ==
  ASSUME SceneList(scenes), NEW id, KnownScene(id), RemoveScene(id) PROVE SceneList(scenes')
<1>1. SceneWithId(id) \in 1..Len(scenes) /\ Len(scenes) \in Nat
  BY SceneFound, LenProperties DEF SceneList
<1>2. scenes' \in Seq(SceneRecords) /\ Len(scenes') = Len(scenes) - 1
  BY <1>1, Removing DEF SceneList, RemoveScene
<1> QED
  BY <1>1, <1>2, ScenesAssumption DEF SceneList

\* The next object of a request.
LEMMA ObjectType ==
  ASSUME SceneLists, NEW t \in SceneTasks, HasObject(t)
  PROVE  Object(t) \in Objects /\ Object(t).id \in SceneIds /\ Tail(handler[t].rest) \in Seq(Objects)
<1>1. Head(handler[t].rest) \in Objects /\ Tail(handler[t].rest) \in Seq(Objects)
  BY HeadTailProperties DEF SceneLists, HasObject
<1> QED
  BY <1>1 DEF Object, Objects

LEMMA SceneStepLists ==
  ASSUME SceneTypes, SceneLists, NEW t \in SceneTasks, SceneStep(t)
  PROVE  SceneLists'
<1>0. /\ SceneList(scenes) /\ SceneList(scenesNvs)
      /\ \A u \in SceneTasks : /\ handler[u].rest \in Seq(Objects)
                               /\ handler[u].pc = "store" => SceneList(handler[u].data)
  BY DEF SceneLists
<1>1. ASSUME NEW op, HasObject(t), Handled(t, op), SceneList(scenes'), scenesNvs' = scenesNvs
      PROVE  SceneLists'
  <2>1. /\ \A u \in SceneTasks \ {t} : handler'[u] = handler[u]
        /\ handler'[t].pc = handler[t].pc /\ handler'[t].rest = Tail(handler[t].rest)
    BY <1>1, HandledFacts
  <2>2. Tail(handler[t].rest) \in Seq(Objects) /\ handler[t].pc = "next"
    BY <1>1, ObjectType DEF HasObject
  <2> QED
    BY <1>0, <1>1, <2>1, <2>2 DEF SceneLists, SceneList
<1>2. CASE ObjectAdd(t) \/ ObjectEdit(t) \/ ObjectRemove(t) \/ ObjectActivate(t)
  <2>1. HasObject(t) /\ scenesNvs' = scenesNvs /\ \E op : Handled(t, op)
    BY <1>2 DEF ObjectAdd, ObjectEdit, ObjectRemove, ObjectActivate
  <2>2. SceneList(scenes')
    BY <1>0, <1>2, <2>1, ObjectType, AddSceneType, EditSceneType, RemoveSceneType
    DEF ObjectAdd, ObjectEdit, ObjectRemove, ObjectActivate
  <2> QED
    BY <1>1, <2>1, <2>2
<1>3. CASE ObjectSkip(t)
  <2>1. /\ \A u \in SceneTasks \ {t} : handler'[u] = handler[u]
        /\ handler'[t].pc = handler[t].pc /\ handler'[t].rest = Tail(handler[t].rest)
    BY <1>3 DEF ObjectSkip, SceneTypes, HandlerFields, Handlers
  <2>2. Tail(handler[t].rest) \in Seq(Objects) /\ handler[t].pc = "next"
    BY <1>3, ObjectType DEF ObjectSkip, HasObject
  <2> QED
    BY <1>0, <1>3, <2>1, <2>2 DEF ObjectSkip, SceneLists, SceneList
<1>4. CASE EndScenes(t) \/ StoreScenes(t)
  <2>1. \A u \in SceneTasks \ {t} : handler'[u] = handler[u]
    BY <1>4 DEF EndScenes, StoreScenes, SceneTypes
  <2>2. /\ handler'[t].rest \in {<<>>, handler[t].rest}
        /\ handler'[t].pc = "store" => handler'[t].data = scenes
    BY <1>4 DEF EndScenes, StoreScenes, SceneTypes, HandlerFields, Handlers, NoRequest
  <2>3. scenes' = scenes /\ SceneList(scenesNvs')
    BY <1>0, <1>4 DEF EndScenes, StoreScenes
  <2>4. <<>> \in Seq(Objects)
    BY EmptySeq
  <2> QED
    BY <1>0, <2>1, <2>2, <2>3, <2>4 DEF SceneLists, SceneList
<1> QED
  BY <1>2, <1>3, <1>4 DEF SceneStep

LEMMA BeginLists ==
  ASSUME SceneTypes, SceneLists, NEW t \in SceneTasks, NEW batch \in Seq(Objects),
         BeginScenes(t, batch)
  PROVE  SceneLists'
<1>1. /\ \A u \in SceneTasks \ {t} : handler'[u] = handler[u]
      /\ handler'[t].pc = "next" /\ handler'[t].rest = batch
  BY DEF BeginScenes, SceneTypes, NoRequest
<1> QED
  BY <1>1 DEF BeginScenes, SceneLists, SceneList

LEMMA IdleLists ==
  ASSUME SceneList(scenes), SceneList(scenesNvs), \A t \in SceneTasks : handler[t] = NoRequest
  PROVE  SceneLists
<1>1. <<>> \in Seq(Objects)
  BY EmptySeq
<1>2. NoRequest.rest = <<>> /\ NoRequest.pc = "idle"
  BY DEF NoRequest
<1> QED
  BY <1>1, <1>2 DEF SceneLists

LEMMA SceneListsInit == Init => SceneLists
<1> SUFFICES ASSUME Init PROVE SceneLists
  OBVIOUS
<1>1. SceneList(<<>>)
  <2>1. <<>> \in Seq(SceneRecords) /\ Len(<<>>) = 0
    BY EmptySeq
  <2> QED
    BY <2>1, ScenesAssumption DEF SceneList
<1> QED
  BY <1>1, IdleLists DEF Init, ScenesInit

LEMMA SceneListsStep == ScenesInv /\ SceneLists /\ [Next]_vars => SceneLists'
<1> SUFFICES ASSUME SceneTypes, SceneLists, [Next]_vars PROVE SceneLists'
  BY DEF ScenesInv
<1>1. ASSUME UNCHANGED sceneVars PROVE SceneLists'
  BY <1>1 DEF sceneVars, SceneLists, SceneList
<1>2. CASE SceneRequest
  <2>1. PICK batch \in Batches : BeginScenes("cloud", batch)
    BY <1>2 DEF SceneRequest
  <2>2. batch \in Seq(Objects)
    <3>1. PICK n \in 1..MaxBatch : batch \in [1..n -> Objects]
      BY <2>1 DEF Batches
    <3> QED
      BY <3>1, ScenesAssumption, SeqDef
  <2> QED
    BY <2>1, <2>2, BeginLists DEF SceneTasks
<1>3. CASE Trigger
  <2>1. [op |-> "activate", id |-> ActionScene] \in Objects
    BY ActionAssumption DEF Objects, SceneOps
  <2>2. <<[op |-> "activate", id |-> ActionScene]>> \in Seq(Objects)
    BY <2>1, Singleton
  <2> QED
    BY <1>1, <1>3, <2>2, BeginLists DEF Trigger, SceneTasks
<1>4. CASE Reboot
  <2>1. /\ \A t \in SceneTasks : handler'[t] = NoRequest
        /\ scenesNvs' = scenesNvs /\ scenes' = scenesNvs
    BY <1>4 DEF Reboot, RestoreScenes
  <2>2. <<>> \in Seq(Objects)
    BY EmptySeq
  <2>3. NoRequest.rest = <<>> /\ NoRequest.pc = "idle"
    BY DEF NoRequest
  <2> QED
    BY <2>1, <2>2, <2>3 DEF SceneLists, SceneList
<1>5. CASE ScheduleRequest \/ TriggerActed
  BY <1>1, <1>5 DEF ScheduleRequest, TriggerActed
<1>6. CASE (\E t \in SceneTasks : SceneStep(t)) /\ UNCHANGED schedules
  BY <1>6, SceneStepLists
<1>7. CASE UNCHANGED vars
  BY <1>1, <1>7 DEF vars
<1> QED
  BY <1>1, <1>2, <1>3, <1>4, <1>5, <1>6, <1>7 DEF Next

\* Whatever the number of schedules, scenes, requests and reboots, every variable
\* keeps its type, neither list outgrows its limit and the work queue never holds
\* more jobs than it has places.  (esp_rmaker_schedule.c and esp_rmaker_scenes.c:
\* the limits in perform_operation; esp_rmaker_work_queue_add_task.)
THEOREM AutomationTypes == Spec => []TypeOK
<1>1. BaseInv => SchedulesTypeOK
  <2> SUFFICES ASSUME BaseInv PROVE SchedulesTypeOK
    OBVIOUS
  <2>1. Types /\ Written /\ Flags
    BY DEF BaseInv, SchedulesInv
  <2>2. /\ Len(list) <= MaxSchedules /\ DOMAIN at = Tasks
        /\ \A t \in Tasks : at[t].data \in Seq(Entries)
    BY <2>1 DEF Types, Written, WellFormed, Positions
  <2> QED
    BY <2>1, <2>2 DEF Types, Flags, SchedulesTypeOK, Records, Jobs
<1>2. ScenesInv /\ SceneLists => ScenesTypeOK
  <2> SUFFICES ASSUME ScenesInv, SceneLists PROVE ScenesTypeOK
    OBVIOUS
  <2>1. \A t \in SceneTasks :
          /\ handler[t].pc \in {"idle", "next", "store"} /\ handler[t].report \in BOOLEAN
          /\ handler[t].changed \in BOOLEAN /\ handler[t].undone \in BOOLEAN
    BY HandlerBooleans DEF ScenesInv, SceneTypes, HandlerFields, Handlers
  <2> QED
    BY <2>1 DEF ScenesInv, SceneTypes, SceneLists, SceneList, SceneRecords, ScenesTypeOK
<1>3. BaseInv /\ ScenesInv /\ SceneLists => TypeOK
  BY <1>1, <1>2 DEF TypeOK
<1> QED
  BY <1>3, BaseInvInit, BaseInvStep, ScenesInvInit, ScenesInvStep, SceneListsInit, SceneListsStep,
     PTL DEF Spec

-----------------------------------------------------------------------------
(* While requests and jobs do not overlap: what is stored, and what is armed *)

\* The task has changed the list, or is about to, and has yet to store it.
Unreported(t) ==
  \/ at[t].pc \in {"build", "disable", "store"}
  \/ at[t].pc \in {"enable", "check", "arm"} /\ at[t].after = "report"

\* NVS has the list, but for what could not be reported at boot.
Recorded ==
  /\ Len(nvs) = Len(list)
  /\ \A k \in DOMAIN list : /\ nvs[k].id = list[k].id /\ nvs[k].kind = list[k].kind
                            /\ nvs[k].on = list[k].on \/ list[k].id \in stale

\* The report has the list.
Matches(d) ==
  /\ Len(d) = Len(list)
  /\ \A k \in DOMAIN list : /\ d[k].id = list[k].id /\ d[k].kind = list[k].kind
                            /\ d[k].on = list[k].on

\* A schedule that has a timer is enabled, and knows its time if it runs once.
Timed ==
  \A k \in DOMAIN list :
    list[k].armed => list[k].on /\ (list[k].kind = "once" => list[k].ts = "future")

\* What a task enables has been enabled, or was asked for just now.
Enables(t) ==
  \A k \in DOMAIN list : list[k].idx = at[t].idx =>
    /\ at[t].pc = "enable" => list[k].on \/ (at[t].after = "report" /\ fired[list[k].id] = 0)
    /\ at[t].pc \in {"check", "arm"} => list[k].on

\* What holds while no other task is at work.
QuietFor(t) ==
  /\ Unreported(t) \/ Recorded
  /\ at[t].pc = "store" => Matches(at[t].data)
  /\ Timed
  /\ Enables(t)

OnlyTask(t) == \A u \in Tasks \ {t} : at[u].pc = "idle"

QuietInv == ~overlap => \E t \in Tasks : OnlyTask(t) /\ QuietFor(t)

\* A task at work is the only one.
LEMMA Only ==
  ASSUME QuietInv, ~overlap, NEW t \in Tasks, at[t].pc # "idle"
  PROVE  OnlyTask(t) /\ QuietFor(t)
<1>1. PICK u \in Tasks : OnlyTask(u) /\ QuietFor(u)
  BY DEF QuietInv
<1>2. u = t
  BY <1>1 DEF OnlyTask
<1> QED
  BY <1>1, <1>2

\* A task that begins when the other is at rest finds everything stored.
LEMMA Begins ==
  ASSUME QuietInv, NEW t \in Tasks, at[t].pc = "idle", Overlaps(t), ~overlap'
  PROVE  ~overlap /\ OnlyTask(t) /\ Recorded /\ Timed
<1>1. ~overlap /\ OnlyTask(t)
  BY DEF Overlaps, Busy, OnlyTask
<1>2. PICK u \in Tasks : OnlyTask(u) /\ QuietFor(u)
  BY <1>1 DEF QuietInv
<1>3. ~Unreported(u)
  BY <1>1 DEF OnlyTask, Unreported
<1> QED
  BY <1>1, <1>2, <1>3 DEF QuietFor

\* The step of the only task.
LEMMA OnlyMoves ==
  ASSUME NEW t \in Tasks, OnlyTask(t), NEW pc, NEW i, NEW after, NEW data,
         MovesTo(t, pc, i, after, data), QuietFor(t)'
  PROVE  QuietInv'
BY DEF OnlyTask, MovesTo, QuietInv

\* Where the only task has stored everything and enables nothing.
LEMMA Settled ==
  ASSUME NEW t \in Tasks, OnlyTask(t), NEW pc, NEW i, NEW after, NEW data,
         MovesTo(t, pc, i, after, data), pc \notin {"enable", "check", "arm", "store"},
         Timed', pc \in {"build", "disable"} \/ Recorded'
  PROVE  QuietInv'
<1>1. QuietFor(t)'
  BY DEF MovesTo, QuietFor, Unreported, Enables
<1> QED
  BY <1>1, OnlyMoves

LEMMA ReturnSettled ==
  ASSUME NEW t \in Tasks, OnlyTask(t), Returns(t), Timed', at[t].after = "report" \/ Recorded'
  PROVE  QuietInv'
<1>1. CASE at[t].after = "report" /\ MovesTo(t, "build", NoIndex, "idle", <<>>)
  BY <1>1, Settled
<1>2. CASE at[t].after # "report" /\ MovesTo(t, "next", at[t].idx, "idle", <<>>)
  BY <1>2, Settled
<1>3. CASE at[t].after # "report" /\ MovesTo(t, "idle", NoIndex, "idle", <<>>)
  BY <1>3, Settled
<1> QED
  BY <1>1, <1>2, <1>3 DEF Returns, Rests

\* A report that leaves the list alone.
LEMMA SameRecorded == ASSUME UNCHANGED <<list, nvs, stale>>, Recorded PROVE Recorded'
BY DEF Recorded

LEMMA SameTimed == ASSUME list' = list, Timed PROVE Timed'
BY DEF Timed

LEMMA SnapshotMatches == ASSUME list \in Seq(Records) PROVE Matches(Snapshot)
<1>1. DOMAIN Snapshot = DOMAIN list
  BY DEF Snapshot
<1>2. Len(Snapshot) = Len(list)
  <2>1. DOMAIN Snapshot = 1..Len(Snapshot) /\ Len(Snapshot) \in Nat
    BY Snap, LenProperties
  <2> QED
    BY <1>1, <2>1, Elements
<1> QED
  BY <1>2 DEF Matches, Snapshot

\* Disabling keeps what is said of timers, and so does arming what is enabled.
LEMMA DisabledTimed ==
  ASSUME Timed, NEW p, NEW r, Revises(p, Disabled(r)), r \in Records PROVE Timed'
<1>1. Disabled(r).armed = FALSE
  BY DEF Disabled, Records
<1> QED
  BY <1>1 DEF Timed, Revises

LEMMA TaskStepQuiet ==
  ASSUME BaseInv, BaseInv', QuietInv, NEW t \in Tasks, TaskStep(t)
  PROVE  QuietInv'
<1> SUFFICES ASSUME ~overlap' PROVE QuietInv'
  BY DEF QuietInv
<1>0. /\ Types /\ ~overlap /\ dangling' # TRUE
      /\ \A j, k \in DOMAIN list : list[j].idx = list[k].idx => j = k
      /\ list \in Seq(Records) /\ \A k \in DOMAIN list : list[k] \in Records
  <2>1. Types /\ dangling' # TRUE /\ \A j, k \in DOMAIN list : list[j].idx = list[k].idx => j = k
    BY DEF BaseInv, SchedulesInv, OverlapInv, TriggerInv, Indices
  <2>2. ~overlap
    BY DEF TaskStep, SetEnabled, CheckSync, Arm, Build, Store, history
  <2> QED
    BY <2>1, <2>2, Elements DEF Types
<1>1. OnlyTask(t) /\ QuietFor(t)
  BY <1>0, Only DEF TaskStep, SetEnabled, CheckSync, Arm, Build, Store
<1>2. CASE SetEnabled(t)
  <2>1. at[t].pc = "enable" /\ GoesOn(t, "check") /\ nvs' = nvs /\ stale' = stale
    BY <1>0, <1>2, SetEnabledDoes DEF SetEnabled
  <2>2. PICK p \in DOMAIN list : Mine(t, p) /\ Revises(p, [list[p] EXCEPT !.on = TRUE])
    BY <1>0, <1>2, SetEnabledDoes
  <2> DEFINE r == [list[p] EXCEPT !.on = TRUE]
  <2>3. /\ r.id = list[p].id /\ r.idx = list[p].idx /\ r.kind = list[p].kind /\ r.on = TRUE
        /\ r.armed = list[p].armed /\ r.ts = list[p].ts /\ list[p].on \in BOOLEAN
    BY <1>0 DEF Records
  <2>4. Revises(p, r)
    BY <2>2
  <2> HIDE DEF r
  <2>5. Timed'
    BY <1>1, <2>3, <2>4 DEF QuietFor, Timed, Revises
  <2>6. Unreported(t)' \/ Recorded'
    <3>1. CASE at[t].after = "report"
      BY <2>1, <3>1 DEF GoesOn, MovesTo, Unreported
    <3>2. CASE at[t].after # "report"
      <4>1. Recorded /\ list[p].on = TRUE
        BY <1>1, <2>1, <2>2, <2>3, <3>2 DEF QuietFor, Unreported, Enables, Mine
      <4> QED
        BY <2>1, <2>3, <2>4, <4>1 DEF Recorded, Revises
    <3> QED
      BY <3>1, <3>2
  <2>7. Enables(t)'
    BY <1>0, <2>1, <2>2, <2>3, <2>4 DEF Enables, GoesOn, MovesTo, Mine, Revises
  <2>8. QuietFor(t)'
    BY <2>1, <2>5, <2>6, <2>7 DEF QuietFor, GoesOn, MovesTo
  <2> QED
    BY <1>1, <2>1, <2>8, OnlyMoves DEF GoesOn
<1>3. CASE CheckSync(t)
  <2>1. at[t].pc = "check" /\ UNCHANGED <<list, nvs, stale>> /\ (Returns(t) \/ GoesOn(t, "arm"))
    BY <1>0, <1>3, CheckSyncDoes DEF CheckSync, history
  <2>2. Timed' /\ (at[t].after = "report" \/ Recorded')
    BY <1>1, <2>1, SameTimed, SameRecorded DEF QuietFor, Unreported
  <2>3. CASE Returns(t)
    BY <1>1, <2>2, <2>3, ReturnSettled
  <2>4. CASE GoesOn(t, "arm")
    <3>1. QuietFor(t)'
      BY <1>1, <2>1, <2>2, <2>4 DEF QuietFor, GoesOn, MovesTo, Unreported, Enables
    <3> QED
      BY <1>1, <2>4, <3>1, OnlyMoves DEF GoesOn
  <2> QED
    BY <2>1, <2>3, <2>4
<1>4. CASE Arm(t)
  <2>1. at[t].pc = "arm" /\ nvs' = nvs /\ stale' = stale
    BY <1>0, <1>4, ArmDoes DEF Arm
  <2>2. PICK p \in DOMAIN list :
          /\ Mine(t, p)
          /\ \/ Revises(p, Disabled(list[p])) /\ GoesOn(t, "build")
             \/ Revises(p, Armed(list[p])) /\ Returns(t)
    BY <1>0, <1>4, ArmDoes
  <2>3. CASE Revises(p, Disabled(list[p])) /\ GoesOn(t, "build")
    <3>1. Timed'
      BY <1>0, <1>1, <2>3, DisabledTimed DEF QuietFor
    <3> QED
      BY <1>1, <2>3, <3>1, Settled DEF GoesOn
  <2>4. CASE Revises(p, Armed(list[p])) /\ Returns(t)
    <3> DEFINE r == Armed(list[p])
    <3>1. /\ r.id = list[p].id /\ r.kind = list[p].kind /\ r.on = list[p].on
          /\ r.kind = "once" => r.ts = "future"
      BY <1>0 DEF Armed, Records
    <3>2. Revises(p, r) /\ list[p].on
      BY <1>1, <2>1, <2>2, <2>4 DEF QuietFor, Enables, Mine
    <3> HIDE DEF r
    <3>3. Timed'
      BY <1>1, <3>1, <3>2 DEF QuietFor, Timed, Revises
    <3>4. at[t].after = "report" \/ Recorded'
      BY <1>1, <2>1, <3>1, <3>2 DEF QuietFor, Unreported, Recorded, Revises
    <3> QED
      BY <1>1, <2>4, <3>3, <3>4, ReturnSettled
  <2> QED
    BY <2>2, <2>3, <2>4
<1>5. CASE Build(t)
  <2>1. /\ at[t].pc = "build" /\ MovesTo(t, "store", at[t].idx, at[t].after, Snapshot)
        /\ list' = list /\ Matches(Snapshot)
    BY <1>0, <1>5, BuildDoes, SnapshotMatches DEF Build, memory
  <2>2. (at[t].pc = "store" => Matches(at[t].data))'
    BY <2>1 DEF MovesTo, Matches
  <2>3. QuietFor(t)'
    BY <1>1, <2>1, <2>2, SameTimed DEF QuietFor, MovesTo, Unreported, Enables
  <2> QED
    BY <1>1, <2>1, <2>3, OnlyMoves
<1>6. CASE Store(t)
  <2>1. Returns(t) /\ list' = list /\ nvs' = at[t].data /\ Matches(at[t].data)
    BY <1>0, <1>1, <1>6, StoreDoes DEF Store, memory, QuietFor
  <2>2. Timed' /\ Recorded'
    BY <1>1, <2>1, SameTimed DEF QuietFor, Recorded, Matches
  <2> QED
    BY <1>1, <2>1, <2>2, ReturnSettled
<1> QED
  BY <1>2, <1>3, <1>4, <1>5, <1>6 DEF TaskStep

LEMMA WorkStepQuiet ==
  ASSUME BaseInv, BaseInv', QuietInv, WorkStep \/ AfterAction
  PROVE  QuietInv'
<1> SUFFICES ASSUME ~overlap' PROVE QuietInv'
  BY DEF QuietInv
<1>0. /\ Types /\ ~overlap /\ dangling' # TRUE /\ "work" \in Tasks
      /\ \A j, k \in DOMAIN list : list[j].idx = list[k].idx => j = k
      /\ list \in Seq(Records) /\ \A k \in DOMAIN list : list[k] \in Records
  <2>1. Types /\ dangling' # TRUE /\ \A j, k \in DOMAIN list : list[j].idx = list[k].idx => j = k
    BY DEF BaseInv, SchedulesInv, OverlapInv, TriggerInv, Indices
  <2>2. ~overlap /\ "work" \in Tasks
    BY DEF WorkStep, DisableExpired, VisitOne, VisitNext, AfterAction, Tasks
  <2> QED
    BY <2>1, <2>2, Elements DEF Types
<1>1. OnlyTask("work") /\ QuietFor("work")
  BY <1>0, Only DEF WorkStep, DisableExpired, VisitOne, VisitNext, AfterAction
<1>2. CASE DisableExpired
  <2>1. PICK p \in DOMAIN list : Revises(p, Disabled(list[p]))
    BY <1>0, <1>2, DisableExpiredDoes
  <2>2. Timed'
    BY <1>0, <1>1, <2>1, DisabledTimed DEF QuietFor
  <2> QED
    BY <1>0, <1>1, <1>2, <2>2, DisableExpiredDoes, Settled DEF GoesOn
<1>3. CASE VisitOne
  <2>1. PICK p \in DOMAIN list :
          /\ Mine("work", p)
          /\ \/ /\ list[p].on
                /\ MovesTo("work", "enable", at["work"].idx, "next", at["work"].data)
             \/ GoesOn("work", "next")
    BY <1>0, <1>3, VisitOneDoes
  <2>2. UNCHANGED <<list, nvs, stale>> /\ at["work"].pc = "visit"
    BY <1>3 DEF VisitOne, memory
  <2>3. Timed' /\ Recorded'
    BY <1>1, <2>2, SameTimed, SameRecorded DEF QuietFor, Unreported
  <2>4. CASE list[p].on /\ MovesTo("work", "enable", at["work"].idx, "next", at["work"].data)
    <3>1. Enables("work")'
      BY <1>0, <2>1, <2>2, <2>4 DEF MovesTo, Enables, Mine
    <3>2. QuietFor("work")'
      BY <2>3, <2>4, <3>1 DEF QuietFor, MovesTo
    <3> QED
      BY <1>0, <1>1, <2>4, <3>2, OnlyMoves
  <2>5. CASE GoesOn("work", "next")
    BY <1>0, <1>1, <2>3, <2>5, Settled DEF GoesOn
  <2> QED
    BY <2>1, <2>4, <2>5
<1>4. CASE VisitNext
  <2>1. \E i : Visits(i)
    BY <1>0, <1>4, VisitNextDoes
  <2>2. UNCHANGED <<list, nvs, stale>> /\ at["work"].pc = "next"
    BY <1>4 DEF VisitNext, memory
  <2>3. Timed' /\ Recorded'
    BY <1>1, <2>2, SameTimed, SameRecorded DEF QuietFor, Unreported
  <2> QED
    BY <1>0, <1>1, <2>1, <2>3, Settled DEF Visits, Rests
<1>5. CASE AfterAction
  <2>1. GoesOn("work", "disable") \/ Rests("work")
    BY <1>0, <1>5, AfterActionDoes
  <2>2. UNCHANGED <<list, nvs, stale>> /\ at["work"].pc = "act"
    BY <1>5 DEF AfterAction, memory
  <2>3. Timed' /\ Recorded'
    BY <1>1, <2>2, SameTimed, SameRecorded DEF QuietFor, Unreported
  <2> QED
    BY <1>0, <1>1, <2>1, <2>3, Settled DEF GoesOn, Rests
<1> QED
  BY <1>2, <1>3, <1>4, <1>5 DEF WorkStep

LEMMA TakeQuiet ==
  ASSUME BaseInv, QuietInv, TakeTrigger \/ TakeSync
  PROVE  QuietInv'
<1> SUFFICES ASSUME ~overlap' PROVE QuietInv'
  BY DEF QuietInv
<1>0. Types /\ "work" \in Tasks /\ UNCHANGED <<list, nvs, stale, fired>>
  BY DEF BaseInv, SchedulesInv, TakeTrigger, TakeSync, Tasks, memory
<1>1. CASE UNCHANGED <<at, overlap>>
  BY <1>0, <1>1 DEF QuietInv, OnlyTask, QuietFor, Unreported, Recorded, Matches, Timed, Enables
<1>2. CASE at["work"].pc = "idle" /\ Overlaps("work")
           /\ (Visits(First) \/ MovesTo("work", "act", Head(queue).idx, "idle", <<>>))
  <2>1. OnlyTask("work") /\ Recorded /\ Timed
    BY <1>0, <1>2, Begins
  <2>2. Recorded' /\ Timed'
    BY <1>0, <2>1, SameRecorded, SameTimed
  <2> QED
    BY <1>0, <1>2, <2>1, <2>2, Settled DEF Visits, Rests
<1> QED
  BY <1>0, <1>1, <1>2, TakeTriggerDoes, TakeSyncDoes

LEMMA FireQuiet ==
  ASSUME BaseInv, QuietInv, NEW p \in DOMAIN list, Fire(p)
  PROVE  QuietInv'
<1> SUFFICES ASSUME ~overlap' PROVE QuietInv'
  BY DEF QuietInv
<1>0. /\ Types /\ list[p] \in Records /\ ~overlap /\ stale' = stale
      /\ DOMAIN list = 1..Len(list) /\ Len(list) \in Nat /\ Flags
  BY Elements DEF BaseInv, SchedulesInv, Types, Fire
<1>1. PICK t \in Tasks : OnlyTask(t) /\ QuietFor(t)
  BY <1>0 DEF QuietInv
<1> DEFINE r == [list[p] EXCEPT !.ts = IF @ = "future" THEN "past" ELSE @,
                                !.armed = (list[p].kind = "dated" /\ ~over)]
<1>2. /\ r.id = list[p].id /\ r.idx = list[p].idx /\ r.kind = list[p].kind /\ r.on = list[p].on
      /\ r.armed => r.kind # "once"
  BY <1>0 DEF Records
<1>3. /\ Revises(p, r) /\ list[p].armed /\ nvs' = Aged(nvs, list[p].id)
      /\ \A u \in Tasks : /\ at'[u].pc = at[u].pc /\ at'[u].idx = at[u].idx
                          /\ at'[u].after = at[u].after
                          /\ at'[u].data = Aged(at[u].data, list[p].id)
  BY <1>0, FireDoes
<1> HIDE DEF r
<1>4. \A k \in DOMAIN list : /\ list'[k].id = list[k].id /\ list'[k].kind = list[k].kind
                             /\ list'[k].on = list[k].on /\ list'[k].idx = list[k].idx
                             /\ list'[k].armed => list[k].armed
                             /\ list'[k] = list[k] \/ (list'[k].kind = "once" => ~list'[k].armed)
  BY <1>2, <1>3 DEF Revises
<1>5. ASSUME NEW e \in Seq(Entries), NEW id
      PROVE  /\ Len(Aged(e, id)) = Len(e)
             /\ \A k \in DOMAIN e : /\ Aged(e, id)[k].id = e[k].id
                                    /\ Aged(e, id)[k].kind = e[k].kind
                                    /\ Aged(e, id)[k].on = e[k].on
  <2>1. DOMAIN e = 1..Len(e) /\ Len(e) \in Nat /\ \A k \in 1..Len(e) : e[k] \in Entries
    BY LenProperties, ElementOfSeq
  <2>2. DOMAIN Aged(e, id) = DOMAIN e
    BY DEF Aged
  <2>3. DOMAIN Aged(e, id) = 1..Len(Aged(e, id)) /\ Len(Aged(e, id)) \in Nat
    BY AgedType, LenProperties
  <2>4. Len(Aged(e, id)) = Len(e)
    BY <2>1, <2>2, <2>3
  <2> QED
    BY <2>1, <2>4 DEF Aged, Entries
<1>6. Unreported(t)' \/ Recorded'
  <2>1. CASE Unreported(t)
    BY <1>3, <2>1 DEF Unreported
  <2>2. CASE Recorded
    <3>1. /\ Len(nvs') = Len(nvs) /\ DOMAIN nvs = 1..Len(nvs)
          /\ \A k \in DOMAIN nvs : nvs'[k].id = nvs[k].id /\ nvs'[k].kind = nvs[k].kind
                                   /\ nvs'[k].on = nvs[k].on
      BY <1>0, <1>3, <1>5, LenProperties DEF Types
    <3>2. DOMAIN list' = DOMAIN list /\ Len(list') = Len(list) /\ DOMAIN list = DOMAIN nvs
      BY <1>0, <1>3, <2>2, <3>1 DEF Revises, Recorded
    <3> QED
      BY <1>0, <1>4, <2>2, <3>1, <3>2 DEF Recorded
  <2> QED
    BY <1>1, <2>1, <2>2 DEF QuietFor
<1>7. (at[t].pc = "store" => Matches(at[t].data))'
  <2> SUFFICES ASSUME at[t].pc = "store" PROVE Matches(at[t].data)'
    BY <1>3
  <2> DEFINE d == at[t].data
  <2>1. d \in Seq(Entries) /\ Matches(d)
    BY <1>0, <1>1 DEF Types, Positions, QuietFor
  <2>2. /\ Len(at'[t].data) = Len(d) /\ DOMAIN d = 1..Len(d)
        /\ \A k \in DOMAIN d : at'[t].data[k].id = d[k].id /\ at'[t].data[k].kind = d[k].kind
                               /\ at'[t].data[k].on = d[k].on
    BY <1>3, <1>5, <2>1, LenProperties
  <2> HIDE DEF d
  <2>3. DOMAIN list' = DOMAIN list /\ Len(list') = Len(list) /\ DOMAIN list = DOMAIN d
    BY <1>0, <1>3, <2>1, <2>2 DEF Revises, Matches
  <2> QED
    BY <1>4, <2>1, <2>2, <2>3 DEF Matches
<1>8. Timed'
  BY <1>1, <1>3, <1>4 DEF QuietFor, Timed, Revises
<1>9. Enables(t)'
  <2>1. list[p].on
    BY <1>1, <1>3 DEF QuietFor, Timed
  <2>2. \A id \in Ids : id # list[p].id => fired'[id] = fired[id]
    BY <1>0 DEF Fire, Flags
  <2>3. \A k \in DOMAIN list : list[k].id \in Ids /\ (list[k].id = list[p].id => k = p)
    BY <1>0, Elements DEF Types, Records, BaseInv, Written, WellFormed
  <2> QED
    BY <1>1, <1>3, <1>4, <2>1, <2>2, <2>3 DEF QuietFor, Enables, Revises
<1>10. OnlyTask(t)'
  BY <1>1, <1>3 DEF OnlyTask
<1> QED
  BY <1>6, <1>7, <1>8, <1>9, <1>10 DEF QuietInv, QuietFor

LEMMA TimerStepQuiet == ASSUME BaseInv, QuietInv, TimerStep PROVE QuietInv'
<1>1. CASE ClockSet \/ CalendarPasses \/ SyncTimer
  <2>1. UNCHANGED <<list, nvs, stale, fired, at, overlap>>
    BY <1>1 DEF ClockSet, CalendarPasses, SyncTimer, memory, history
  <2> QED
    BY <2>1 DEF QuietInv, OnlyTask, QuietFor, Unreported, Recorded, Matches, Timed, Enables
<1> QED
  BY <1>1, FireQuiet DEF TimerStep

LEMMA RequestQuiet == ASSUME BaseInv, QuietInv, Request PROVE QuietInv'
<1> SUFFICES ASSUME ~overlap' PROVE QuietInv'
  BY DEF QuietInv
<1>0. /\ Types /\ "cloud" \in Tasks /\ list \in Seq(Records)
      /\ \A k \in DOMAIN list : list[k] \in Records /\ list[k].id \in Ids /\ list[k].idx < index
      /\ \A j, k \in DOMAIN list : list[j].idx = list[k].idx => j = k
      /\ fired \in [Ids -> 0..2] /\ index \in Nat
  BY Elements DEF BaseInv, SchedulesInv, TriggerInv, Indices, Types, Tasks, Flags, Records
<1>1. at["cloud"].pc = "idle" /\ Overlaps("cloud")
  BY <1>0, AddDoes, EditDoes, RemoveDoes, EnableDoes, DisableDoes, RejectDoes DEF Request
<1>2. ~overlap /\ OnlyTask("cloud") /\ Recorded /\ Timed
  BY <1>0, <1>1, Begins
<1>3. ASSUME ToReport, Timed' PROVE QuietInv'
  BY <1>0, <1>2, <1>3, Settled DEF ToReport
<1>4. ASSUME NEW i, ToEnable(i), Timed',
             \A k \in DOMAIN list' : list'[k].idx = i => fired'[list'[k].id] = 0
      PROVE  QuietInv'
  <2>1. QuietFor("cloud")'
    BY <1>4 DEF ToEnable, MovesTo, QuietFor, Unreported, Enables
  <2> QED
    BY <1>0, <1>2, <1>4, <2>1, OnlyMoves DEF ToEnable
<1>5. ASSUME NEW id \in Ids, NEW kind \in Kinds, Add(id, kind) PROVE QuietInv'
  <2>1. CASE list' = list /\ ToReport
    BY <1>2, <1>3, <2>1, SameTimed
  <2>2. CASE Grows(New(id, kind)) /\ ToEnable(index) /\ Wanted(id)
    <3>1. New(id, kind).armed = FALSE /\ New(id, kind).id = id /\ fired'[id] = 0 /\ Len(list) \in Nat
      BY <1>0, <2>2, Elements DEF New, Wanted
    <3>2. Timed'
      BY <1>2, <2>2, <3>1 DEF Grows, Timed
    <3>3. \A k \in DOMAIN list' : list'[k].idx = index => fired'[list'[k].id] = 0
      BY <1>0, <2>2, <3>1 DEF Grows
    <3> QED
      BY <1>4, <2>2, <3>2, <3>3
  <2> QED
    BY <1>0, <1>5, <2>1, <2>2, AddDoes
<1>6. ASSUME NEW id, NEW kind \in Kinds, Edit(id, kind) PROVE QuietInv'
  <2>1. PICK p \in DOMAIN list :
          /\ list[p].id = id
          /\ \/ /\ list[p].on /\ Revises(p, Disabled([list[p] EXCEPT !.kind = kind]))
                /\ ToEnable(list[p].idx) /\ Wanted(id)
             \/ /\ ~list[p].on /\ Revises(p, [list[p] EXCEPT !.kind = kind, !.ts = "none"])
                /\ ToReport /\ Unasked
    BY <1>0, <1>6, EditDoes
  <2>2. CASE /\ Revises(p, Disabled([list[p] EXCEPT !.kind = kind]))
             /\ ToEnable(list[p].idx) /\ Wanted(id)
    <3>1. [list[p] EXCEPT !.kind = kind] \in Records
      BY <1>0 DEF Records
    <3>2. Timed'
      BY <1>2, <2>2, <3>1, DisabledTimed
    <3>3. fired'[id] = 0
      BY <1>0, <2>1, <2>2 DEF Wanted
    <3>4. \A k \in DOMAIN list : list'[k].idx = list[k].idx /\ list'[k].id = list[k].id
      BY <2>2 DEF Revises
    <3>5. \A k \in DOMAIN list' : list'[k].idx = list[p].idx => fired'[list'[k].id] = 0
      BY <1>0, <2>1, <2>2, <3>3, <3>4 DEF Revises
    <3> QED
      BY <1>4, <2>2, <3>2, <3>5
  <2>3. CASE /\ ~list[p].on /\ Revises(p, [list[p] EXCEPT !.kind = kind, !.ts = "none"])
             /\ ToReport
    <3> DEFINE n == [list[p] EXCEPT !.kind = kind, !.ts = "none"]
    <3>1. n.armed = list[p].armed /\ Revises(p, n)
      BY <1>0, <2>3 DEF Records
    <3> HIDE DEF n
    <3>2. Timed'
      BY <1>2, <2>3, <3>1 DEF Timed, Revises
    <3> QED
      BY <1>3, <2>3, <3>2
  <2> QED
    BY <2>1, <2>2, <2>3
<1>7. ASSUME NEW id \in Ids, Remove(id) PROVE QuietInv'
  <2>1. PICK p \in Nat : Shrinks(p)
    BY <1>0, <1>7, RemoveDoes
  <2>2. Timed'
    BY <1>2, <2>1 DEF Shrinks, Timed
  <2> QED
    BY <1>0, <1>3, <1>7, <2>2, RemoveDoes
<1>8. ASSUME NEW id, Enable(id) PROVE QuietInv'
  <2>1. PICK p \in DOMAIN list : list[p].id = id /\ ToEnable(list[p].idx) /\ Wanted(id)
    BY <1>0, <1>8, EnableDoes
  <2>2. list' = list /\ fired'[id] = 0
    BY <1>0, <1>8, <2>1 DEF Enable, memory, Wanted
  <2>3. \A k \in DOMAIN list' : list'[k].idx = list[p].idx => fired'[list'[k].id] = 0
    BY <1>0, <2>1, <2>2
  <2> QED
    BY <1>2, <1>4, <2>1, <2>2, <2>3, SameTimed
<1>9. ASSUME NEW id, Disable(id) PROVE QuietInv'
  <2>1. PICK p \in DOMAIN list : Revises(p, Disabled(list[p]))
    BY <1>0, <1>9, DisableDoes
  <2>2. Timed'
    BY <1>0, <1>2, <2>1, DisabledTimed
  <2> QED
    BY <1>0, <1>3, <1>9, <2>2, DisableDoes
<1>10. CASE Reject
  <2>1. list' = list
    BY <1>10 DEF Reject, memory
  <2> QED
    BY <1>0, <1>2, <1>3, <1>10, <2>1, RejectDoes, SameTimed
<1> QED
  BY <1>5, <1>6, <1>7, <1>8, <1>9, <1>10 DEF Request

\* What is read back of NVS: it is there, and a timer runs only for what is enabled.
LEMMA ReadTimed ==
  ASSUME NEW l, NEW e, NEW known, ListReads(l, e, known), NEW k \in DOMAIN l
  PROVE  /\ l[k].id = e[k].id /\ l[k].kind = e[k].kind
         /\ l[k].on = e[k].on \/ (e[k].on /\ known /\ Expired(e[k]))
         /\ l[k].armed => l[k].on /\ (l[k].kind = "once" => l[k].ts = "future")
<1>1. ReadAs(e[k], l[k], known)
  BY DEF ListReads
<1> QED
  BY <1>1, Zenon DEF ReadAs

LEMMA RestQuiet == ASSUME AllRest, Recorded, Timed PROVE \E t \in Tasks : OnlyTask(t) /\ QuietFor(t)
<1>1. "work" \in Tasks
  BY DEF Tasks
<1>2. OnlyTask("work") /\ QuietFor("work")
  BY <1>1 DEF AllRest, OnlyTask, QuietFor, Enables
<1> QED
  BY <1>1, <1>2

LEMMA InitQuiet == ASSUME Init PROVE QuietInv
<1>1. ListReads(list, nvs, clock) /\ AllRest
  BY InitDoes
<1>2. Recorded
  <2>1. \A k \in DOMAIN list : k = 1 /\ ~Expired(nvs[k])
    BY <1>1, InitDoes DEF ListReads, Expired
  <2>2. Len(nvs) = Len(list)
    BY <1>1 DEF ListReads
  <2> QED
    BY <1>1, <2>1, <2>2, ReadTimed DEF Recorded
<1>3. Timed
  BY <1>1, ReadTimed DEF Timed
<1> QED
  BY <1>1, <1>2, <1>3, RestQuiet DEF QuietInv

LEMMA BootQuiet == ASSUME BaseInv, Boot PROVE QuietInv'
<1>1. Passed(nvs, nvs') /\ ListReads(list', nvs', clock') /\ AllRest'
  BY BootDoes DEF BaseInv, SchedulesInv
<1>2. Recorded'
  <2>1. Len(nvs') = Len(list') /\ DOMAIN list' = DOMAIN nvs' /\ DOMAIN nvs' = DOMAIN nvs
    BY <1>1 DEF ListReads, Passed
  <2>2. ASSUME NEW k \in DOMAIN list' PROVE nvs'[k].on = list'[k].on \/ list'[k].id \in stale'
    <3>1. CASE nvs'[k].on /\ clock' /\ Expired(nvs'[k])
      <4>1. Dead(nvs'[k], clock') /\ k \in DOMAIN nvs
        BY <2>1, <3>1 DEF Dead
      <4>2. nvs'[k].id \in stale'
        BY <4>1 DEF Boot
      <4> QED
        BY <1>1, <4>2, ReadTimed
    <3> QED
      BY <1>1, <3>1, ReadTimed
  <2> QED
    BY <1>1, <2>1, <2>2, ReadTimed DEF Recorded
<1>3. Timed'
  BY <1>1, ReadTimed DEF Timed
<1>4. "work" \in Tasks /\ OnlyTask("work")' /\ QuietFor("work")'
  BY <1>1, <1>2, <1>3 DEF AllRest, OnlyTask, QuietFor, Enables, Tasks
<1> QED
  BY <1>4 DEF QuietInv

LEMMA QuietInvStep == BaseInv /\ BaseInv' /\ QuietInv /\ [Next]_vars => QuietInv'
<1> SUFFICES ASSUME BaseInv, BaseInv', QuietInv, [Next]_vars PROVE QuietInv'
  OBVIOUS
<1>1. ASSUME UNCHANGED <<list, nvs, at, stale, fired, overlap>> PROVE QuietInv'
  BY <1>1 DEF QuietInv, OnlyTask, QuietFor, Unreported, Recorded, Matches, Timed, Enables
<1>2. CASE ScheduleRequest
  BY <1>2, RequestQuiet DEF ScheduleRequest
<1>3. CASE TakeTrigger \/ TakeSync
  BY <1>3, TakeQuiet
<1>4. CASE TriggerActed
  BY <1>4, WorkStepQuiet DEF TriggerActed
<1>5. CASE Reboot
  BY <1>5, BootQuiet DEF Reboot
<1>6. CASE WorkStep \/ TimerStep \/ \E t \in Tasks : TaskStep(t)
  BY <1>6, WorkStepQuiet, TimerStepQuiet, TaskStepQuiet
<1>7. CASE SceneRequest
  BY <1>1, <1>7 DEF SceneRequest, memory, history
<1>8. CASE UNCHANGED schedules
  BY <1>1, <1>8 DEF schedules, memory, history
<1> QED
  BY <1>2, <1>3, <1>4, <1>5, <1>6, <1>7, <1>8 DEF Next, Trigger, vars

\* Whatever was added, edited, removed, fired or read back, NVS has the schedules
\* of the list, in its order and in the state the list has them in, whenever no
\* task is at work: only a request that crossed the work queue task, or a schedule
\* that had expired at boot, may leave them apart.  (esp_rmaker_schedule.c: every
\* path that changes the list ends in esp_rmaker_schedule_report_params.)
THEOREM AutomationSchedulesStored == Spec => []SchedulesStored
<1>1. BaseInv /\ QuietInv => SchedulesStored
  <2> SUFFICES ASSUME BaseInv, QuietInv, AtRest, ~overlap PROVE Recorded
    BY DEF Recorded, SchedulesStored
  <2>1. PICK t \in Tasks : QuietFor(t)
    BY DEF QuietInv
  <2>2. ~Unreported(t)
    BY DEF AtRest, Busy, Unreported
  <2> QED
    BY <2>1, <2>2 DEF QuietFor
<1>2. Init => BaseInv /\ QuietInv
  BY BaseInvInit, InitQuiet
<1>3. BaseInv /\ QuietInv /\ [Next]_vars => BaseInv' /\ QuietInv'
  BY BaseInvStep, QuietInvStep
<1> QED
  BY <1>1, <1>2, <1>3, PTL DEF Spec

-----------------------------------------------------------------------------
(* Why a schedule that is enabled has a timer, or will get one *)

Enabling == {"enable", "check", "arm"}

\* The task walks the list: from a schedule on, or past it.
Walks(t) ==
  t = "work" /\ (at[t].pc = "next" \/ (at[t].pc \in Enabling \cup {"build", "store"} /\ at[t].after = "next"))

\* A task is about to deal with the k-th schedule.
ByTask(t, k) ==
  \/ at[t].pc \in Enabling /\ at[t].idx = list[k].idx
  \/ Walks(t) /\ list[k].idx > at[t].idx
  \/ /\ t = "work"
     /\ \/ at[t].pc = "visit" /\ list[k].idx >= at[t].idx
        \/ at[t].pc = "disable" /\ list[k].idx = at[t].idx
        \/ at[t].pc = "act" /\ list[k].idx = at[t].idx
           /\ list[k].kind = "once" /\ list[k].ts = "past"

\* No task needs to: it has its timer, waits for the time of day or for its
\* trigger, was forgotten with a job, or its months are over.
ByItself(k) ==
  \/ list[k].armed /\ (list[k].kind = "once" => list[k].ts = "future")
  \/ sync = "started"
  \/ list[k].id \in lost
  \/ "sync" \in lost
  \/ list[k].kind = "dated" /\ over
  \/ list[k].kind = "once" /\ list[k].ts = "past" /\ Pending(list[k].idx)

Reason(k) == ByItself(k) \/ \E t \in Tasks : ByTask(t, k)

OnInv == ~dangling => \A k \in DOMAIN list : list[k].on => Reason(k)

\* The timer for the time of day runs, or its job is in the queue.
SyncInv == sync = "started" => timer = "running" \/ "sync" \in lost \/ SyncPending

\* A step that leaves what a schedule waits for.
Steady ==
  /\ sync = "started" => sync' = "started"
  /\ over => over'
  /\ "sync" \in lost => "sync" \in lost'

LEMMA ItselfStays ==
  ASSUME NEW j, NEW k, ByItself(j), Steady, list'[k] = list[j],
         list[j].id \in lost => list[j].id \in lost',
         NEW i, i = list[j].idx, Pending(i) => Pending(i)'
  PROVE  ByItself(k)'
<1> DEFINE r == list[j]
<1>1. /\ \/ r.armed /\ (r.kind = "once" => r.ts = "future")
         \/ sync' = "started" \/ r.id \in lost' \/ "sync" \in lost'
         \/ r.kind = "dated" /\ over'
         \/ r.kind = "once" /\ r.ts = "past" /\ Pending(i)'
  BY DEF ByItself, Steady
<1> QED
  BY <1>1 DEF ByItself, Pending

\* What the tasks say of a schedule that stays as it is.
LEMMA TaskStays ==
  ASSUME NEW j, NEW k, list'[k] = list[j], NEW u \in Tasks, ByTask(u, j), at'[u] = at[u]
  PROVE  ByTask(u, k)'
BY DEF ByTask, Walks

\* A step of task t, for a schedule that stays as it is.
LEMMA ReasonStays ==
  ASSUME NEW j, NEW k, Reason(j), Steady, list'[k] = list[j],
         list[j].id \in lost => list[j].id \in lost', NEW i, i = list[j].idx, Pending(i) => Pending(i)',
         NEW t \in Tasks, \A u \in Tasks \ {t} : at'[u] = at[u],
         ByTask(t, j) => ByTask(t, k)'
  PROVE  Reason(k)'
<1>1. CASE ByItself(j)
  BY <1>1, ItselfStays DEF Reason
<1>2. CASE \E u \in Tasks : ByTask(u, j)
  <2>1. PICK u \in Tasks : ByTask(u, j)
    BY <1>2
  <2>2. ByTask(u, k)'
    BY <2>1, TaskStays
  <2> QED
    BY <2>2 DEF Reason
<1> QED
  BY <1>1, <1>2 DEF Reason

\* The schedules, as every step finds them.
LEMMA OnFacts ==
  ASSUME BaseInv
  PROVE  /\ Types /\ Flags /\ list \in Seq(Records)
         /\ DOMAIN list = 1..Len(list) /\ Len(list) \in Nat
         /\ \A k \in DOMAIN list : list[k] \in Records /\ list[k].id \in Ids /\ list[k].idx \in Nat
         /\ \A j, k \in DOMAIN list : list[j].idx = list[k].idx => j = k
         /\ \A j, k \in DOMAIN list : list[j].id = list[k].id => j = k
         /\ \A j, k \in DOMAIN list : j < k => list[j].idx < list[k].idx
BY Elements DEF BaseInv, SchedulesInv, TriggerInv, Indices, Types, Records, Written, WellFormed, Sorted

\* A task that goes on with its schedule, or returns from it, goes on with its walk.
LEMMA WalkStays ==
  ASSUME NEW t \in Tasks, Walks(t), NEW pc \in Enabling \cup {"build", "store"}, at[t].pc # "next",
         \/ Returns(t)
         \/ GoesOn(t, pc)
         \/ \E data : MovesTo(t, pc, at[t].idx, at[t].after, data)
  PROVE  Walks(t)' /\ at'[t].idx = at[t].idx
BY DEF Walks, Returns, GoesOn, MovesTo, Rests, Enabling

LEMMA TaskStepOn ==
  ASSUME BaseInv, BaseInv', OnInv, NEW t \in Tasks, TaskStep(t)
  PROVE  OnInv'
<1> SUFFICES ASSUME ~dangling', NEW k \in DOMAIN list', list'[k].on PROVE Reason(k)'
  BY DEF OnInv
<1>0. /\ Types /\ list \in Seq(Records)
      /\ \A m \in DOMAIN list : list[m] \in Records
      /\ \A j, m \in DOMAIN list : list[j].idx = list[m].idx => j = m
  BY OnFacts
<1>1. UNCHANGED <<queue, lost, over>> /\ dangling' # TRUE
  BY DEF TaskStep, SetEnabled, CheckSync, Arm, Build, Store, memory, history
<1>2. \A i : Pending(i) => Pending(i)'
  BY <1>1 DEF Pending
<1>3. ASSUME Steady, NEW j \in DOMAIN list, list'[k] = list[j], list[j].on, ~dangling,
             \A u \in Tasks \ {t} : at'[u] = at[u], ByTask(t, j) => ByTask(t, k)'
      PROVE  Reason(k)'
  <2>1. Reason(j)
    BY <1>3 DEF OnInv
  <2>2. PICK i : i = list[j].idx
    OBVIOUS
  <2> QED
    BY <1>1, <1>2, <1>3, <2>1, <2>2, ReasonStays
<1>4. CASE SetEnabled(t)
  <2>1. /\ at[t].pc = "enable" /\ GoesOn(t, "check")
        /\ Steady /\ ~dangling
    <3>1. at[t].pc = "enable" /\ GoesOn(t, "check")
      BY <1>0, <1>4, SetEnabledDoes
    <3>2. Steady
      BY <1>1, <1>4 DEF SetEnabled, Steady
    <3>3. ~dangling
      BY <1>0, <1>1, <1>4, SetEnabledDoes
    <3> QED
      BY <3>1, <3>2, <3>3
  <2>2. PICK p \in DOMAIN list : Mine(t, p) /\ Revises(p, [list[p] EXCEPT !.on = TRUE])
    BY <1>0, <1>1, <1>4, SetEnabledDoes
  <2>3. CASE k = p
    <3>1. list'[k].idx = at[t].idx
      BY <1>0, <2>2, <2>3 DEF Revises, Mine, Records
    <3>2. ByTask(t, k)'
      BY <2>1, <3>1 DEF ByTask, Enabling, GoesOn, MovesTo
    <3> QED
      BY <3>2 DEF Reason
  <2>4. CASE k # p
    <3>1. k \in DOMAIN list /\ list'[k] = list[k]
      BY <2>2, <2>4 DEF Revises
    <3>2. ByTask(t, k) => ByTask(t, k)'
      BY <2>1, <3>1 DEF ByTask, Walks, Enabling, GoesOn, MovesTo
    <3> QED
      BY <1>3, <2>1, <3>1, <3>2 DEF GoesOn, MovesTo
  <2> QED
    BY <2>3, <2>4
<1>5. CASE CheckSync(t)
  <2>1. at[t].pc = "check" /\ list' = list /\ (~dangling)
    BY <1>0, <1>1, <1>5, CheckSyncDoes DEF CheckSync, history
  <2>2. CASE sync' = "started"
    BY <2>2 DEF Reason, ByItself
  <2>3. CASE sync # "started" /\ GoesOn(t, "arm")
    <3>1. ByTask(t, k) => ByTask(t, k)'
      BY <2>1, <2>3 DEF ByTask, Walks, Enabling, GoesOn, MovesTo
    <3>2. Steady
      BY <1>1, <2>3 DEF Steady
    <3> QED
      BY <1>3, <2>1, <2>3, <3>1, <3>2 DEF GoesOn, MovesTo
  <2> QED
    BY <1>0, <1>5, <2>2, <2>3, CheckSyncDoes
<1>6. CASE Arm(t)
  <2>1. /\ at[t].pc = "arm"
        /\ Steady /\ ~dangling
    <3>1. at[t].pc = "arm"
      BY <1>0, <1>6, ArmDoes
    <3>2. Steady
      BY <1>1, <1>6 DEF Arm, Steady
    <3>3. ~dangling
      BY <1>0, <1>1, <1>6, ArmDoes
    <3> QED
      BY <3>1, <3>2, <3>3
  <2>2. PICK p \in DOMAIN list :
          /\ Mine(t, p)
          /\ \/ Revises(p, Disabled(list[p])) /\ GoesOn(t, "build")
             \/ Revises(p, Armed(list[p])) /\ Returns(t)
    BY <1>0, <1>1, <1>6, ArmDoes
  <2>3. CASE k = p
    <3>1. CASE Revises(p, Disabled(list[p]))
      <4>1. Disabled(list[p]).on = FALSE
        BY <1>0 DEF Disabled, Records
      <4> QED
        BY <2>3, <3>1, <4>1 DEF Revises
    <3>2. CASE Revises(p, Armed(list[p]))
      <4>1. Armed(list[p]).armed = TRUE /\ (Armed(list[p]).kind = "once" => Armed(list[p]).ts = "future")
        BY <1>0 DEF Armed, Records
      <4>2. ByItself(k)'
        BY <2>3, <3>2, <4>1 DEF Revises, ByItself
      <4> QED
        BY <4>2 DEF Reason
    <3> QED
      BY <2>2, <3>1, <3>2
  <2>4. CASE k # p
    <3>1. k \in DOMAIN list /\ list'[k] = list[k] /\ list[k].idx # at[t].idx
      BY <1>0, <2>2, <2>4 DEF Revises, Mine
    <3>2. ByTask(t, k) => ByTask(t, k)'
      <4> SUFFICES ASSUME ByTask(t, k) PROVE ByTask(t, k)'
        OBVIOUS
      <4>1. Walks(t) /\ list[k].idx > at[t].idx
        BY <2>1, <3>1 DEF ByTask
      <4>2. Walks(t)' /\ at'[t].idx = at[t].idx
        BY <2>1, <2>2, <4>1, WalkStays
      <4> QED
        BY <3>1, <4>1, <4>2 DEF ByTask
    <3>3. \A u \in Tasks \ {t} : at'[u] = at[u]
      BY <2>2 DEF GoesOn, MovesTo, Returns, Rests
    <3> QED
      BY <1>3, <2>1, <3>1, <3>2, <3>3
  <2> QED
    BY <2>3, <2>4
<1>7. CASE Build(t) \/ Store(t)
  <2>1. at[t].pc \in {"build", "store"} /\ list' = list /\ Steady /\ ~dangling
    BY <1>1, <1>7 DEF Build, Store, memory, history, Steady
  <2>2. Returns(t) \/ MovesTo(t, "store", at[t].idx, at[t].after, Snapshot)
    BY <1>0, <1>7, BuildDoes, StoreDoes
  <2>3. ByTask(t, k) => ByTask(t, k)'
    <3> SUFFICES ASSUME ByTask(t, k) PROVE ByTask(t, k)'
      OBVIOUS
    <3>1. Walks(t) /\ list[k].idx > at[t].idx
      BY <2>1 DEF ByTask, Enabling
    <3>2. Walks(t)' /\ at'[t].idx = at[t].idx
      BY <2>1, <2>2, <3>1, WalkStays
    <3> QED
      BY <2>1, <3>1, <3>2 DEF ByTask
  <2>4. \A u \in Tasks \ {t} : at'[u] = at[u]
    BY <2>2 DEF MovesTo, Returns, Rests
  <2> QED
    BY <1>3, <2>1, <2>3, <2>4
<1> QED
  BY <1>4, <1>5, <1>6, <1>7 DEF TaskStep

LEMMA WorkStepOn ==
  ASSUME BaseInv, BaseInv', OnInv, WorkStep \/ AfterAction
  PROVE  OnInv'
<1> SUFFICES ASSUME ~dangling', NEW k \in DOMAIN list', list'[k].on PROVE Reason(k)'
  BY DEF OnInv
<1>0. /\ Types /\ list \in Seq(Records) /\ "work" \in Tasks
      /\ DOMAIN list = 1..Len(list) /\ Len(list) \in Nat
      /\ \A m \in DOMAIN list : list[m] \in Records /\ list[m].idx \in Nat
      /\ \A j, m \in DOMAIN list : list[j].idx = list[m].idx => j = m
      /\ \A j, m \in DOMAIN list : j < m => list[j].idx < list[m].idx
  BY OnFacts DEF Tasks
<1>1. UNCHANGED <<queue, lost, over, sync>> /\ dangling' # TRUE
  BY DEF WorkStep, DisableExpired, VisitOne, VisitNext, AfterAction, memory
<1>2. \A i : Pending(i) => Pending(i)'
  BY <1>1 DEF Pending
<1>3. Steady
  BY <1>1 DEF Steady
<1>4. ASSUME NEW j \in DOMAIN list, list'[k] = list[j], list[j].on, ~dangling,
             at'["cloud"] = at["cloud"], ByTask("work", j) => ByTask("work", k)'
      PROVE  Reason(k)'
  <2>1. Reason(j)
    BY <1>4 DEF OnInv
  <2>2. PICK i : i = list[j].idx
    OBVIOUS
  <2>3. \A u \in Tasks \ {"work"} : at'[u] = at[u]
    BY <1>4 DEF Tasks
  <2> QED
    BY <1>0, <1>1, <1>2, <1>3, <1>4, <2>1, <2>2, <2>3, ReasonStays
<1>5. ASSUME NEW pc, NEW i, NEW after, NEW data, MovesTo("work", pc, i, after, data)
      PROVE  at'["cloud"] = at["cloud"]
  BY <1>5 DEF MovesTo, Tasks
<1>6. CASE DisableExpired
  <2>1. at["work"].pc = "disable" /\ GoesOn("work", "build") /\ ~dangling
    BY <1>0, <1>1, <1>6, DisableExpiredDoes
  <2>2. PICK p \in DOMAIN list : Mine("work", p) /\ Revises(p, Disabled(list[p]))
    BY <1>0, <1>1, <1>6, DisableExpiredDoes
  <2>3. k # p
    <3>1. Disabled(list[p]).on = FALSE
      BY <1>0 DEF Disabled, Records
    <3> QED
      BY <2>2, <3>1 DEF Revises
  <2>4. k \in DOMAIN list /\ list'[k] = list[k] /\ list[k].idx # at["work"].idx
    BY <1>0, <2>2, <2>3 DEF Revises, Mine
  <2>5. ~ByTask("work", k)
    BY <2>1, <2>4 DEF ByTask, Walks, Enabling
  <2> QED
    BY <1>4, <1>5, <2>1, <2>4, <2>5 DEF GoesOn
<1>7. CASE VisitOne
  <2>1. at["work"].pc = "visit" /\ list' = list /\ ~dangling
    BY <1>0, <1>1, <1>7, VisitOneDoes DEF VisitOne, memory
  <2>2. PICK p \in DOMAIN list :
          /\ Mine("work", p)
          /\ \/ MovesTo("work", "enable", at["work"].idx, "next", at["work"].data)
             \/ ~list[p].on /\ GoesOn("work", "next")
    BY <1>0, <1>1, <1>7, VisitOneDoes
  <2>3. ByTask("work", k) => ByTask("work", k)'
    <3> SUFFICES ASSUME ByTask("work", k) PROVE ByTask("work", k)'
      OBVIOUS
    <3>1. list[k].idx >= at["work"].idx /\ list[k].idx \in Nat /\ at["work"].idx \in Nat
      BY <1>0, <2>1, <2>2 DEF ByTask, Walks, Enabling, Mine
    <3>2. CASE MovesTo("work", "enable", at["work"].idx, "next", at["work"].data)
      BY <2>1, <3>1, <3>2 DEF ByTask, Walks, Enabling, MovesTo
    <3>3. CASE ~list[p].on /\ GoesOn("work", "next")
      <4>1. list[k].idx > at["work"].idx
        BY <1>0, <2>1, <2>2, <3>1, <3>3 DEF Mine
      <4> QED
        BY <2>1, <3>3, <4>1 DEF ByTask, Walks, GoesOn, MovesTo
    <3> QED
      BY <2>2, <3>2, <3>3
  <2> QED
    BY <1>4, <1>5, <2>1, <2>2, <2>3 DEF GoesOn
<1>8. CASE VisitNext
  <2>1. at["work"].pc = "next" /\ list' = list /\ ~dangling
    BY <1>0, <1>1, <1>8, VisitNextDoes DEF VisitNext, memory
  <2>2. PICK p \in DOMAIN list :
          /\ Mine("work", p)
          /\ \/ p = Len(list) /\ Visits(NoIndex)
             \/ p # Len(list) /\ p + 1 \in DOMAIN list /\ Visits(list[p + 1].idx)
    BY <1>0, <1>1, <1>8, VisitNextDoes
  <2>3. ByTask("work", k) => ByTask("work", k)'
    <3> SUFFICES ASSUME ByTask("work", k) PROVE ByTask("work", k)'
      OBVIOUS
    <3>1. list[k].idx > list[p].idx /\ k \in DOMAIN list
      BY <2>1, <2>2 DEF ByTask, Enabling, Mine
    <3>2. k > p /\ p \in Nat /\ k \in Nat
      BY <1>0, <3>1
    <3>3. p # Len(list) /\ Visits(list[p + 1].idx) /\ p + 1 \in DOMAIN list
      BY <1>0, <2>2, <3>1, <3>2
    <3>4. list[k].idx >= list[p + 1].idx
      BY <1>0, <3>1, <3>2, <3>3
    <3>5. MovesTo("work", "visit", list[p + 1].idx, "idle", <<>>)
      BY <1>0, <3>3 DEF Visits, NoIndex
    <3> QED
      BY <2>1, <3>4, <3>5 DEF ByTask, MovesTo
  <2>4. at'["cloud"] = at["cloud"]
    BY <1>5, <2>2 DEF Visits, Rests
  <2> QED
    BY <1>4, <2>1, <2>3, <2>4
<1>9. CASE AfterAction
  <2>1. at["work"].pc = "act" /\ list' = list /\ ~dangling
    BY <1>0, <1>1, <1>9, AfterActionDoes DEF AfterAction, memory
  <2>2. PICK p \in DOMAIN list :
          /\ Mine("work", p)
          /\ \/ Expired(list[p]) /\ GoesOn("work", "disable")
             \/ ~Expired(list[p]) /\ Rests("work")
    BY <1>0, <1>1, <1>9, AfterActionDoes
  <2>3. ByTask("work", k) => ByTask("work", k)'
    <3> SUFFICES ASSUME ByTask("work", k) PROVE ByTask("work", k)'
      OBVIOUS
    <3>1. list[k].idx = at["work"].idx /\ list[k].kind = "once" /\ list[k].ts = "past"
      BY <2>1 DEF ByTask, Walks, Enabling
    <3>2. Expired(list[p])
      BY <1>0, <2>1, <2>2, <3>1 DEF Expired, Mine
    <3> QED
      BY <2>1, <2>2, <3>1, <3>2 DEF ByTask, GoesOn, MovesTo
  <2> QED
    BY <1>4, <1>5, <2>1, <2>2, <2>3 DEF GoesOn, Rests
<1> QED
  BY <1>6, <1>7, <1>8, <1>9 DEF WorkStep

LEMMA TakeOn ==
  ASSUME BaseInv, OnInv, TakeTrigger \/ TakeSync
  PROVE  OnInv'
<1> SUFFICES ASSUME ~dangling', NEW k \in DOMAIN list', list'[k].on PROVE Reason(k)'
  BY DEF OnInv
<1>0. /\ Types /\ list \in Seq(Records) /\ "work" \in Tasks /\ k \in DOMAIN list
      /\ DOMAIN list = 1..Len(list) /\ Len(list) \in Nat
      /\ \A m \in DOMAIN list : list[m] \in Records /\ list[m].idx \in Nat
      /\ \A j, m \in DOMAIN list : j < m => list[j].idx < list[m].idx
      /\ UNCHANGED <<list, lost, over, dangling>> /\ Len(queue) <= QueueSize
  BY OnFacts DEF Tasks, TakeTrigger, TakeSync, memory, Flags
<1>1. Reason(k) /\ "work" \in Tasks /\ at["work"].pc = "idle" /\ ~ByTask("work", k)
  BY <1>0, TakeTriggerDoes, TakeSyncDoes DEF OnInv, ByTask, Walks, Enabling
<1>2. /\ queue \in Seq(Jobs) /\ queue # <<>> /\ queue' = Tail(queue)
      /\ Head(queue).do = IF TakeTrigger THEN "trigger" ELSE "sync"
  BY <1>0, TakeTriggerDoes, TakeSyncDoes DEF Types
<1>3. PICK i : i = list[k].idx
  OBVIOUS
<1>4. Pending(i) => Pending(i)' \/ (Head(queue).do = "trigger" /\ Head(queue).idx = i)
  BY <1>0, <1>2, Taking
<1>5. ASSUME Steady, Pending(i) => Pending(i)', \A u \in Tasks \ {"work"} : at'[u] = at[u]
      PROVE  Reason(k)'
  BY <1>0, <1>1, <1>3, <1>5, ReasonStays
<1>6. CASE TakeTrigger
  <2>1. Steady
    BY <1>6 DEF TakeTrigger, memory, Steady
  <2>2. CASE MovesTo("work", "act", Head(queue).idx, "idle", <<>>)
    <3>1. CASE Pending(i) => Pending(i)'
      BY <1>5, <2>1, <2>2, <3>1 DEF MovesTo
    <3>2. CASE Head(queue).idx = i /\ ByItself(k) /\ ~(Pending(i) => Pending(i)')
      <4>1. CASE list[k].kind = "once" /\ list[k].ts = "past"
        <5>1. ByTask("work", k)'
          BY <1>0, <1>3, <2>2, <3>2, <4>1 DEF ByTask, MovesTo
        <5> QED
          BY <1>0, <5>1 DEF Reason
      <4>2. CASE ~(list[k].kind = "once" /\ list[k].ts = "past")
        <5>1. ByItself(k)'
          BY <1>0, <2>1, <3>2, <4>2 DEF ByItself, Steady
        <5> QED
          BY <5>1 DEF Reason
      <4> QED
        BY <4>1, <4>2
    <3>3. CASE \E u \in Tasks : ByTask(u, k)
      <4>1. PICK u \in Tasks : ByTask(u, k) /\ u # "work"
        BY <1>1, <3>3
      <4>2. ByTask(u, k)'
        BY <1>0, <2>2, <4>1, TaskStays DEF MovesTo
      <4> QED
        BY <4>2 DEF Reason
    <3> QED
      BY <1>1, <1>4, <3>1, <3>2, <3>3 DEF Reason
  <2>3. CASE ~Listed(Head(queue).idx) /\ UNCHANGED at
    <3>1. Head(queue).idx # i
      BY <1>0, <1>3, <2>3 DEF Listed
    <3> QED
      BY <1>4, <1>5, <2>1, <2>3, <3>1
  <2> QED
    BY <1>0, <1>6, <2>2, <2>3, TakeTriggerDoes
<1>7. CASE TakeSync
  <2>1. Pending(i) => Pending(i)'
    BY <1>0, <1>4, <1>7, TakeSyncDoes
  <2>2. CASE UNCHANGED <<sync, at>>
    <3>1. Steady
      BY <1>0, <2>2 DEF Steady
    <3> QED
      BY <1>5, <2>1, <2>2, <3>1
  <2>3. CASE Visits(First)
    <3>1. 1 \in DOMAIN list /\ First = list[1].idx /\ list[k].idx >= list[1].idx
      <4>1. 1 \in DOMAIN list /\ k >= 1 /\ k \in Nat /\ list # <<>>
        BY <1>0
      <4>2. list[k].idx >= list[1].idx
        BY <1>0, <4>1
      <4> QED
        BY <4>1, <4>2 DEF First
    <3>2. MovesTo("work", "visit", list[1].idx, "idle", <<>>)
      BY <1>0, <2>3, <3>1 DEF Visits, NoIndex
    <3>3. ByTask("work", k)'
      BY <1>0, <3>1, <3>2 DEF ByTask, MovesTo
    <3> QED
      BY <1>0, <3>3 DEF Reason
  <2> QED
    BY <1>0, <1>7, <2>2, <2>3, TakeSyncDoes
<1> QED
  BY <1>6, <1>7

LEMMA FireOn ==
  ASSUME BaseInv, OnInv, NEW p \in DOMAIN list, Fire(p)
  PROVE  OnInv'
<1> SUFFICES ASSUME ~dangling', NEW k \in DOMAIN list', list'[k].on PROVE Reason(k)'
  BY DEF OnInv
<1>0. /\ Types /\ list[p] \in Records /\ UNCHANGED <<sync, over, dangling>>
      /\ queue \in Seq(Jobs) /\ Len(queue) <= QueueSize
  BY OnFacts DEF Fire, Flags, Types
<1> DEFINE job == [do |-> "trigger", idx |-> list[p].idx, for |-> list[p].id]
<1>1. /\ list[p].armed /\ job \in Jobs /\ Post(job)
      /\ \A t \in Tasks : /\ at'[t].pc = at[t].pc /\ at'[t].idx = at[t].idx
                          /\ at'[t].after = at[t].after
  BY <1>0, FireDoes
<1>2. PICK i, id : i = list[p].idx /\ id = list[p].id
  OBVIOUS
<1>3. (\A x : Pending(x) => Pending(x)') /\ lost \subseteq lost' /\ (id \in lost' \/ Pending(i)')
  <2>1. job.do = "trigger" /\ job.idx = i /\ job.for = id
    BY <1>2
  <2>2. PICK j : j = job
    OBVIOUS
  <2>3. j \in Jobs /\ Post(j) /\ j.do = "trigger" /\ j.idx = i /\ j.for = id
    BY <1>1, <2>1, <2>2
  <2>4. Waits /\ lost \subseteq lost' /\ (id \in lost' \/ Pending(j.idx)')
    BY <1>0, <2>3, Posting
  <2> QED
    BY <2>3, <2>4 DEF Waits, Pending
<1>4. Steady
  BY <1>0, <1>3 DEF Steady
<1> DEFINE r == [list[p] EXCEPT !.ts = IF @ = "future" THEN "past" ELSE @,
                                !.armed = (list[p].kind = "dated" /\ ~over)]
<1>5. /\ r.id = id /\ r.idx = i /\ r.kind = list[p].kind /\ r.on = list[p].on
      /\ r.kind \in {"once", "dated"}
      /\ r.kind = "dated" => r.armed \/ over
      /\ list[p].ts \in {"future", "past"} => r.ts = "past"
  BY <1>0, <1>2 DEF Records, Kinds
<1>6. Revises(p, r)
  BY <1>0, FireDoes
<1> HIDE DEF r, job
<1>7. k \in DOMAIN list /\ list[k].on /\ Reason(k)
  BY <1>0, <1>5, <1>6 DEF Revises, OnInv
<1>8. CASE k # p
  <2>1. list'[k] = list[k]
    BY <1>6, <1>7, <1>8 DEF Revises
  <2>2. CASE ByItself(k)
    <3>1. PICK x : x = list[k].idx
      OBVIOUS
    <3>2. ByItself(k)'
      BY <1>3, <1>4, <2>1, <2>2, <3>1, ItselfStays
    <3> QED
      BY <3>2 DEF Reason
  <2>3. CASE \E u \in Tasks : ByTask(u, k)
    <3>1. PICK u \in Tasks : ByTask(u, k)
      BY <2>3
    <3>2. ByTask(u, k)'
      BY <1>1, <2>1, <3>1 DEF ByTask, Walks
    <3> QED
      BY <3>2 DEF Reason
  <2> QED
    BY <1>7, <2>2, <2>3 DEF Reason
<1>9. CASE k = p
  <2>1. list'[k] = r
    BY <1>6, <1>9 DEF Revises
  <2>2. CASE \E u \in Tasks : ByTask(u, k)
    <3>1. PICK u \in Tasks : ByTask(u, k)
      BY <2>2
    <3>2. ByTask(u, k)'
      BY <1>1, <1>2, <1>5, <1>9, <2>1, <3>1 DEF ByTask, Walks
    <3> QED
      BY <3>2 DEF Reason
  <2>3. CASE ByItself(k)
    <3>1. CASE sync = "started" \/ list[k].id \in lost \/ "sync" \in lost
      BY <1>2, <1>3, <1>4, <1>5, <1>9, <2>1, <3>1 DEF Reason, ByItself, Steady
    <3>2. CASE r.kind = "dated"
      BY <1>0, <1>5, <2>1, <3>2 DEF Reason, ByItself
    <3>3. CASE r.kind = "once" /\ list[p].ts \in {"future", "past"}
      <4>1. CASE id \in lost'
        BY <1>5, <2>1, <4>1 DEF Reason, ByItself
      <4>2. CASE Pending(i)'
        <5>1. list'[k].idx = i /\ list'[k].kind = "once" /\ list'[k].ts = "past"
          BY <1>5, <2>1, <3>3
        <5>2. ByItself(k)'
          BY <4>2, <5>1 DEF ByItself, Pending
        <5> QED
          BY <5>2 DEF Reason
      <4> QED
        BY <1>3, <4>1, <4>2
    <3>4. \/ sync = "started" \/ list[k].id \in lost \/ "sync" \in lost
          \/ list[p].kind = "dated" \/ list[p].ts \in {"future", "past"}
      BY <1>5, <1>9, <2>3 DEF ByItself
    <3> QED
      BY <1>5, <3>1, <3>2, <3>3, <3>4
  <2> QED
    BY <1>7, <2>2, <2>3 DEF Reason
<1> QED
  BY <1>8, <1>9

LEMMA TimerStepOn == ASSUME BaseInv, OnInv, TimerStep PROVE OnInv'
<1>1. CASE ClockSet \/ CalendarPasses \/ SyncTimer
  <2> SUFFICES ASSUME ~dangling', NEW k \in DOMAIN list', list'[k].on PROVE Reason(k)'
    BY DEF OnInv
  <2>1. UNCHANGED <<list, at, dangling, sync>> /\ (over => over') /\ lost \subseteq lost'
        /\ \A x : Pending(x) => Pending(x)'
    <3>1. CASE ClockSet \/ CalendarPasses
      BY <3>1 DEF ClockSet, CalendarPasses, memory, history, Pending
    <3>2. CASE SyncTimer
      <4>1. PICK j : j = [do |-> "sync", idx |-> NoIndex, for |-> "sync"]
        OBVIOUS
      <4>2. j \in Jobs /\ Post(j)
        BY <3>2, <4>1 DEF SyncTimer, Jobs
      <4>3. Waits /\ lost \subseteq lost'
        BY <4>2, OnFacts, Posting DEF Types, Flags
      <4> QED
        BY <3>2, <4>3 DEF SyncTimer, Waits
    <3> QED
      BY <1>1, <3>1, <3>2
  <2>2. Reason(k) /\ Steady
    BY <2>1 DEF OnInv, Steady
  <2>3. PICK i : i = list[k].idx
    OBVIOUS
  <2>4. "work" \in Tasks /\ (ByTask("work", k) => ByTask("work", k)')
    BY <2>1, TaskStays DEF Tasks
  <2> QED
    BY <2>1, <2>2, <2>3, <2>4, ReasonStays
<1> QED
  BY <1>1, FireOn DEF TimerStep

\* A request that goes on with schedule id, or with none.
LEMMA RequestOn == ASSUME BaseInv, OnInv, Request PROVE OnInv'
<1> SUFFICES ASSUME ~dangling', NEW k \in DOMAIN list', list'[k].on PROVE Reason(k)'
  BY DEF OnInv
<1>0. /\ Types /\ list \in Seq(Records) /\ "cloud" \in Tasks /\ DOMAIN list = 1..Len(list)
      /\ Len(list) \in Nat
      /\ \A m \in DOMAIN list : list[m] \in Records /\ list[m].id \in Ids
      /\ \A j, m \in DOMAIN list : list[j].id = list[m].id => j = m
  BY OnFacts DEF Tasks
<1>1. /\ UNCHANGED <<sync, over, queue, dangling>> /\ at["cloud"].pc = "idle"
      /\ ~\E j : ByTask("cloud", j)
  <2>1. UNCHANGED <<sync, over, queue, dangling>>
    BY DEF Request, Add, Edit, Remove, Enable, Disable, Reject, memory
  <2>2. at["cloud"].pc = "idle"
    BY <1>0, AddDoes, EditDoes, RemoveDoes, EnableDoes, DisableDoes, RejectDoes DEF Request
  <2> QED
    BY <2>1, <2>2 DEF ByTask, Walks, Enabling
<1>2. ASSUME NEW j \in DOMAIN list, list'[k] = list[j], list[j].on,
             NEW id \in Ids, id # list[j].id, Wanted(id) \/ Unasked,
             \A u \in Tasks \ {"cloud"} : at'[u] = at[u]
      PROVE  Reason(k)'
  <2>1. Reason(j) /\ (\A x : Pending(x) => Pending(x)')
    BY <1>1, <1>2 DEF OnInv, Pending
  <2>2. /\ \A x : x \in lost /\ x # id => x \in lost'
        /\ "sync" # id
    BY <1>2, SchedulesAssumption DEF Wanted, Unasked
  <2>3. Steady
    BY <1>1, <2>2 DEF Steady
  <2>4. PICK i : i = list[j].idx
    OBVIOUS
  <2> QED
    BY <1>0, <1>1, <1>2, <2>1, <2>2, <2>3, <2>4, ReasonStays
<1>3. ASSUME NEW i, ToEnable(i), list'[k].idx = i PROVE Reason(k)'
  <2>1. ByTask("cloud", k)'
    BY <1>3 DEF ToEnable, MovesTo, ByTask, Enabling
  <2> QED
    BY <1>0, <2>1 DEF Reason
<1>4. ASSUME Unasked, \A u \in Tasks \ {"cloud"} : at'[u] = at[u],
             NEW j \in DOMAIN list, list'[k] = list[j], list[j].on
      PROVE  Reason(k)'
  <2>1. PICK i : i = list[j].idx
    OBVIOUS
  <2>2. Reason(j) /\ Steady /\ (\A x : Pending(x) => Pending(x)') /\ lost' = lost
    BY <1>1, <1>4 DEF OnInv, Pending, Unasked, Steady
  <2> QED
    BY <1>0, <1>1, <1>4, <2>1, <2>2, ReasonStays
<1>5. ASSUME NEW i, ToReport \/ ToEnable(i) PROVE \A u \in Tasks \ {"cloud"} : at'[u] = at[u]
  BY <1>5 DEF ToReport, ToEnable, MovesTo
<1>6. ASSUME NEW id \in Ids, NEW kind \in Kinds, Add(id, kind) PROVE Reason(k)'
  <2>1. CASE Grows(New(id, kind)) /\ ToEnable(index) /\ Wanted(id)
    <3>1. k # Len(list) + 1
      <4>1. New(id, kind).on = FALSE
        BY DEF New
      <4> QED
        BY <2>1, <4>1 DEF Grows
    <3>2. k \in DOMAIN list /\ list'[k] = list[k]
      BY <1>0, <2>1, <3>1 DEF Grows
    <3>3. list[k].id # id
      BY <1>0, <1>6, <3>2, AddDoes DEF Known
    <3> QED
      BY <1>2, <1>5, <2>1, <3>2, <3>3
  <2>2. CASE list' = list /\ ToReport /\ Unasked
    BY <1>4, <1>5, <2>2
  <2> QED
    BY <1>0, <1>6, <2>1, <2>2, AddDoes
<1>7. ASSUME NEW id \in Ids, NEW kind \in Kinds, Edit(id, kind) PROVE Reason(k)'
  <2>1. PICK p \in DOMAIN list :
          /\ list[p].id = id
          /\ \/ /\ list[p].on /\ Revises(p, Disabled([list[p] EXCEPT !.kind = kind]))
                /\ ToEnable(list[p].idx) /\ Wanted(id)
             \/ /\ ~list[p].on /\ Revises(p, [list[p] EXCEPT !.kind = kind, !.ts = "none"])
                /\ ToReport /\ Unasked
    BY <1>0, <1>7, EditDoes
  <2>2. k # p
    <3>1. Disabled([list[p] EXCEPT !.kind = kind]).on = FALSE
      BY <1>0 DEF Disabled, Records
    <3>2. [list[p] EXCEPT !.kind = kind, !.ts = "none"].on = list[p].on
      BY <1>0 DEF Records
    <3> QED
      BY <2>1, <3>1, <3>2 DEF Revises
  <2>3. k \in DOMAIN list /\ list'[k] = list[k] /\ list[k].id # id
    BY <1>0, <2>1, <2>2 DEF Revises
  <2> QED
    BY <1>2, <1>5, <2>1, <2>3
<1>8. ASSUME NEW id \in Ids, Remove(id) PROVE Reason(k)'
  <2>1. PICK p \in Nat : Shrinks(p)
    BY <1>0, <1>8, RemoveDoes
  <2>2. PICK j \in DOMAIN list : list'[k] = list[j]
    BY <2>1 DEF Shrinks
  <2> QED
    BY <1>0, <1>4, <1>5, <1>8, <2>2, RemoveDoes
<1>9. ASSUME NEW id \in Ids, Enable(id) PROVE Reason(k)'
  <2>1. PICK p \in DOMAIN list : list[p].id = id /\ ToEnable(list[p].idx) /\ Wanted(id)
    BY <1>0, <1>9, EnableDoes
  <2>2. list' = list
    BY <1>9 DEF Enable, memory
  <2>3. CASE k = p
    BY <1>3, <2>1, <2>2, <2>3
  <2>4. CASE k # p
    BY <1>0, <1>2, <1>5, <2>1, <2>2, <2>4
  <2> QED
    BY <2>3, <2>4
<1>10. ASSUME NEW id \in Ids, Disable(id) PROVE Reason(k)'
  <2>1. PICK p \in DOMAIN list : list[p].id = id /\ Revises(p, Disabled(list[p]))
    BY <1>0, <1>10, DisableDoes
  <2>2. k # p
    <3>1. Disabled(list[p]).on = FALSE
      BY <1>0 DEF Disabled, Records
    <3> QED
      BY <2>1, <3>1 DEF Revises
  <2>3. k \in DOMAIN list /\ list'[k] = list[k]
    BY <2>1, <2>2 DEF Revises
  <2> QED
    BY <1>0, <1>4, <1>5, <1>10, <2>3, DisableDoes
<1>11. CASE Reject
  BY <1>0, <1>4, <1>5, <1>11, RejectDoes DEF Reject, memory
<1> QED
  BY <1>6, <1>7, <1>8, <1>9, <1>10, <1>11 DEF Request

\* What was read back has its timer, or waits for the time of day.
LEMMA ReadOn ==
  ASSUME NEW l, NEW e, NEW known, ListReads(l, e, known), NEW k \in DOMAIN l, l[k].on
  PROVE  \/ l[k].armed /\ (l[k].kind = "once" => l[k].ts = "future")
         \/ RestoredSync(e, known) = "started"
<1>1. ReadAs(e[k], l[k], known) /\ k \in DOMAIN e
  BY DEF ListReads
<1>2. CASE e[k].on /\ known
  BY <1>1, <1>2, Zenon DEF ReadAs
<1>3. CASE ~(e[k].on /\ known)
  <2>1. e[k].on = l[k].on
    BY <1>1, <1>3, Zenon DEF ReadAs
  <2>2. e[k].on /\ ~known
    BY <1>3, <2>1
  <2> QED
    BY <1>1, <2>2 DEF RestoredSync
<1> QED
  BY <1>2, <1>3

LEMMA InitOn == ASSUME Init PROVE OnInv /\ SyncInv
<1>1. ListReads(list, nvs, clock) /\ sync = RestoredSync(nvs, clock)
  BY InitDoes DEF Init, SchedulesInit
<1>2. ASSUME NEW k \in DOMAIN list, list[k].on PROVE ByItself(k)
  BY <1>1, <1>2, ReadOn DEF ByItself
<1>3. timer = IF sync = "started" THEN "running" ELSE "none"
  BY DEF Init, SchedulesInit
<1> QED
  BY <1>2, <1>3 DEF OnInv, Reason, SyncInv

LEMMA BootOn == ASSUME BaseInv, Boot PROVE OnInv' /\ SyncInv'
<1>1. ListReads(list', nvs', clock') /\ sync' = RestoredSync(nvs', clock')
  BY BootDoes DEF BaseInv, SchedulesInv, Boot
<1>2. ASSUME NEW k \in DOMAIN list', list'[k].on PROVE ByItself(k)'
  BY <1>1, <1>2, ReadOn DEF ByItself
<1>3. timer' = IF sync' = "started" THEN "running" ELSE "none"
  BY DEF Boot
<1> QED
  BY <1>2, <1>3 DEF OnInv, Reason, SyncInv

LEMMA SyncInvStep == BaseInv /\ SyncInv /\ [Next]_vars => SyncInv'
<1> SUFFICES ASSUME BaseInv, SyncInv, [Next]_vars PROVE SyncInv'
  OBVIOUS
<1>0. Types /\ queue \in Seq(Jobs) /\ Len(queue) <= QueueSize
  BY OnFacts DEF Types, Flags
<1>1. ASSUME UNCHANGED <<sync, timer>>, SyncPending => SyncPending', "sync" \in lost => "sync" \in lost'
      PROVE  SyncInv'
  BY <1>1 DEF SyncInv
<1>2. CASE ScheduleRequest
  <2>1. UNCHANGED <<sync, timer, queue>>
    BY <1>2 DEF ScheduleRequest, Request, Add, Edit, Remove, Enable, Disable, Reject, memory
  <2>2. ASSUME NEW id \in Ids, Wanted(id) \/ Unasked PROVE "sync" \in lost => "sync" \in lost'
    BY <2>2, SchedulesAssumption DEF Wanted, Unasked
  <2>3. lost' = lost \/ \E id \in Ids : Wanted(id) \/ Unasked
    BY <1>2 DEF ScheduleRequest, Request, Add, AddNew, Edit, Remove, Enable, Disable, Reject, Unasked
  <2> QED
    BY <1>1, <2>1, <2>2, <2>3 DEF SyncPending
<1>3. CASE \E t \in Tasks : TaskStep(t)
  <2>1. PICK t \in Tasks : TaskStep(t)
    BY <1>3
  <2>2. UNCHANGED <<queue, lost>>
    BY <2>1 DEF TaskStep, SetEnabled, CheckSync, Arm, Build, Store, memory, history
  <2>3. UNCHANGED <<sync, timer>> \/ timer' = "running" \/ sync' # "started"
    BY <2>1 DEF TaskStep, SetEnabled, CheckSync, Arm, Build, Store, memory
  <2> QED
    BY <1>1, <2>2, <2>3 DEF SyncInv, SyncPending
<1>4. CASE WorkStep \/ TriggerActed
  <2>1. UNCHANGED <<sync, timer, queue, lost>>
    BY <1>4 DEF WorkStep, DisableExpired, VisitOne, VisitNext, TriggerActed, AfterAction, memory
  <2> QED
    BY <1>1, <2>1 DEF SyncPending
<1>5. CASE TakeTrigger
  <2>1. SyncPending => SyncPending'
    BY <1>0, <1>5, Taking, TakeTriggerDoes
  <2> QED
    BY <1>1, <1>5, <2>1 DEF TakeTrigger, memory
<1>6. CASE TakeSync
  BY <1>6 DEF TakeSync, SyncInv
<1>7. CASE TimerStep
  <2>1. CASE ClockSet \/ CalendarPasses
    <3>1. UNCHANGED <<sync, timer, queue, lost>>
      BY <2>1 DEF ClockSet, CalendarPasses, memory, history
    <3> QED
      BY <1>1, <3>1 DEF SyncPending
  <2>2. CASE SyncTimer
    <3>1. PICK j : j = [do |-> "sync", idx |-> NoIndex, for |-> "sync"]
      OBVIOUS
    <3>2. j \in Jobs /\ Post(j) /\ j.do = "sync" /\ j.for = "sync"
      BY <2>2, <3>1 DEF SyncTimer, Jobs
    <3> QED
      BY <1>0, <3>2, Posting DEF SyncInv
  <2>3. CASE \E p \in DOMAIN list : Fire(p)
    <3>1. PICK p \in DOMAIN list : Fire(p)
      BY <2>3
    <3>2. PICK j : j = [do |-> "trigger", idx |-> list[p].idx, for |-> list[p].id]
      OBVIOUS
    <3>3. j \in Jobs /\ Post(j) /\ UNCHANGED <<sync, timer>>
      BY <1>0, <3>1, <3>2, FireDoes DEF Fire
    <3> QED
      BY <1>0, <1>1, <3>3, Posting DEF Waits
  <2> QED
    BY <1>7, <2>1, <2>2, <2>3 DEF TimerStep
<1>8. CASE SceneRequest \/ UNCHANGED schedules
  <2>1. UNCHANGED <<sync, timer, queue, lost>>
    BY <1>8 DEF SceneRequest, schedules, memory, history
  <2> QED
    BY <1>1, <2>1 DEF SyncPending
<1>9. CASE Reboot
  BY <1>9, BootOn DEF Reboot
<1> QED
  BY <1>2, <1>3, <1>4, <1>5, <1>6, <1>7, <1>8, <1>9 DEF Next, Trigger, vars

LEMMA OnInvStep == BaseInv /\ BaseInv' /\ OnInv /\ [Next]_vars => OnInv'
<1> SUFFICES ASSUME BaseInv, BaseInv', OnInv, [Next]_vars PROVE OnInv'
  OBVIOUS
<1>1. CASE ScheduleRequest
  BY <1>1, RequestOn DEF ScheduleRequest
<1>2. CASE TakeTrigger \/ TakeSync
  BY <1>2, TakeOn
<1>3. CASE TriggerActed \/ WorkStep
  BY <1>3, WorkStepOn DEF TriggerActed
<1>4. CASE Reboot
  BY <1>4, BootOn DEF Reboot
<1>5. CASE TimerStep \/ \E t \in Tasks : TaskStep(t)
  BY <1>5, TimerStepOn, TaskStepOn
<1>6. CASE SceneRequest \/ UNCHANGED schedules
  <2>1. UNCHANGED <<list, sync, over, queue, lost, at, dangling>>
    BY <1>6 DEF SceneRequest, schedules, memory, history
  <2> QED
    BY <2>1 DEF OnInv, Reason, ByItself, ByTask, Walks, Pending
<1> QED
  BY <1>1, <1>2, <1>3, <1>4, <1>5, <1>6 DEF Next, Trigger, vars

\* A schedule that is shown as enabled when nothing is under way has its timer,
\* or gets it when the time of day is known, however the requests, the jobs and
\* the walk over the list were interleaved: what was lost with a full work queue,
\* the months that are over and memory used after it was freed are the only
\* exceptions.  And without a crossing request only such a schedule has a timer.
\* (esp_rmaker_schedule.c: esp_rmaker_schedule_operation_enable and
\* esp_rmaker_schedule_timesync_timer_work_cb.)
THEOREM AutomationEnabledIsArmed == Spec => []EnabledIsArmed
<1>1. BaseInv /\ QuietInv /\ OnInv /\ SyncInv => EnabledIsArmed
  <2> SUFFICES ASSUME BaseInv, QuietInv, OnInv, SyncInv, AtRest, ~dangling, NEW k \in DOMAIN list
               PROVE  /\ list[k].on =>
                           \/ list[k].armed
                           \/ timer = "running" /\ sync = "started"
                           \/ list[k].id \in lost \/ "sync" \in lost
                           \/ list[k].kind = "dated" /\ over
                      /\ list[k].armed => list[k].on \/ overlap
    BY DEF EnabledIsArmed
  <2>1. DOMAIN queue = {} /\ \A t \in Tasks : at[t].pc = "idle"
    BY DEF AtRest, Busy
  <2>2. ~SyncPending /\ (~\E i : Pending(i)) /\ ~\E t \in Tasks : ByTask(t, k)
    BY <2>1 DEF SyncPending, Pending, ByTask, Walks, Enabling
  <2>3. list[k].on => ByItself(k)
    BY <2>2 DEF OnInv, Reason
  <2>4. sync = "started" => timer = "running" \/ "sync" \in lost
    BY <2>2 DEF SyncInv
  <2>5. list[k].on => \/ list[k].armed
                      \/ timer = "running" /\ sync = "started"
                      \/ list[k].id \in lost \/ "sync" \in lost
                      \/ list[k].kind = "dated" /\ over
    BY <2>2, <2>3, <2>4 DEF ByItself
  <2>6. list[k].armed => list[k].on \/ overlap
    BY DEF QuietInv, QuietFor, Timed
  <2> QED
    BY <2>5, <2>6
<1>2. Init => BaseInv /\ QuietInv /\ OnInv /\ SyncInv
  BY BaseInvInit, InitQuiet, InitOn
<1>3. BaseInv /\ QuietInv /\ OnInv /\ SyncInv /\ [Next]_vars
      => BaseInv' /\ QuietInv' /\ OnInv' /\ SyncInv'
  BY BaseInvStep, QuietInvStep, OnInvStep, SyncInvStep
<1> QED
  BY <1>1, <1>2, <1>3, PTL DEF Spec

-----------------------------------------------------------------------------
(* A schedule that has fired once and will not fire again *)

\* The schedule has no timer, and arming it again finds that it has expired.
Done(r) ==
  r.armed = FALSE /\ r.ts # "future" /\ (r.on = TRUE => r.kind = "once" /\ r.ts = "past")

AllDone(l, id)  == \A k \in DOMAIN l : l[k].id = id => Done(l[k])
NoFuture(e, id) == \A k \in DOMAIN e : e[k].id = id => e[k].ts # "future"
DataSpent(id)   == \A t \in Tasks : NoFuture(at[t].data, id)

\* Neither the list, nor NVS, nor a report under way has a time for it to come.
Spent(id) == AllDone(list, id) /\ NoFuture(nvs, id) /\ DataSpent(id)

OnceAtMost(id) == id \in replay \/ fired[id] = 0 \/ (fired[id] = 1 /\ Spent(id))

SpentInv == ~overlap => \A id \in Ids : OnceAtMost(id)

LEMMA NothingInFuture == \A id : NoFuture(<<>>, id)
<1>1. DOMAIN <<>> = {}
  OBVIOUS
<1> QED
  BY <1>1 DEF NoFuture

LEMMA MovesSpent ==
  ASSUME NEW id, DataSpent(id), NEW t \in Tasks, NEW pc, NEW i, NEW after, NEW data,
         MovesTo(t, pc, i, after, data), NoFuture(data, id)
  PROVE  DataSpent(id)'
<1>1. ASSUME NEW u \in Tasks PROVE NoFuture(at'[u].data, id)
  <2>1. CASE u = t
    <3>1. at'[u].data = data
      BY <2>1 DEF MovesTo
    <3> QED
      BY <3>1
  <2>2. CASE u # t
    <3>1. at'[u] = at[u] /\ NoFuture(at[u].data, id)
      BY <2>2 DEF MovesTo, DataSpent
    <3> QED
      BY <3>1
  <2> QED
    BY <2>1, <2>2
<1> QED
  BY <1>1 DEF DataSpent

\* What a task does that reports nothing new.
LEMMA GoesSpent ==
  ASSUME NEW id, DataSpent(id), NEW t \in Tasks, NEW pc, NEW i,
         Returns(t) \/ GoesOn(t, pc) \/ Rests(t) \/ (t = "work" /\ Visits(i))
  PROVE  DataSpent(id)'
<1>1. NoFuture(at[t].data, id) /\ NoFuture(<<>>, id)
  BY NothingInFuture DEF DataSpent
<1>2. CASE Returns(t)
  BY <1>1, <1>2, MovesSpent DEF Returns, Rests
<1>3. CASE GoesOn(t, pc)
  BY <1>1, <1>3, MovesSpent DEF GoesOn
<1>4. CASE Rests(t)
  BY <1>1, <1>4, MovesSpent DEF Rests
<1>5. CASE t = "work" /\ Visits(i)
  BY <1>1, <1>5, MovesSpent DEF Visits, Rests
<1> QED
  BY <1>2, <1>3, <1>4, <1>5

LEMMA RevisesDone ==
  ASSUME NEW id, AllDone(list, id), NEW p, NEW r, Revises(p, r), r.id = id => Done(r)
  PROVE  AllDone(list', id)
BY DEF AllDone, Revises

LEMMA DisabledDone == ASSUME NEW r \in Records PROVE Done(Disabled(r))
BY DEF Done, Disabled, Records

\* A step that does not count for id.
LEMMA OnceStays ==
  ASSUME NEW id, OnceAtMost(id), fired'[id] = fired[id], id \in replay => id \in replay',
         fired[id] = 1 /\ Spent(id) => Spent(id)'
  PROVE  OnceAtMost(id)'
BY DEF OnceAtMost

LEMMA SpentStays ==
  ASSUME NEW id, AllDone(list', id), NoFuture(nvs', id), DataSpent(id)'
  PROVE  Spent(id)'
BY DEF Spent

LEMMA TaskStepSpent ==
  ASSUME BaseInv, BaseInv', QuietInv, SpentInv, NEW t \in Tasks, TaskStep(t)
  PROVE  SpentInv'
<1> SUFFICES ASSUME ~overlap', NEW id \in Ids PROVE OnceAtMost(id)'
  BY DEF SpentInv
<1>0. /\ Types /\ ~overlap /\ dangling' # TRUE /\ fired \in [Ids -> 0..2]
      /\ list \in Seq(Records) /\ \A k \in DOMAIN list : list[k] \in Records
      /\ \A j, k \in DOMAIN list : list[j].idx = list[k].idx => j = k
      /\ replay' = replay
  <2>1. Types /\ dangling' # TRUE /\ fired \in [Ids -> 0..2]
        /\ \A j, k \in DOMAIN list : list[j].idx = list[k].idx => j = k
    BY DEF BaseInv, SchedulesInv, OverlapInv, TriggerInv, Indices, Flags
  <2>2. ~overlap
    BY DEF TaskStep, SetEnabled, CheckSync, Arm, Build, Store, history
  <2>3. replay' = replay
    BY DEF TaskStep, SetEnabled, CheckSync, Arm, Build, Store, history
  <2> QED
    BY <2>1, <2>2, <2>3, Elements DEF Types
<1>1. OnlyTask(t) /\ QuietFor(t)
  BY <1>0, Only DEF TaskStep, SetEnabled, CheckSync, Arm, Build, Store
<1>2. OnceAtMost(id)
  BY <1>0 DEF SpentInv
<1>3. CASE SetEnabled(t)
  <2>1. /\ at[t].pc = "enable" /\ GoesOn(t, "check") /\ nvs' = nvs /\ fired' = fired
    BY <1>0, <1>3, SetEnabledDoes DEF SetEnabled
  <2>2. PICK p \in DOMAIN list : Mine(t, p) /\ Revises(p, [list[p] EXCEPT !.on = TRUE])
    BY <1>0, <1>3, SetEnabledDoes
  <2> SUFFICES ASSUME fired[id] = 1, Spent(id) PROVE Spent(id)'
    BY <1>0, <1>2, <2>1, OnceStays
  <2> DEFINE r == [list[p] EXCEPT !.on = TRUE]
  <2>3. Revises(p, r) /\ r.id = list[p].id /\ r.armed = list[p].armed /\ r.ts = list[p].ts
        /\ r.kind = list[p].kind
    BY <1>0, <2>2 DEF Records
  <2> HIDE DEF r
  <2>4. ASSUME list[p].id = id PROVE Done(r)
    <3>1. Done(list[p])
      BY <2>4 DEF Spent, AllDone
    <3>2. list[p].on /\ list[p].on \in BOOLEAN
      BY <1>0, <1>1, <2>1, <2>2, <2>4 DEF QuietFor, Enables, Mine, Records
    <3> QED
      BY <2>3, <3>1, <3>2 DEF Done
  <2>5. AllDone(list', id)
    BY <2>3, <2>4, RevisesDone DEF Spent
  <2>6. DataSpent(id)'
    BY <2>1, GoesSpent DEF Spent
  <2> QED
    BY <2>1, <2>5, <2>6, SpentStays DEF Spent
<1>4. CASE CheckSync(t)
  <2>1. UNCHANGED <<list, nvs, fired>> /\ (Returns(t) \/ GoesOn(t, "arm"))
    BY <1>0, <1>4, CheckSyncDoes DEF CheckSync, history
  <2>2. Spent(id) => Spent(id)'
    BY <2>1, GoesSpent, SpentStays DEF Spent
  <2> QED
    BY <1>0, <1>2, <2>1, <2>2, OnceStays
<1>5. CASE Arm(t)
  <2>1. at[t].pc = "arm" /\ nvs' = nvs
    BY <1>0, <1>5, ArmDoes DEF Arm
  <2>2. PICK p \in DOMAIN list :
          /\ Mine(t, p)
          /\ \/ /\ Revises(p, Disabled(list[p])) /\ GoesOn(t, "build") /\ fired' = fired
             \/ /\ ~Expired(list[p]) /\ Revises(p, Armed(list[p])) /\ Returns(t)
                /\ fired' = IF t = "cloud" THEN [fired EXCEPT ![list[p].id] = 0] ELSE fired
    BY <1>0, <1>5, ArmDoes
  <2>3. CASE fired'[id] = 0
    BY <2>3 DEF OnceAtMost
  <2>4. CASE fired'[id] # 0
    <3>1. fired'[id] = fired[id]
      BY <1>0, <2>2, <2>4
    <3> SUFFICES ASSUME fired[id] = 1, Spent(id) PROVE Spent(id)'
      BY <1>0, <1>2, <3>1, OnceStays
    <3>2. CASE Revises(p, Disabled(list[p])) /\ GoesOn(t, "build")
      <4>1. AllDone(list', id)
        BY <1>0, <3>2, DisabledDone, RevisesDone DEF Spent
      <4>2. DataSpent(id)'
        BY <3>2, GoesSpent DEF Spent
      <4> QED
        BY <2>1, <4>1, <4>2, SpentStays DEF Spent
    <3>3. CASE ~Expired(list[p]) /\ Revises(p, Armed(list[p])) /\ Returns(t)
      <4>1. list[p].id # id
        <5> SUFFICES ASSUME list[p].id = id PROVE FALSE
          OBVIOUS
        <5>1. Done(list[p]) /\ list[p].on /\ list[p].on \in BOOLEAN
          BY <1>0, <1>1, <2>1, <2>2 DEF Spent, AllDone, QuietFor, Enables, Mine, Records
        <5> QED
          BY <3>3, <5>1 DEF Done, Expired
      <4>2. Armed(list[p]).id = list[p].id
        BY <1>0, Revisions
      <4>3. AllDone(list', id)
        BY <3>3, <4>1, <4>2, RevisesDone DEF Spent
      <4>4. DataSpent(id)'
        BY <3>3, GoesSpent DEF Spent
      <4> QED
        BY <2>1, <4>3, <4>4, SpentStays DEF Spent
    <3> QED
      BY <2>2, <3>2, <3>3
  <2> QED
    BY <2>3, <2>4
<1>6. CASE Build(t)
  <2>1. UNCHANGED <<list, nvs, fired>> /\ MovesTo(t, "store", at[t].idx, at[t].after, Snapshot)
    BY <1>0, <1>6, BuildDoes DEF Build, memory, history
  <2>2. Spent(id) => NoFuture(Snapshot, id)
    BY DEF Spent, AllDone, Done, NoFuture, Snapshot
  <2>3. Spent(id) => Spent(id)'
    BY <2>1, <2>2, MovesSpent, SpentStays DEF Spent
  <2> QED
    BY <1>0, <1>2, <2>1, <2>3, OnceStays
<1>7. CASE Store(t)
  <2>1. UNCHANGED <<list, fired>> /\ nvs' = at[t].data /\ Returns(t)
    BY <1>0, <1>7, StoreDoes DEF Store, memory
  <2>2. Spent(id) => Spent(id)'
    BY <2>1, GoesSpent, SpentStays DEF Spent, DataSpent
  <2> QED
    BY <1>0, <1>2, <2>1, <2>2, OnceStays
<1> QED
  BY <1>3, <1>4, <1>5, <1>6, <1>7 DEF TaskStep

LEMMA WorkSpent ==
  ASSUME BaseInv, BaseInv', SpentInv, WorkStep \/ AfterAction \/ TakeTrigger \/ TakeSync
  PROVE  SpentInv'
<1> SUFFICES ASSUME ~overlap', NEW id \in Ids PROVE OnceAtMost(id)'
  BY DEF SpentInv
<1>0. /\ Types /\ "work" \in Tasks /\ fired' = fired /\ replay' = replay /\ nvs' = nvs
      /\ list \in Seq(Records) /\ \A k \in DOMAIN list : list[k] \in Records
  BY OnFacts
     DEF Tasks, WorkStep, DisableExpired, VisitOne, VisitNext, AfterAction, TakeTrigger, TakeSync
<1>1. ~overlap
  BY DEF WorkStep, DisableExpired, VisitOne, VisitNext, AfterAction, TakeTrigger, TakeSync, Overlaps
<1>2. dangling' # TRUE
  BY DEF BaseInv, SchedulesInv, OverlapInv
<1>3. OnceAtMost(id)
  BY <1>1 DEF SpentInv
<1> SUFFICES ASSUME Spent(id) PROVE Spent(id)'
  BY <1>0, <1>3, OnceStays
<1>4. AllDone(list', id)
  <2>1. CASE DisableExpired
    <3>1. PICK p \in DOMAIN list : Revises(p, Disabled(list[p]))
      BY <1>0, <1>2, <2>1, DisableExpiredDoes
    <3> QED
      BY <1>0, <3>1, DisabledDone, RevisesDone DEF Spent
  <2>2. CASE ~DisableExpired
    <3>1. list' = list
      BY <2>2 DEF WorkStep, VisitOne, VisitNext, AfterAction, TakeTrigger, TakeSync, memory
    <3> QED
      BY <3>1 DEF Spent
  <2> QED
    BY <2>1, <2>2
<1>5. DataSpent(id)'
  <2>1. CASE \E pc, i : GoesOn("work", pc) \/ Visits(i) \/ Rests("work")
    BY <1>0, <2>1, GoesSpent DEF Spent
  <2>2. CASE \E pc, i, after, data :
               MovesTo("work", pc, i, after, data) /\ data \in {<<>>, at["work"].data}
    <3>1. PICK pc, i, after, data :
            MovesTo("work", pc, i, after, data) /\ data \in {<<>>, at["work"].data}
      BY <2>2
    <3>2. NoFuture(data, id)
      BY <1>0, <3>1, NothingInFuture DEF Spent, DataSpent
    <3> QED
      BY <1>0, <3>1, <3>2, MovesSpent DEF Spent
  <2>3. CASE at' = at
    BY <2>3 DEF Spent, DataSpent
  <2>4. CASE TakeTrigger \/ TakeSync
    BY <1>0, <2>1, <2>2, <2>3, <2>4, TakeTriggerDoes, TakeSyncDoes
  <2>5. CASE AfterAction \/ DisableExpired
    BY <1>0, <2>1, <2>5, AfterActionDoes, DisableExpiredDoes
  <2>6. CASE VisitOne
    BY <1>0, <2>1, <2>2, <2>6, VisitOneDoes
  <2>7. CASE VisitNext
    BY <1>0, <2>1, <2>7, VisitNextDoes
  <2> QED
    BY <2>4, <2>5, <2>6, <2>7 DEF WorkStep
<1> QED
  BY <1>0, <1>4, <1>5, SpentStays DEF Spent

\* What has aged is not in the future.
LEMMA AgedSpent ==
  ASSUME NEW e \in Seq(Entries), NEW id, NEW x, NoFuture(e, id) \/ x = id
  PROVE  NoFuture(Aged(e, x), id)
<1>1. \A k \in DOMAIN e : e[k] \in Entries
  BY ElementOfSeq, LenProperties
<1>2. DOMAIN Aged(e, x) = DOMAIN e
  BY DEF Aged
<1> QED
  BY <1>1, <1>2 DEF NoFuture, Aged, Entries

LEMMA FireSpent ==
  ASSUME BaseInv, QuietInv, SpentInv, NEW p \in DOMAIN list, Fire(p)
  PROVE  SpentInv'
<1> SUFFICES ASSUME ~overlap', NEW id \in Ids PROVE OnceAtMost(id)'
  BY DEF SpentInv
<1>0. /\ Types /\ fired \in [Ids -> 0..2] /\ replay' = replay
      /\ list[p] \in Records /\ list[p].id \in Ids
      /\ \A j, k \in DOMAIN list : list[j].id = list[k].id => j = k
  BY OnFacts DEF Flags, Fire
<1>1. ~overlap
  BY DEF Fire
<1>2. OnceAtMost(id)
  BY <1>1 DEF SpentInv
<1>3. /\ list[p].armed /\ nvs' = Aged(nvs, list[p].id)
      /\ \A t \in Tasks : at'[t].data = Aged(at[t].data, list[p].id)
  BY <1>0, FireDoes
<1>4. Timed
  BY <1>1 DEF QuietInv, QuietFor
<1> DEFINE r == [list[p] EXCEPT !.ts = IF @ = "future" THEN "past" ELSE @,
                                !.armed = (list[p].kind = "dated" /\ ~over)]
<1>5. Revises(p, r)
  BY <1>0, FireDoes
<1>6. ASSUME (NoFuture(nvs, id) /\ DataSpent(id)) \/ list[p].id = id
      PROVE  NoFuture(nvs', id) /\ DataSpent(id)'
  <2>1. nvs \in Seq(Entries) /\ \A t \in Tasks : at[t].data \in Seq(Entries)
    BY <1>0 DEF Types, Positions
  <2>2. PICK x : x = list[p].id
    OBVIOUS
  <2>3. NoFuture(Aged(nvs, x), id) /\ \A t \in Tasks : NoFuture(Aged(at[t].data, x), id)
    BY <1>6, <2>1, <2>2, AgedSpent DEF DataSpent
  <2>4. nvs' = Aged(nvs, x) /\ \A t \in Tasks : at'[t].data = Aged(at[t].data, x)
    BY <1>3, <2>2
  <2> QED
    BY <2>3, <2>4 DEF DataSpent
<1>7. CASE list[p].id # id
  <2>1. fired'[id] = fired[id]
    BY <1>0, <1>7 DEF Fire
  <2>2. Spent(id) => Spent(id)'
    <3> SUFFICES ASSUME Spent(id) PROVE Spent(id)'
      OBVIOUS
    <3>1. r.id # id
      BY <1>0, <1>7 DEF Records
    <3>2. AllDone(list', id)
      <4> HIDE DEF r
      <4> QED
        BY <1>5, <3>1, RevisesDone DEF Spent
    <3> QED
      BY <1>6, <3>2, SpentStays DEF Spent
  <2> QED
    BY <1>0, <1>2, <2>1, <2>2, OnceStays
<1>8. CASE list[p].id = id
  <2>1. fired'[id] = IF list[p].kind = "once" /\ fired[id] < 2 THEN fired[id] + 1 ELSE fired[id]
    BY <1>0, <1>8 DEF Fire
  <2>2. ~Spent(id)
    BY <1>3, <1>8 DEF Spent, AllDone, Done
  <2>3. CASE id \in replay
    BY <1>0, <2>3 DEF OnceAtMost
  <2>4. CASE fired[id] = 0 /\ list[p].kind # "once"
    BY <2>1, <2>4 DEF OnceAtMost
  <2>5. CASE fired[id] = 0 /\ list[p].kind = "once"
    <3>1. list[p].on /\ list[p].ts = "future"
      BY <1>3, <1>4, <2>5 DEF Timed
    <3>2. Done(r) /\ DOMAIN list' = DOMAIN list
      BY <1>0, <1>5, <2>5, <3>1 DEF Done, Records, Revises
    <3>3. AllDone(list', id)
      <4> SUFFICES ASSUME NEW k \in DOMAIN list, list'[k].id = id PROVE Done(list'[k])
        BY <3>2 DEF AllDone
      <4>1. k = p
        BY <1>0, <1>5, <1>8 DEF Revises
      <4> HIDE DEF r
      <4> QED
        BY <1>5, <3>2, <4>1 DEF Revises
    <3>4. Spent(id)'
      BY <1>6, <1>8, <3>3, SpentStays
    <3> QED
      BY <2>1, <2>5, <3>4 DEF OnceAtMost
  <2> QED
    BY <1>2, <2>2, <2>3, <2>4, <2>5 DEF OnceAtMost
<1> QED
  BY <1>7, <1>8

LEMMA TimerStepSpent == ASSUME BaseInv, QuietInv, SpentInv, TimerStep PROVE SpentInv'
<1>1. CASE ClockSet \/ CalendarPasses \/ SyncTimer
  <2>1. UNCHANGED <<list, nvs, at, fired, replay>>
    BY <1>1 DEF ClockSet, CalendarPasses, SyncTimer, memory, history
  <2>2. overlap' = overlap
    BY <1>1 DEF ClockSet, CalendarPasses, SyncTimer, history
  <2> QED
    BY <2>1, <2>2 DEF SpentInv, OnceAtMost, Spent, DataSpent
<1> QED
  BY <1>1, FireSpent DEF TimerStep

LEMMA RequestSpent == ASSUME BaseInv, SpentInv, Request PROVE SpentInv'
<1> SUFFICES ASSUME ~overlap', NEW id \in Ids PROVE OnceAtMost(id)'
  BY DEF SpentInv
<1>0. /\ Types /\ "cloud" \in Tasks /\ DOMAIN list = 1..Len(list) /\ Len(list) \in Nat
      /\ \A k \in DOMAIN list : list[k] \in Records
      /\ fired \in [Ids -> 0..2]
  BY OnFacts DEF Tasks, Flags
<1>1. Overlaps("cloud") /\ nvs' = nvs
  BY DEF Request, Add, Edit, Remove, Enable, Disable, Reject, Begin
<1>2. OnceAtMost(id)
  BY <1>1 DEF Overlaps, SpentInv
<1>3. ASSUME NEW x \in Ids, Wanted(x) \/ Unasked
      PROVE  IF Wanted(x) /\ x = id THEN fired'[id] = 0
             ELSE fired'[id] = fired[id] /\ (id \in replay => id \in replay')
  BY <1>0, <1>3 DEF Wanted, Unasked
<1>4. ASSUME NEW x \in Ids, Wanted(x) \/ Unasked,
             Spent(id) /\ ~(Wanted(x) /\ x = id) => AllDone(list', id),
             \E i : ToReport \/ ToEnable(i)
      PROVE  OnceAtMost(id)'
  <2>1. CASE Wanted(x) /\ x = id
    BY <1>3, <1>4, <2>1 DEF OnceAtMost
  <2>2. CASE ~(Wanted(x) /\ x = id)
    <3>1. fired'[id] = fired[id] /\ (id \in replay => id \in replay')
      BY <1>3, <1>4, <2>2
    <3>2. Spent(id) => DataSpent(id)'
      BY <1>0, <1>4, NothingInFuture, MovesSpent DEF Spent, ToReport, ToEnable
    <3>3. Spent(id) => Spent(id)'
      BY <1>1, <1>4, <2>2, <3>2, SpentStays DEF Spent
    <3> QED
      BY <1>2, <3>1, <3>3, OnceStays
  <2> QED
    BY <2>1, <2>2
<1>5. ASSUME list' = list PROVE Spent(id) => AllDone(list', id)
  BY <1>5 DEF Spent
<1>6. ASSUME NEW x \in Ids, NEW kind \in Kinds, Add(x, kind) PROVE OnceAtMost(id)'
  <2>1. CASE Grows(New(x, kind)) /\ ToEnable(index) /\ Wanted(x)
    <3>1. New(x, kind).id = x
      BY DEF New
    <3>2. ASSUME Spent(id), x # id PROVE AllDone(list', id)
      BY <1>0, <2>1, <3>1, <3>2 DEF Grows, AllDone, Spent
    <3> QED
      BY <1>4, <2>1, <3>2
  <2>2. CASE list' = list /\ ToReport /\ Unasked
    BY <1>4, <1>5, <2>2
  <2> QED
    BY <1>0, <1>6, <2>1, <2>2, AddDoes
<1>7. ASSUME NEW x \in Ids, NEW kind \in Kinds, Edit(x, kind) PROVE OnceAtMost(id)'
  <2>1. PICK p \in DOMAIN list :
          /\ list[p].id = x
          /\ \/ /\ list[p].on /\ Revises(p, Disabled([list[p] EXCEPT !.kind = kind]))
                /\ ToEnable(list[p].idx) /\ Wanted(x)
             \/ /\ ~list[p].on /\ Revises(p, [list[p] EXCEPT !.kind = kind, !.ts = "none"])
                /\ ToReport /\ Unasked
    BY <1>0, <1>7, EditDoes
  <2>2. CASE /\ Revises(p, Disabled([list[p] EXCEPT !.kind = kind]))
             /\ ToEnable(list[p].idx) /\ Wanted(x)
    <3>1. [list[p] EXCEPT !.kind = kind] \in Records
      BY <1>0 DEF Records
    <3>2. Done(Disabled([list[p] EXCEPT !.kind = kind]))
      BY <3>1, DisabledDone
    <3>3. Spent(id) => AllDone(list', id)
      BY <2>2, <3>2, RevisesDone DEF Spent
    <3> QED
      BY <1>4, <2>2, <3>3
  <2>3. CASE /\ ~list[p].on /\ Revises(p, [list[p] EXCEPT !.kind = kind, !.ts = "none"])
             /\ ToReport /\ Unasked
    <3> DEFINE n == [list[p] EXCEPT !.kind = kind, !.ts = "none"]
    <3>1. n.id = list[p].id /\ n.armed = list[p].armed /\ n.ts = "none" /\ n.on = list[p].on
          /\ list[p].on \in BOOLEAN
      BY <1>0 DEF Records
    <3>2. Spent(id) /\ n.id = id => Done(n)
      BY <2>3, <3>1 DEF Spent, AllDone, Done
    <3>3. Spent(id) => AllDone(list', id)
      <4> HIDE DEF n
      <4>1. Revises(p, n)
        BY <2>3 DEF n
      <4> QED
        BY <3>2, <4>1, RevisesDone DEF Spent
    <3> QED
      BY <1>4, <2>3, <3>3
  <2> QED
    BY <2>1, <2>2, <2>3
<1>8. ASSUME NEW x \in Ids, Remove(x) PROVE OnceAtMost(id)'
  <2>1. PICK p \in Nat : Shrinks(p)
    BY <1>0, <1>8, RemoveDoes
  <2>2. Spent(id) => AllDone(list', id)
    BY <2>1 DEF Shrinks, AllDone, Spent
  <2> QED
    BY <1>0, <1>4, <1>8, <2>2, RemoveDoes
<1>9. ASSUME NEW x \in Ids, Enable(x) PROVE OnceAtMost(id)'
  <2>1. list' = list
    BY <1>9 DEF Enable, memory
  <2> QED
    BY <1>0, <1>4, <1>5, <1>9, <2>1, EnableDoes
<1>10. ASSUME NEW x \in Ids, Disable(x) PROVE OnceAtMost(id)'
  <2>1. PICK p \in DOMAIN list : Revises(p, Disabled(list[p]))
    BY <1>0, <1>10, DisableDoes
  <2>2. Spent(id) => AllDone(list', id)
    BY <1>0, <2>1, DisabledDone, RevisesDone DEF Spent
  <2> QED
    BY <1>0, <1>4, <1>10, <2>2, DisableDoes
<1>11. CASE Reject
  <2>1. list' = list
    BY <1>11 DEF Reject, memory
  <2> QED
    BY <1>0, <1>4, <1>5, <1>11, <2>1, RejectDoes
<1> QED
  BY <1>6, <1>7, <1>8, <1>9, <1>10, <1>11 DEF Request

\* What NVS has no time to come for is read back as done.
LEMMA ReadDone ==
  ASSUME NEW l, NEW e, NEW known, ListReads(l, e, known), NEW k \in DOMAIN l,
         e[k].ts # "future", e[k].on => e[k].ts # "none", e[k].kind = "dated" => e[k].ts = "none"
  PROVE  Done(l[k])
<1>1. ReadAs(e[k], l[k], known) /\ k \in DOMAIN e /\ e[k] \in Entries
  BY DEF ListReads
<1>2. e[k].kind \in {"once", "dated"} /\ e[k].ts \in {"none", "future", "past"} /\ e[k].on \in BOOLEAN
  BY <1>1 DEF Entries, Kinds, Times
<1>3. CASE e[k].on
  <2>1. e[k].kind = "once" /\ e[k].ts = "past" /\ Expired(e[k])
    BY <1>2, <1>3 DEF Expired
  <2>2. \/ l[k].on = FALSE /\ l[k].armed = FALSE /\ l[k].ts = "none"
        \/ l[k].kind = e[k].kind /\ l[k].armed = FALSE /\ l[k].ts = e[k].ts
    BY <1>1, <2>1, Zenon DEF ReadAs
  <2> QED
    BY <2>1, <2>2 DEF Done
<1>4. CASE ~e[k].on
  <2>1. l[k].on = e[k].on /\ l[k].armed = FALSE /\ l[k].ts = e[k].ts
    BY <1>1, <1>4, Zenon DEF ReadAs
  <2> QED
    BY <1>2, <1>4, <2>1 DEF Done
<1> QED
  BY <1>3, <1>4

LEMMA BootSpent == ASSUME BaseInv, BaseInv', SpentInv, Boot PROVE SpentInv'
<1> SUFFICES ASSUME NEW id \in Ids PROVE OnceAtMost(id)'
  BY DEF SpentInv
<1>1. Passed(nvs, nvs') /\ ListReads(list', nvs', clock') /\ AllRest' /\ fired' = fired
  BY BootDoes DEF BaseInv, SchedulesInv, Boot
<1>2. CASE id \in replay'
  BY <1>2 DEF OnceAtMost
<1>3. CASE fired[id] = 0
  BY <1>1, <1>3 DEF OnceAtMost
<1>4. CASE id \notin replay' /\ fired[id] # 0
  <2>1. fired[id] \in 0..2
    BY DEF BaseInv, Flags
  <2>2. ~overlap
    BY <1>4, <2>1 DEF Boot
  <2>3. id \notin replay /\ \A k \in DOMAIN nvs : nvs[k].id = id => ~(nvs[k].on /\ nvs[k].ts = "none")
    BY <1>4, <2>1 DEF Boot
  <2>4. fired[id] = 1 /\ NoFuture(nvs, id)
    BY <1>4, <2>2, <2>3 DEF SpentInv, OnceAtMost, Spent
  <2>5. NoFuture(nvs', id)
    BY <1>1, <2>4 DEF NoFuture, Passed
  <2>6. AllDone(list', id)
    <3> SUFFICES ASSUME NEW k \in DOMAIN list', list'[k].id = id PROVE Done(list'[k])
      BY DEF AllDone
    <3>1. k \in DOMAIN nvs' /\ k \in DOMAIN nvs /\ nvs'[k].id = id
      <4>1. nvs'[k].id = list'[k].id
        BY <1>1, ReadTimed
      <4>2. DOMAIN list' = DOMAIN nvs' /\ DOMAIN nvs' = DOMAIN nvs
        BY <1>1 DEF ListReads, Passed
      <4> QED
        BY <4>1, <4>2
    <3>2. nvs'[k].ts # "future"
      BY <2>5, <3>1 DEF NoFuture
    <3>3. nvs'[k].on => nvs'[k].ts # "none"
      <4>1. nvs[k].id = id /\ nvs'[k].on = nvs[k].on
            /\ (nvs'[k].ts = nvs[k].ts \/ nvs'[k].ts = "past")
        BY <1>1, <3>1 DEF Passed
      <4> QED
        BY <2>3, <3>1, <4>1
    <3>4. nvs'[k].kind = "dated" => nvs'[k].ts = "none"
      BY <3>1 DEF BaseInv, Written, WellFormed
    <3> QED
      BY <1>1, <3>2, <3>3, <3>4, ReadDone
  <2>7. DataSpent(id)'
    BY <1>1, NothingInFuture DEF AllRest, DataSpent
  <2>8. Spent(id)'
    BY <2>5, <2>6, <2>7, SpentStays
  <2> QED
    BY <1>1, <2>4, <2>8 DEF OnceAtMost
<1> QED
  BY <1>2, <1>3, <1>4

LEMMA SpentInvInit == Init => SpentInv
BY DEF Init, SchedulesInit, SpentInv, OnceAtMost

LEMMA SpentInvStep == BaseInv /\ BaseInv' /\ QuietInv /\ SpentInv /\ [Next]_vars => SpentInv'
<1> SUFFICES ASSUME BaseInv, BaseInv', QuietInv, SpentInv, [Next]_vars PROVE SpentInv'
  OBVIOUS
<1>1. CASE ScheduleRequest
  BY <1>1, RequestSpent DEF ScheduleRequest
<1>2. CASE TakeTrigger \/ TakeSync \/ TriggerActed \/ WorkStep
  BY <1>2, WorkSpent DEF TriggerActed
<1>3. CASE Reboot
  BY <1>3, BootSpent DEF Reboot
<1>4. CASE TimerStep \/ \E t \in Tasks : TaskStep(t)
  BY <1>4, TimerStepSpent, TaskStepSpent
<1>5. CASE SceneRequest \/ UNCHANGED schedules
  <2>1. UNCHANGED <<list, nvs, at, fired, replay>>
    BY <1>5 DEF SceneRequest, schedules, memory, history
  <2>2. overlap' = overlap
    BY <1>5 DEF SceneRequest, schedules, history
  <2> QED
    BY <2>1, <2>2 DEF SpentInv, OnceAtMost, Spent, DataSpent
<1> QED
  BY <1>1, <1>2, <1>3, <1>4, <1>5 DEF Next, Trigger, vars

\* A schedule that runs once fires at most once for each time it was enabled, over
\* any number of reboots, unless NVS had no time for it when the node went down or
\* a request crossed the work queue task.  (esp_rmaker_schedule.c: the timestamp
\* that esp_schedule gives when it starts a timer is reported, kept in NVS and read
\* back, and esp_rmaker_schedule_is_expired tells that it has passed.)
THEOREM AutomationOneShotOnce == Spec => []OneShotOnce
<1>1. SpentInv => OneShotOnce
  <2> SUFFICES ASSUME SpentInv, NEW id \in Ids, fired[id] > 1 PROVE id \in replay \/ overlap
    BY DEF OneShotOnce
  <2> QED
    BY DEF SpentInv, OnceAtMost
<1>2. Init => BaseInv /\ QuietInv /\ SpentInv
  BY BaseInvInit, InitQuiet, SpentInvInit
<1>3. BaseInv /\ QuietInv /\ SpentInv /\ [Next]_vars => BaseInv' /\ QuietInv' /\ SpentInv'
  BY BaseInvStep, QuietInvStep, SpentInvStep
<1> QED
  BY <1>1, <1>2, <1>3, PTL DEF Spec
=============================================================================
