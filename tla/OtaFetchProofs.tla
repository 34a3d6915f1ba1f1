--------------------------- MODULE OtaFetchProofs ---------------------------
(***************************************************************************)
(* Proofs about OtaFetch: fetch_in_progress is never left behind, and      *)
(* attempts do not multiply, for any number of message ids, timers,        *)
(* occasions to fetch and failures.                                        *)
(***************************************************************************)
EXTENDS OtaFetch, FiniteSetTheorems, TLAPS

-----------------------------------------------------------------------------
(* The invariant *)

States == {"free", "created", "running", "stopping", "expired"}
Places == {"idle", "publish", "track", "register", "create", "start", "fail", "timeout"}

\* What the variables hold; that the counters stay below their bounds follows
\* from AttemptInv.
FetchTypes ==
  /\ expected \in MsgIds \cup {None} /\ retryCount \in Nat /\ cur \in Timers \cup {None}
  /\ pc \in Places /\ msg \in MsgIds \cup {None}

FlagTypes ==
  /\ inProgress \in BOOLEAN /\ handler \in BOOLEAN /\ auto \in BOOLEAN /\ enabled \in BOOLEAN
  /\ conn \in BOOLEAN /\ acked \in BOOLEAN

TimerTypes == timer \in [Timers -> States]

NetworkTypes == flight \subseteq MsgIds /\ events \in Seq(MsgIds)

CountTypes == pending \in Nat /\ asked \in 0..MaxAsked /\ faults \in 0..MaxFaults

\* Between callbacks a fetch in progress has its timer running; the timeout has
\* taken the flag away.
OwnerInv ==
  /\ pc = "idle" /\ inProgress => cur \in Timers /\ timer[cur] = "running"
  /\ pc = "timeout" => ~inProgress

\* Every fetch timer, every timeout that may still come and the callback have an
\* occasion of their own.
AttemptInv == Attempts <= asked

FetchInv ==
  /\ FetchTypes /\ FlagTypes /\ TimerTypes /\ NetworkTypes /\ CountTypes
  /\ OwnerInv /\ AttemptInv

-----------------------------------------------------------------------------
(* Timers that may still expire *)

\* There are finitely many.
LEMMA ArmedFinite == IsFiniteSet(Armed) /\ Cardinality(Armed) \in Nat
  BY FetchAssumption, FS_Subset, FS_CardinalityType DEF Armed

\* Fewer timers, or the same.
LEMMA FewerArmed ==
  ASSUME Armed' \subseteq Armed
  PROVE  Cardinality(Armed') <= Cardinality(Armed) /\ Cardinality(Armed') \in Nat
  BY ArmedFinite, FS_Subset, FS_CardinalityType

\* One of them expires or is stopped for good.
LEMMA OneDisarmed ==
  ASSUME NEW t \in Armed, Armed' = Armed \ {t}
  PROVE  Cardinality(Armed') = Cardinality(Armed) - 1 /\ Cardinality(Armed') \in Nat
  BY ArmedFinite, FS_RemoveElement, FS_CardinalityType

\* Another one is started.
LEMMA OneArmed ==
  ASSUME NEW t \in Timers, Armed' \subseteq Armed \cup {t}
  PROVE  Cardinality(Armed') <= Cardinality(Armed) + 1 /\ Cardinality(Armed') \in Nat
<1>1. /\ IsFiniteSet(Armed \cup {t})
      /\ Cardinality(Armed \cup {t}) = IF t \in Armed THEN Cardinality(Armed) ELSE Cardinality(Armed) + 1
  BY ArmedFinite, FS_AddElement
<1>2. /\ IsFiniteSet(Armed') /\ Cardinality(Armed') <= Cardinality(Armed \cup {t})
  BY <1>1, FS_Subset
<1> QED  BY <1>1, <1>2, FS_CardinalityType

\* ota_fetch_cleanup lets no timer expire that could not before.
LEMMA CleanupTimers ==
  ASSUME TimerTypes, Cleanup
  PROVE  TimerTypes' /\ Armed' \subseteq Armed
<1>1. CASE cur \notin Timers
  <2>1. timer' = timer  BY <1>1 DEF Cleanup, TimerTypes
  <2> QED  BY <2>1 DEF TimerTypes, Armed
<1>2. CASE cur \in Timers
  <2>1. timer' = [timer EXCEPT ![cur] = IF timer[cur] = "running" THEN "stopping" ELSE "free"]
    BY <1>2, FetchAssumption DEF Cleanup
  <2> QED  BY <1>2, <2>1 DEF TimerTypes, States, Armed
<1> QED  BY <1>1, <1>2

\* It clears the state.
LEMMA CleanupState ==
  ASSUME Cleanup
  PROVE  expected' = None /\ retryCount' \in Nat /\ inProgress' = FALSE /\ handler' = FALSE /\ cur' = None
  BY DEF Cleanup

-----------------------------------------------------------------------------
(* Every action keeps the invariant *)

LEMMA FetchKeeps ==
  ASSUME FetchInv, FetchTimerFires \/ AutoFetchFires
  PROVE  FetchInv'
<1> USE DEF FetchTimerFires, AutoFetchFires, FetchBegin, Ask, Fault, fetchState, network, counts
<1>1. FetchTypes'
  BY DEF FetchInv, FetchTypes, Places
<1>2. FlagTypes'
  BY DEF FetchInv, FlagTypes
<1>3. TimerTypes'
  BY DEF FetchInv, TimerTypes
<1>4. NetworkTypes'
  BY DEF FetchInv, NetworkTypes
<1>5. CountTypes'
  BY FetchAssumption DEF FetchInv, CountTypes
<1>6. OwnerInv'
  BY DEF FetchInv, OwnerInv
<1>7. AttemptInv'
  <2>1. Armed' \subseteq Armed  BY DEF Armed
  <2> QED  BY <2>1, FewerArmed, ArmedFinite DEF FetchInv, CountTypes, AttemptInv, Attempts
<1> QED  BY <1>1, <1>2, <1>3, <1>4, <1>5, <1>6, <1>7 DEF FetchInv

LEMMA PublishKeeps ==
  ASSUME FetchInv, Publish
  PROVE  FetchInv'
<1> USE DEF Publish, fetchState, counts
<1>1. FetchTypes'
  BY DEF FetchInv, FetchTypes, Places
<1>2. FlagTypes'
  BY DEF FetchInv, FlagTypes
<1>3. TimerTypes'
  BY DEF FetchInv, TimerTypes
<1>4. NetworkTypes'
  BY DEF FetchInv, NetworkTypes
<1>5. CountTypes'
  BY DEF FetchInv, CountTypes
<1>6. OwnerInv'
  BY DEF OwnerInv
<1>7. AttemptInv'
  <2>1. Armed' \subseteq Armed  BY DEF Armed
  <2> QED  BY <2>1, FewerArmed, ArmedFinite DEF FetchInv, CountTypes, AttemptInv, Attempts
<1> QED  BY <1>1, <1>2, <1>3, <1>4, <1>5, <1>6, <1>7 DEF FetchInv

LEMMA TrackKeeps ==
  ASSUME FetchInv, Track
  PROVE  FetchInv'
<1> USE DEF Track, network, counts
<1>1. FetchTypes'
  BY DEF FetchInv, FetchTypes, Places
<1>2. FlagTypes'
  BY DEF FetchInv, FlagTypes
<1>3. TimerTypes'
  BY DEF FetchInv, TimerTypes
<1>4. NetworkTypes'
  BY DEF FetchInv, NetworkTypes
<1>5. CountTypes'
  BY DEF FetchInv, CountTypes
<1>6. OwnerInv'
  BY DEF OwnerInv
<1>7. AttemptInv'
  <2>1. Armed' \subseteq Armed  BY DEF Armed
  <2> QED  BY <2>1, FewerArmed, ArmedFinite DEF FetchInv, CountTypes, AttemptInv, Attempts
<1> QED  BY <1>1, <1>2, <1>3, <1>4, <1>5, <1>6, <1>7 DEF FetchInv

LEMMA RegisterKeeps ==
  ASSUME FetchInv, Register
  PROVE  FetchInv'
<1>a. TimerTypes' /\ Armed' \subseteq Armed
  BY CleanupTimers DEF Register, FetchInv, TimerTypes, Armed
<1> USE DEF Register, Fault, network
<1>1. FetchTypes'
  BY CleanupState DEF FetchInv, FetchTypes, Places
<1>2. FlagTypes'
  BY CleanupState DEF FetchInv, FlagTypes
<1>3. TimerTypes'
  BY <1>a
<1>4. NetworkTypes'
  BY DEF FetchInv, NetworkTypes
<1>5. CountTypes'
  BY FetchAssumption DEF FetchInv, CountTypes
<1>6. OwnerInv'
  BY DEF OwnerInv
<1>7. AttemptInv'
  BY <1>a, FewerArmed, ArmedFinite DEF FetchInv, CountTypes, AttemptInv, Attempts
<1> QED  BY <1>1, <1>2, <1>3, <1>4, <1>5, <1>6, <1>7 DEF FetchInv

LEMMA CreateKeeps ==
  ASSUME FetchInv, CreateTimer
  PROVE  FetchInv'
<1>a. TimerTypes' /\ Armed' \subseteq Armed
  <2>1. CASE Cleanup  BY <2>1, CleanupTimers DEF FetchInv
  <2>2. CASE ~Cleanup
    BY <2>2 DEF CreateTimer, FetchInv, TimerTypes, States, Armed
  <2> QED  BY <2>1, <2>2
<1> USE DEF CreateTimer, Fault, network
<1>1. FetchTypes'
  BY CleanupState DEF FetchInv, FetchTypes, Places
<1>2. FlagTypes'
  BY CleanupState DEF FetchInv, FlagTypes
<1>3. TimerTypes'
  BY <1>a
<1>4. NetworkTypes'
  BY DEF FetchInv, NetworkTypes
<1>5. CountTypes'
  BY FetchAssumption DEF FetchInv, CountTypes
<1>6. OwnerInv'
  BY DEF OwnerInv
<1>7. AttemptInv'
  BY <1>a, FewerArmed, ArmedFinite DEF FetchInv, CountTypes, AttemptInv, Attempts
<1> QED  BY <1>1, <1>2, <1>3, <1>4, <1>5, <1>6, <1>7 DEF FetchInv

LEMMA StartKeeps ==
  ASSUME FetchInv, StartTimer
  PROVE  FetchInv'
<1>a. cur \in Timers  BY DEF StartTimer, FetchInv, FetchTypes
<1>b. \/ Cleanup /\ pc' = "fail" /\ TimerTypes' /\ Armed' \subseteq Armed
      \/ /\ UNCHANGED fetchState /\ pc' = "idle" /\ TimerTypes'
         /\ timer'[cur] = "running" /\ Armed' \subseteq Armed \cup {cur}
  BY <1>a, CleanupTimers DEF StartTimer, FetchInv, TimerTypes, States, Armed
<1> USE DEF StartTimer, Fault, fetchState, network
<1>1. FetchTypes'
  BY CleanupState DEF FetchInv, FetchTypes, Places
<1>2. FlagTypes'
  BY CleanupState DEF FetchInv, FlagTypes
<1>3. TimerTypes'
  BY <1>b
<1>4. NetworkTypes'
  BY DEF FetchInv, NetworkTypes
<1>5. CountTypes'
  BY FetchAssumption DEF FetchInv, CountTypes
<1>6. OwnerInv'
  BY <1>a, <1>b DEF OwnerInv
<1>7. AttemptInv'
  BY <1>a, <1>b, FewerArmed, OneArmed, ArmedFinite DEF FetchInv, CountTypes, AttemptInv, Attempts
<1> QED  BY <1>1, <1>2, <1>3, <1>4, <1>5, <1>6, <1>7 DEF FetchInv

LEMMA StartNullKeeps ==
  ASSUME FetchInv, StartNull
  PROVE  FetchInv'
<1> USE DEF StartNull
<1>1. FetchTypes'
  BY DEF FetchTypes, Places
<1>2. FlagTypes'
  BY DEF FlagTypes
<1>3. TimerTypes'
  BY DEF TimerTypes, States
<1>4. NetworkTypes'
  BY DEF NetworkTypes
<1>5. CountTypes'
  BY FetchAssumption DEF FetchInv, CountTypes
<1>6. OwnerInv'
  BY DEF OwnerInv
<1>7. AttemptInv'
  <2>1. Armed' = {}  BY DEF Armed
  <2> QED  BY <2>1, FS_EmptySet DEF Attempts, AttemptInv
<1> QED  BY <1>1, <1>2, <1>3, <1>4, <1>5, <1>6, <1>7 DEF FetchInv

LEMMA FailedKeeps ==
  ASSUME FetchInv, FetchFailed
  PROVE  FetchInv'
<1>a. TimerTypes' /\ Armed' \subseteq Armed
  BY CleanupTimers DEF FetchFailed, RetryLater, GiveUp, FetchInv, TimerTypes, Armed
<1>b. retryCount' \in Nat
  <2>1. CASE Cleanup  BY <2>1, CleanupState
  <2>2. CASE ~Cleanup  BY <2>2 DEF FetchFailed, RetryLater, GiveUp
  <2> QED  BY <2>1, <2>2
<1> USE DEF FetchFailed, RetryLater, GiveUp, Arm, Fault, network
<1>1. FetchTypes'
  BY <1>b, CleanupState DEF FetchInv, FetchTypes, Places
<1>2. FlagTypes'
  BY CleanupState DEF FetchInv, FlagTypes
<1>3. TimerTypes'
  BY <1>a
<1>4. NetworkTypes'
  BY DEF FetchInv, NetworkTypes
<1>5. CountTypes'
  BY FetchAssumption DEF FetchInv, CountTypes
<1>6. OwnerInv'
  BY DEF OwnerInv, Cleanup
<1>7. AttemptInv'
  BY <1>a, FewerArmed, ArmedFinite DEF FetchInv, CountTypes, AttemptInv, Attempts
<1> QED  BY <1>1, <1>2, <1>3, <1>4, <1>5, <1>6, <1>7 DEF FetchInv

LEMMA TimeoutKeeps ==
  ASSUME FetchInv, TimeoutRetries
  PROVE  FetchInv'
<1>a. TimerTypes' /\ Armed' \subseteq Armed
  BY CleanupTimers DEF TimeoutRetries, RetryLater, GiveUp, FetchInv, TimerTypes, Armed
<1>b. retryCount' \in Nat
  <2>1. CASE Cleanup  BY <2>1, CleanupState
  <2>2. CASE ~Cleanup  BY <2>2 DEF TimeoutRetries, RetryLater, GiveUp, FetchInv, FetchTypes
  <2> QED  BY <2>1, <2>2
<1> USE DEF TimeoutRetries, RetryLater, GiveUp, Arm, Fault, network
<1>1. FetchTypes'
  BY <1>b, CleanupState DEF FetchInv, FetchTypes, Places
<1>2. FlagTypes'
  BY CleanupState DEF FetchInv, FlagTypes
<1>3. TimerTypes'
  BY <1>a
<1>4. NetworkTypes'
  BY DEF FetchInv, NetworkTypes
<1>5. CountTypes'
  BY FetchAssumption DEF FetchInv, CountTypes
<1>6. OwnerInv'
  BY DEF FetchInv, OwnerInv, Cleanup
<1>7. AttemptInv'
  BY <1>a, FewerArmed, ArmedFinite DEF FetchInv, CountTypes, AttemptInv, Attempts
<1> QED  BY <1>1, <1>2, <1>3, <1>4, <1>5, <1>6, <1>7 DEF FetchInv

LEMMA ExpiredKeeps ==
  ASSUME FetchInv, NEW t \in Timers, TimeoutFires(t)
  PROVE  FetchInv'
<1>a. t \in Armed /\ Armed' = Armed \ {t}  BY DEF TimeoutFires, FetchInv, TimerTypes, Armed
<1> USE DEF TimeoutFires, network, counts
<1>1. FetchTypes'
  BY DEF FetchInv, FetchTypes, Places
<1>2. FlagTypes'
  BY DEF FetchInv, FlagTypes
<1>3. TimerTypes'
  BY DEF FetchInv, TimerTypes, States
<1>4. NetworkTypes'
  BY DEF FetchInv, NetworkTypes
<1>5. CountTypes'
  BY DEF FetchInv, CountTypes
<1>6. OwnerInv'
  BY DEF OwnerInv
<1>7. AttemptInv'
  BY <1>a, OneDisarmed, ArmedFinite DEF FetchInv, FetchTypes, CountTypes, AttemptInv, Attempts
<1> QED  BY <1>1, <1>2, <1>3, <1>4, <1>5, <1>6, <1>7 DEF FetchInv

LEMMA StoppedKeeps ==
  ASSUME FetchInv, NEW t \in Timers, TimerStopped(t)
  PROVE  FetchInv'
<1>a. t \in Armed /\ Armed' = Armed \ {t}  BY DEF TimerStopped, FetchInv, TimerTypes, Armed
<1> USE DEF TimerStopped, fetchState, network, counts
<1>1. FetchTypes'
  BY DEF FetchInv, FetchTypes
<1>2. FlagTypes'
  BY DEF FetchInv, FlagTypes
<1>3. TimerTypes'
  BY DEF FetchInv, TimerTypes, States
<1>4. NetworkTypes'
  BY DEF FetchInv, NetworkTypes
<1>5. CountTypes'
  BY DEF FetchInv, CountTypes
<1>6. OwnerInv'
  BY DEF FetchInv, OwnerInv
<1>7. AttemptInv'
  BY <1>a, OneDisarmed, ArmedFinite DEF FetchInv, FetchTypes, CountTypes, AttemptInv, Attempts
<1> QED  BY <1>1, <1>2, <1>3, <1>4, <1>5, <1>6, <1>7 DEF FetchInv

LEMMA DispatchKeeps ==
  ASSUME FetchInv, Dispatch
  PROVE  FetchInv'
<1>a. TimerTypes' /\ Armed' \subseteq Armed
  BY CleanupTimers DEF Dispatch, FetchInv, TimerTypes, Armed
<1> USE DEF Dispatch, fetchState
<1>1. FetchTypes'
  BY CleanupState DEF FetchInv, FetchTypes
<1>2. FlagTypes'
  BY CleanupState DEF FetchInv, FlagTypes
<1>3. TimerTypes'
  BY <1>a
<1>4. NetworkTypes'
  BY DEF FetchInv, NetworkTypes
<1>5. CountTypes'
  BY DEF FetchInv, CountTypes
<1>6. OwnerInv'
  BY DEF FetchInv, OwnerInv, Cleanup
<1>7. AttemptInv'
  BY <1>a, FewerArmed, ArmedFinite DEF FetchInv, CountTypes, AttemptInv, Attempts
<1> QED  BY <1>1, <1>2, <1>3, <1>4, <1>5, <1>6, <1>7 DEF FetchInv

LEMMA AskedKeeps ==
  ASSUME FetchInv, WorkFn \/ FetchWithDelay
  PROVE  FetchInv'
<1> USE DEF WorkFn, FetchWithDelay, Ask, Fault, fetchState, network
<1>1. FetchTypes'
  BY DEF FetchInv, FetchTypes
<1>2. FlagTypes'
  BY FetchAssumption DEF FetchInv, FlagTypes
<1>3. TimerTypes'
  BY DEF FetchInv, TimerTypes
<1>4. NetworkTypes'
  BY DEF FetchInv, NetworkTypes
<1>5. CountTypes'
  BY FetchAssumption DEF FetchInv, CountTypes
<1>6. OwnerInv'
  BY DEF FetchInv, OwnerInv
<1>7. AttemptInv'
  <2>1. Armed' \subseteq Armed  BY DEF Armed
  <2> QED  BY <2>1, FewerArmed, ArmedFinite DEF FetchInv, CountTypes, AttemptInv, Attempts
<1> QED  BY <1>1, <1>2, <1>3, <1>4, <1>5, <1>6, <1>7 DEF FetchInv

LEMMA ClientKeeps ==
  ASSUME FetchInv, Connected \/ \E id \in MsgIds : PubAck(id) \/ Lose(id)
  PROVE  FetchInv'
<1> USE DEF Connected, PubAck, Lose, fetchState, counts
<1>1. FetchTypes'
  BY DEF FetchInv, FetchTypes
<1>2. FlagTypes'
  BY DEF FetchInv, FlagTypes
<1>3. TimerTypes'
  BY DEF FetchInv, TimerTypes
<1>4. NetworkTypes'
  BY DEF FetchInv, NetworkTypes
<1>5. CountTypes'
  BY DEF FetchInv, CountTypes
<1>6. OwnerInv'
  BY DEF FetchInv, OwnerInv
<1>7. AttemptInv'
  <2>1. Armed' \subseteq Armed  BY DEF Armed
  <2> QED  BY <2>1, FewerArmed, ArmedFinite DEF FetchInv, CountTypes, AttemptInv, Attempts
<1> QED  BY <1>1, <1>2, <1>3, <1>4, <1>5, <1>6, <1>7 DEF FetchInv

LEMMA StillKeeps ==
  ASSUME FetchInv, UNCHANGED vars
  PROVE  FetchInv'
<1> USE DEF vars, fetchState, network, counts
<1>1. FetchTypes'
  BY DEF FetchInv, FetchTypes
<1>2. FlagTypes'
  BY DEF FetchInv, FlagTypes
<1>3. TimerTypes'
  BY DEF FetchInv, TimerTypes
<1>4. NetworkTypes'
  BY DEF FetchInv, NetworkTypes
<1>5. CountTypes'
  BY DEF FetchInv, CountTypes
<1>6. OwnerInv'
  BY DEF FetchInv, OwnerInv
<1>7. AttemptInv'
  <2>1. Armed' \subseteq Armed  BY DEF Armed
  <2> QED  BY <2>1, FewerArmed, ArmedFinite DEF FetchInv, CountTypes, AttemptInv, Attempts
<1> QED  BY <1>1, <1>2, <1>3, <1>4, <1>5, <1>6, <1>7 DEF FetchInv

-----------------------------------------------------------------------------
(* The theorems *)

\* The node starts with no fetch and no timer.
LEMMA InitInv == Init => FetchInv
<1> SUFFICES ASSUME Init  PROVE FetchInv
  OBVIOUS
<1>1. FetchTypes  BY DEF Init, FetchTypes, Places
<1>2. FlagTypes /\ OwnerInv  BY DEF Init, FlagTypes, OwnerInv
<1>3. TimerTypes /\ CountTypes  BY FetchAssumption DEF Init, TimerTypes, States, CountTypes
<1>4. NetworkTypes  BY DEF Init, NetworkTypes
<1>5. AttemptInv
  <2>1. Armed = {}  BY DEF Init, Armed
  <2> QED  BY <2>1, FS_EmptySet DEF Init, AttemptInv, Attempts
<1> QED  BY <1>1, <1>2, <1>3, <1>4, <1>5 DEF FetchInv

\* Every step keeps the invariant.
LEMMA Inductive == Spec => []FetchInv
<1>1. FetchInv /\ [Next]_vars => FetchInv'
  <2> SUFFICES ASSUME FetchInv, [Next]_vars  PROVE FetchInv'
    OBVIOUS
  <2>1. CASE Callback
    BY <2>1, PublishKeeps, TrackKeeps, RegisterKeeps, CreateKeeps, StartKeeps, StartNullKeeps,
       FailedKeeps, TimeoutKeeps DEF Callback
  <2>2. CASE FetchTimerFires \/ AutoFetchFires \/ Dispatch \/ WorkFn \/ FetchWithDelay
    BY <2>2, FetchKeeps, DispatchKeeps, AskedKeeps
  <2>3. CASE \E t \in Timers : TimeoutFires(t) \/ TimerStopped(t)
    BY <2>3, ExpiredKeeps, StoppedKeeps
  <2>4. CASE Connected \/ \E id \in MsgIds : PubAck(id) \/ Lose(id)
    BY <2>4, ClientKeeps
  <2>5. CASE UNCHANGED vars
    BY <2>5, StillKeeps
  <2> QED  BY <2>1, <2>2, <2>3, <2>4, <2>5 DEF Next
<1> QED  BY InitInv, <1>1, PTL DEF Spec

\* The variables hold what the code can put there; no more fetch timers are armed
\* than there were occasions to fetch.
THEOREM FetchTypeOK == Spec => []TypeOK
<1>1. ASSUME FetchInv  PROVE TypeOK
  <2>1. pending \in 0..MaxAsked
    BY <1>1, ArmedFinite, FetchAssumption DEF FetchInv, CountTypes, AttemptInv, Attempts
  <2>2. timer \in [Timers -> States]  BY <1>1 DEF FetchInv, TimerTypes
  <2> QED
    BY <1>1, <2>1, <2>2 DEF FetchInv, FetchTypes, FlagTypes, NetworkTypes, CountTypes, States,
       Places, TypeOK
<1> QED  BY <1>1, Inductive, PTL

\* fetch_in_progress never outlives the timer that would end it, wherever the
\* PUBACK handler runs between the steps of a callback.
THEOREM FetchNeverStuck == Spec => []NeverStuck
<1>1. FetchInv => NeverStuck
  BY DEF FetchInv, OwnerInv, NeverStuck, Running
<1> QED  BY <1>1, Inductive, PTL

\* The fetch timers, the timeouts that may come and the callback under way are no
\* more than the occasions to fetch.
THEOREM FetchOneAttemptEach == Spec => []OneAttemptEach
<1>1. FetchInv => OneAttemptEach
  BY DEF FetchInv, AttemptInv, OneAttemptEach
<1> QED  BY <1>1, Inductive, PTL
=============================================================================
