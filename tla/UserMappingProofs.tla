-------------------------- MODULE UserMappingProofs --------------------------
(***************************************************************************)
(* Proofs about UserMapping: the user id in NVS is that of the user the    *)
(* cloud knows, and a request that has not been sent is pursued, for any   *)
(* number of users, message ids, retries, mappings, failures and reboots.  *)
(***************************************************************************)
EXTENDS UserMapping, TLAPS

-----------------------------------------------------------------------------
(* The invariant *)

Requests == [user : AllUsers \cup {NoUser}, id : MsgIds \cup {NoId}, sent : BOOLEAN]
Retries  == [count : 0..MaxRetries, busy : BOOLEAN, timer : {"none", "running", "expired"}]
AllJobs  == {"mapping", "params"}
Messages == [id : MsgIds, user : AllUsers, reset : BOOLEAN]

\* What the variables hold.
MappingTypes ==
  /\ state \in {"RESET", "STARTED", "REQ_SENT", "DONE"}
  /\ nvs \in AllUsers \cup {NoUser} /\ cloud \in AllUsers \cup {NoUser}

RequestTypes == request \in Requests

RetryTypes == retry \in Retries /\ stale \in Nat

FlagTypes ==
  /\ handler \in BOOLEAN /\ onConnect \in BOOLEAN /\ params \in BOOLEAN /\ conn \in BOOLEAN

PlaceTypes ==
  /\ starting \in {"idle", "full", "register"} /\ timerTask \in {"idle", "add", "clean", "retry"}
  /\ core \in {"boot", "check", "reset", "resetting", "wait DONE", "wait RESET", "done"}

QueueTypes ==
  /\ jobs \in Seq(AllJobs) /\ flight \in Seq(Messages) /\ events \in Seq(MsgIds)

\* A request has a message id once it has been sent, and it has a user.
IdInv ==
  /\ request.sent => request.id # NoId
  /\ ~request.sent => request.id = NoId
  /\ request # NoRequest => request.user # NoUser

\* A request that has been sent is the last on its way, and no other message has
\* its id, or all have arrived and the cloud knows its user.
LastInv ==
  request.sent =>
    IF flight = <<>>
    THEN cloud = request.user
    ELSE /\ flight[Len(flight)].id = request.id /\ flight[Len(flight)].user = request.user
         /\ \A i \in 1..Len(flight) - 1 : flight[i].id # request.id
         /\ \A i \in 1..Len(events) : events[i] # request.id

\* A user in NVS is also that of the request in place.
OneUserInv ==
  UserIdCheck /\ nvs # NoUser /\ "nvs" \notin mishaps /\ request # NoRequest => request.user = nvs

MappingInv ==
  /\ MappingTypes /\ RequestTypes /\ RetryTypes /\ FlagTypes /\ PlaceTypes /\ QueueTypes
  /\ IdInv /\ LastInv /\ OneUserInv /\ StoredUserIsCloudUser

-----------------------------------------------------------------------------
(* Retries *)

\* user_mapping_retry_cleanup leaves no retry behind.
LEMMA Cleaned ==
  ASSUME RetryTypes, CleanRetry
  PROVE  RetryTypes'
  BY MappingAssumption DEF RetryTypes, Retries, CleanRetry, NoRetry

\* user_mapping_schedule_retry counts no further than the limit.
LEMMA Scheduled ==
  ASSUME RetryTypes, ScheduleRetry
  PROVE  RetryTypes' /\ mishaps \subseteq mishaps'
<1>1. mishaps \subseteq mishaps'  BY DEF ScheduleRetry, Mishap
<1>2. CASE CleanRetry  BY <1>1, <1>2, Cleaned
<1>3. CASE retry.count + 1 <= MaxRetries /\ retry.busy /\ retry' = [retry EXCEPT !.count = retry.count + 1]
               /\ UNCHANGED stale
  <2>1. retry.count + 1 \in 0..MaxRetries  BY <1>3 DEF RetryTypes, Retries
  <2> QED  BY <1>1, <1>3, <2>1 DEF RetryTypes, Retries
<1>4. CASE /\ retry.count + 1 <= MaxRetries
           /\ retry' = [count |-> retry.count + 1, busy |-> TRUE, timer |-> "running"]
           /\ stale' = IF retry.timer = "running" THEN stale + 1 ELSE stale
  <2>1. retry.count + 1 \in 0..MaxRetries  BY <1>4 DEF RetryTypes, Retries
  <2>2. stale' \in Nat  BY <1>4 DEF RetryTypes
  <2> QED  BY <1>1, <1>4, <2>1, <2>2 DEF RetryTypes, Retries
<1> QED  BY <1>2, <1>3, <1>4 DEF ScheduleRetry

-----------------------------------------------------------------------------
(* The work queue *)

\* It holds jobs, whether one is added, taken or refused.
LEMMA JobsKept ==
  ASSUME jobs \in Seq(AllJobs), NEW job \in AllJobs,
         \/ jobs' = Append(jobs, job) \/ jobs' = jobs
         \/ jobs # <<>> /\ jobs' = Tail(jobs)
  PROVE  jobs' \in Seq(AllJobs)
<1>1. CASE jobs' = Append(jobs, job)  BY <1>1
<1>2. CASE jobs' = jobs  BY <1>2
<1>3. CASE jobs # <<>> /\ jobs' = Tail(jobs)  BY <1>3
<1> QED  BY <1>1, <1>2, <1>3

-----------------------------------------------------------------------------
(* Every action keeps the invariant *)

LEMMA MappingKeeps ==
  ASSUME MappingInv, NEW user \in AllUsers, StartMapping(user), core' \in {core, "resetting"}
  PROVE  MappingInv'
<1>a. /\ request' = [user |-> user, id |-> NoId, sent |-> FALSE]
      /\ UNCHANGED <<handler, onConnect, retries, timerTask, params, conn, network>>
      /\ state' \in {"STARTED", "DONE"} /\ starting' \in {starting, "full"}
      /\ jobs' = Append(jobs, "mapping") \/ jobs' = jobs
  BY DEF StartMapping, Queued, Refused
<1>b. /\ nvs' \in {nvs, NoUser} /\ mishaps \subseteq mishaps'
      /\ UserIdCheck /\ "nvs" \notin mishaps' => nvs' = NoUser \/ nvs' = user
  BY DEF StartMapping, DetectReset, Mishap
<1>c. jobs' \in Seq(AllJobs)
  BY <1>a, JobsKept DEF MappingInv, QueueTypes, AllJobs
<1> USE <1>a, <1>b, <1>c, MappingAssumption
<1> USE DEF retries, network
<1>1. MappingTypes'
  BY DEF MappingInv, MappingTypes
<1>2. RequestTypes'
  BY DEF RequestTypes, Requests
<1>3. RetryTypes'
  BY DEF MappingInv, RetryTypes
<1>4. FlagTypes'
  BY DEF MappingInv, FlagTypes
<1>5. PlaceTypes'
  BY DEF MappingInv, PlaceTypes
<1>6. QueueTypes'
  BY DEF MappingInv, QueueTypes
<1>7. IdInv'
  BY DEF IdInv, NoRequest
<1>8. LastInv'
  BY DEF LastInv
<1>9. OneUserInv'
  BY DEF OneUserInv
<1>10. StoredUserIsCloudUser'
  BY DEF MappingInv, StoredUserIsCloudUser
<1> QED  BY <1>1, <1>2, <1>3, <1>4, <1>5, <1>6, <1>7, <1>8, <1>9, <1>10 DEF MappingInv

LEMMA NoMemoryKeeps ==
  ASSUME MappingInv, StartNoMemory
  PROVE  MappingInv'
<1> USE DEF StartNoMemory, Mishap, NoRequest, retries, node, network
<1>1. MappingTypes'
  BY DEF MappingInv, MappingTypes
<1>2. RequestTypes'
  BY DEF RequestTypes, Requests
<1>3. RetryTypes'
  BY DEF MappingInv, RetryTypes
<1>4. FlagTypes'
  BY DEF MappingInv, FlagTypes
<1>5. PlaceTypes'
  BY DEF MappingInv, PlaceTypes
<1>6. QueueTypes'
  BY DEF MappingInv, QueueTypes
<1>7. IdInv'
  BY DEF IdInv
<1>8. LastInv'
  BY DEF LastInv
<1>9. OneUserInv'
  BY DEF OneUserInv
<1>10. StoredUserIsCloudUser'
  BY DEF MappingInv, StoredUserIsCloudUser
<1> QED  BY <1>1, <1>2, <1>3, <1>4, <1>5, <1>6, <1>7, <1>8, <1>9, <1>10 DEF MappingInv

LEMMA FullKeeps ==
  ASSUME MappingInv, StartFull
  PROVE  MappingInv'
<1>a. RetryTypes' /\ mishaps \subseteq mishaps'
  BY Scheduled DEF StartFull, MappingInv, RetryTypes, retries
<1> USE DEF StartFull, mapping, retries, node, network, counts
<1>1. MappingTypes'
  BY DEF MappingInv, MappingTypes
<1>2. RequestTypes'
  BY DEF MappingInv, RequestTypes
<1>3. RetryTypes'
  BY <1>a
<1>4. FlagTypes'
  BY DEF MappingInv, FlagTypes
<1>5. PlaceTypes'
  BY DEF MappingInv, PlaceTypes
<1>6. QueueTypes'
  BY DEF MappingInv, QueueTypes
<1>7. IdInv'
  BY DEF MappingInv, IdInv
<1>8. LastInv'
  BY DEF MappingInv, LastInv
<1>9. OneUserInv'
  BY <1>a DEF MappingInv, OneUserInv
<1>10. StoredUserIsCloudUser'
  BY <1>a DEF MappingInv, StoredUserIsCloudUser
<1> QED  BY <1>1, <1>2, <1>3, <1>4, <1>5, <1>6, <1>7, <1>8, <1>9, <1>10 DEF MappingInv

LEMMA RegisterKeeps ==
  ASSUME MappingInv, StartRegister
  PROVE  MappingInv'
<1>a. request' \in Requests
  <2>1. request' = request \/ request' = NoRequest  BY DEF StartRegister
  <2>2. NoRequest \in Requests  BY DEF NoRequest, Requests
  <2> QED  BY <2>1, <2>2 DEF MappingInv, RequestTypes
<1> USE DEF StartRegister, Mishap, NoRequest, retries, node, network, counts
<1>1. MappingTypes'
  BY DEF MappingInv, MappingTypes
<1>2. RequestTypes'
  BY <1>a DEF RequestTypes
<1>3. RetryTypes'
  BY DEF MappingInv, RetryTypes
<1>4. FlagTypes'
  BY DEF MappingInv, FlagTypes
<1>5. PlaceTypes'
  BY DEF MappingInv, PlaceTypes
<1>6. QueueTypes'
  BY DEF MappingInv, QueueTypes
<1>7. IdInv'
  BY DEF MappingInv, IdInv
<1>8. LastInv'
  BY DEF MappingInv, LastInv
<1>9. OneUserInv'
  BY DEF MappingInv, OneUserInv
<1>10. StoredUserIsCloudUser'
  BY DEF MappingInv, StoredUserIsCloudUser
<1> QED  BY <1>1, <1>2, <1>3, <1>4, <1>5, <1>6, <1>7, <1>8, <1>9, <1>10 DEF MappingInv

LEMMA CoreKeeps ==
  ASSUME MappingInv, CoreConnected \/ CoreCheck \/ CoreWait
  PROVE  MappingInv'
<1> USE DEF CoreConnected, CoreCheck, CoreWait, mapping, retries, node, network, counts, NoRequest
<1>1. MappingTypes'
  BY DEF MappingInv, MappingTypes
<1>2. RequestTypes'
  BY DEF MappingInv, RequestTypes
<1>3. RetryTypes'
  BY DEF MappingInv, RetryTypes
<1>4. FlagTypes'
  BY DEF MappingInv, FlagTypes
<1>5. PlaceTypes'
  BY DEF MappingInv, PlaceTypes
<1>6. QueueTypes'
  BY DEF MappingInv, QueueTypes
<1>7. IdInv'
  BY DEF MappingInv, IdInv
<1>8. LastInv'
  BY DEF MappingInv, LastInv
<1>9. OneUserInv'
  BY DEF MappingInv, OneUserInv
<1>10. StoredUserIsCloudUser'
  BY DEF MappingInv, StoredUserIsCloudUser
<1> QED  BY <1>1, <1>2, <1>3, <1>4, <1>5, <1>6, <1>7, <1>8, <1>9, <1>10 DEF MappingInv

LEMMA SendKeeps ==
  ASSUME MappingInv, Send
  PROVE  MappingInv'
<1>a. /\ request \in Requests /\ request # NoRequest /\ ~request.sent /\ request.user \in AllUsers
      /\ flight \in Seq(Messages) /\ events \in Seq(MsgIds) /\ jobs \in Seq(AllJobs)
      /\ jobs # <<>> /\ jobs' = Tail(jobs) /\ events' = events
  BY DEF Send, Job, Unsent, MappingInv, RequestTypes, Requests, QueueTypes, IdInv
<1>b. PICK id \in MsgIds \ ({flight[i].id : i \in 1..Len(flight)} \cup {events[i] : i \in 1..Len(events)}) :
        /\ request' = [request EXCEPT !.id = id, !.sent = TRUE]
        /\ flight' = Append(flight, [id |-> id, user |-> request.user, reset |-> state # "DONE"])
  BY DEF Send
<1>c. /\ request' \in Requests /\ request'.id = id /\ request'.sent = TRUE /\ request'.user = request.user
  BY <1>a, <1>b DEF Requests
<1>d. [id |-> id, user |-> request.user, reset |-> state # "DONE"] \in Messages
  BY <1>a DEF Messages
<1>e. /\ flight' \in Seq(Messages) /\ Len(flight') = Len(flight) + 1 /\ Len(flight) \in Nat
      /\ flight'[Len(flight) + 1] = [id |-> id, user |-> request.user, reset |-> state # "DONE"]
      /\ \A i \in 1..Len(flight) : flight'[i] = flight[i]
      /\ flight' # <<>>
  BY <1>a, <1>b, <1>d
<1>f. jobs' \in Seq(AllJobs)  BY <1>a
<1>g. flight'[Len(flight')].id = id /\ flight'[Len(flight')].user = request.user  BY <1>e
<1> USE DEF Send, Job, Locked, retries, node
<1>1. MappingTypes'
  BY DEF MappingInv, MappingTypes
<1>2. RequestTypes'
  BY <1>c DEF RequestTypes
<1>3. RetryTypes'
  BY DEF MappingInv, RetryTypes
<1>4. FlagTypes'
  BY DEF MappingInv, FlagTypes
<1>5. PlaceTypes'
  BY DEF MappingInv, PlaceTypes
<1>6. QueueTypes'
  BY <1>a, <1>e, <1>f DEF QueueTypes
<1>7. IdInv'
  BY <1>a, <1>c, MappingAssumption DEF IdInv, AllUsers
<1>8. LastInv'
  BY <1>a, <1>b, <1>c, <1>e, <1>g DEF LastInv
<1>9. OneUserInv'
  BY <1>a, <1>c DEF MappingInv, OneUserInv
<1>10. StoredUserIsCloudUser'
  BY <1>a, <1>e DEF MappingInv, OneUserInv, StoredUserIsCloudUser
<1> QED  BY <1>1, <1>2, <1>3, <1>4, <1>5, <1>6, <1>7, <1>8, <1>9, <1>10 DEF MappingInv

LEMMA JobKeeps ==
  ASSUME MappingInv, SendFails \/ SendNothing \/ InitParams
  PROVE  MappingInv'
<1>a. jobs' \in Seq(AllJobs)
  BY JobsKept DEF SendFails, SendNothing, InitParams, Job, MappingInv, QueueTypes
<1> USE DEF SendFails, SendNothing, InitParams, Job, Mishap, mapping, retries, node, network, counts
<1>1. MappingTypes'
  BY DEF MappingInv, MappingTypes
<1>2. RequestTypes'
  BY DEF MappingInv, RequestTypes
<1>3. RetryTypes'
  BY DEF MappingInv, RetryTypes
<1>4. FlagTypes'
  BY DEF MappingInv, FlagTypes
<1>5. PlaceTypes'
  BY DEF MappingInv, PlaceTypes
<1>6. QueueTypes'
  BY <1>a DEF MappingInv, QueueTypes
<1>7. IdInv'
  BY DEF MappingInv, IdInv
<1>8. LastInv'
  BY DEF MappingInv, LastInv
<1>9. OneUserInv'
  BY DEF MappingInv, OneUserInv
<1>10. StoredUserIsCloudUser'
  BY DEF MappingInv, StoredUserIsCloudUser
<1> QED  BY <1>1, <1>2, <1>3, <1>4, <1>5, <1>6, <1>7, <1>8, <1>9, <1>10 DEF MappingInv

LEMMA AckedKeeps ==
  ASSUME MappingInv, PubAcked
  PROVE  MappingInv'
<1>0. /\ request.id = Head(events) /\ events # <<>> /\ events' = Tail(events) /\ events \in Seq(MsgIds)
      /\ request # NoRequest
  BY DEF PubAcked, MappingInv, QueueTypes
<1>a. /\ Head(events) \in MsgIds /\ Head(events) = events[1] /\ Len(events) \in Nat \ {0}
      /\ events' \in Seq(MsgIds)
  BY <1>0
<1>b. request.sent /\ request.user \in AllUsers
  BY <1>0, <1>a, MappingAssumption DEF MappingInv, IdInv, RequestTypes, Requests
<1>c. flight = <<>> /\ cloud = request.user
  BY <1>0, <1>a, <1>b DEF MappingInv, LastInv
<1>d. /\ state' \in {"RESET", "DONE"} /\ core' \in {core, "done"}
      /\ request' = NoRequest /\ handler' = FALSE
      /\ nvs' = (IF UserIdCheck THEN request.user ELSE nvs)
      /\ UNCHANGED <<onConnect, starting, retry, stale, timerTask, params, conn, flight, cloud>>
      /\ jobs' = Append(jobs, "params") \/ jobs' = jobs
  BY DEF PubAcked, Outcome, Queued, Refused, retries
<1>e. jobs' \in Seq(AllJobs)  BY <1>d, JobsKept DEF MappingInv, QueueTypes, AllJobs
<1> USE DEF NoRequest
<1>1. MappingTypes'
  BY <1>b, <1>d DEF MappingInv, MappingTypes
<1>2. RequestTypes'
  BY <1>d DEF RequestTypes, Requests
<1>3. RetryTypes'
  BY <1>d DEF MappingInv, RetryTypes
<1>4. FlagTypes'
  BY <1>d DEF MappingInv, FlagTypes
<1>5. PlaceTypes'
  BY <1>d DEF MappingInv, PlaceTypes
<1>6. QueueTypes'
  BY <1>a, <1>d, <1>e DEF MappingInv, QueueTypes
<1>7. IdInv'
  BY <1>d DEF IdInv
<1>8. LastInv'
  BY <1>d DEF LastInv
<1>9. OneUserInv'
  BY <1>d DEF OneUserInv
<1>10. StoredUserIsCloudUser'
  BY <1>c, <1>d DEF StoredUserIsCloudUser
<1> QED  BY <1>1, <1>2, <1>3, <1>4, <1>5, <1>6, <1>7, <1>8, <1>9, <1>10 DEF MappingInv

LEMMA IgnoredKeeps ==
  ASSUME MappingInv, PubIgnored
  PROVE  MappingInv'
<1>a. /\ events' \in Seq(MsgIds) /\ Len(events) \in Nat \ {0} /\ Len(events') = Len(events) - 1
      /\ \A i \in 1..Len(events') : events'[i] = events[i + 1]
  BY DEF PubIgnored, MappingInv, QueueTypes
<1> USE DEF PubIgnored, mapping, retries, node, counts, Mishap
<1>1. MappingTypes'
  BY DEF MappingInv, MappingTypes
<1>2. RequestTypes'
  BY DEF MappingInv, RequestTypes
<1>3. RetryTypes'
  BY DEF MappingInv, RetryTypes
<1>4. FlagTypes'
  BY DEF MappingInv, FlagTypes
<1>5. PlaceTypes'
  BY DEF MappingInv, PlaceTypes
<1>6. QueueTypes'
  BY <1>a DEF MappingInv, QueueTypes
<1>7. IdInv'
  BY DEF MappingInv, IdInv
<1>8. LastInv'
  <2>1. \A i \in 1..Len(events') : i + 1 \in 1..Len(events)  BY <1>a
  <2> QED  BY <1>a, <2>1 DEF MappingInv, LastInv
<1>9. OneUserInv'
  BY DEF MappingInv, OneUserInv
<1>10. StoredUserIsCloudUser'
  BY DEF MappingInv, StoredUserIsCloudUser
<1> QED  BY <1>1, <1>2, <1>3, <1>4, <1>5, <1>6, <1>7, <1>8, <1>9, <1>10 DEF MappingInv

LEMMA ConnectedKeeps ==
  ASSUME MappingInv, Connected
  PROVE  MappingInv'
<1>a. RetryTypes' /\ mishaps \subseteq mishaps'
  BY Scheduled DEF Connected, MappingInv, RetryTypes, retries
<1>b. jobs' \in Seq(AllJobs)
  BY JobsKept DEF Connected, Queued, Refused, MappingInv, QueueTypes, AllJobs
<1> USE DEF Connected, mapping, node, network
<1>1. MappingTypes'
  BY DEF MappingInv, MappingTypes
<1>2. RequestTypes'
  BY DEF MappingInv, RequestTypes
<1>3. RetryTypes'
  BY <1>a
<1>4. FlagTypes'
  BY DEF MappingInv, FlagTypes
<1>5. PlaceTypes'
  BY DEF MappingInv, PlaceTypes
<1>6. QueueTypes'
  BY <1>b DEF MappingInv, QueueTypes
<1>7. IdInv'
  BY DEF MappingInv, IdInv
<1>8. LastInv'
  BY DEF MappingInv, LastInv
<1>9. OneUserInv'
  BY <1>a DEF MappingInv, OneUserInv
<1>10. StoredUserIsCloudUser'
  BY <1>a DEF MappingInv, StoredUserIsCloudUser
<1> QED  BY <1>1, <1>2, <1>3, <1>4, <1>5, <1>6, <1>7, <1>8, <1>9, <1>10 DEF MappingInv

LEMMA LostKeeps ==
  ASSUME MappingInv, Disconnected
  PROVE  MappingInv'
<1> USE DEF Disconnected, mapping, retries, node, network, counts
<1>1. MappingTypes'
  BY DEF MappingInv, MappingTypes
<1>2. RequestTypes'
  BY DEF MappingInv, RequestTypes
<1>3. RetryTypes'
  BY DEF MappingInv, RetryTypes
<1>4. FlagTypes'
  BY DEF MappingInv, FlagTypes
<1>5. PlaceTypes'
  BY DEF MappingInv, PlaceTypes
<1>6. QueueTypes'
  BY DEF MappingInv, QueueTypes
<1>7. IdInv'
  BY DEF MappingInv, IdInv
<1>8. LastInv'
  BY DEF MappingInv, LastInv
<1>9. OneUserInv'
  BY DEF MappingInv, OneUserInv
<1>10. StoredUserIsCloudUser'
  BY DEF MappingInv, StoredUserIsCloudUser
<1> QED  BY <1>1, <1>2, <1>3, <1>4, <1>5, <1>6, <1>7, <1>8, <1>9, <1>10 DEF MappingInv

LEMMA TimerKeeps ==
  ASSUME MappingInv, TimerFires \/ TimerStopped
  PROVE  MappingInv'
<1>a. retry \in Retries /\ stale \in Nat  BY DEF MappingInv, RetryTypes
<1>b. retry' \in Retries
  <2>1. \/ retry' = [retry EXCEPT !.busy = FALSE, !.timer = "expired"]
        \/ retry' = [retry EXCEPT !.busy = FALSE] \/ retry' = retry
    BY DEF TimerFires, TimerStopped
  <2> QED  BY <1>a, <2>1 DEF Retries
<1>c. stale' \in Nat  BY <1>a DEF TimerFires, TimerStopped
<1> USE DEF TimerFires, TimerStopped, retries, mapping, retries, node, network, counts
<1>1. MappingTypes'
  BY DEF MappingInv, MappingTypes
<1>2. RequestTypes'
  BY DEF MappingInv, RequestTypes
<1>3. RetryTypes'
  BY <1>b, <1>c DEF RetryTypes
<1>4. FlagTypes'
  BY DEF MappingInv, FlagTypes
<1>5. PlaceTypes'
  BY DEF MappingInv, PlaceTypes
<1>6. QueueTypes'
  BY DEF MappingInv, QueueTypes
<1>7. IdInv'
  BY DEF MappingInv, IdInv
<1>8. LastInv'
  BY DEF MappingInv, LastInv
<1>9. OneUserInv'
  BY DEF MappingInv, OneUserInv
<1>10. StoredUserIsCloudUser'
  BY DEF MappingInv, StoredUserIsCloudUser
<1> QED  BY <1>1, <1>2, <1>3, <1>4, <1>5, <1>6, <1>7, <1>8, <1>9, <1>10 DEF MappingInv

LEMMA AddsKeeps ==
  ASSUME MappingInv, TimerAdds
  PROVE  MappingInv'
<1>a. jobs' \in Seq(AllJobs)
  BY JobsKept DEF TimerAdds, Queued, Refused, MappingInv, QueueTypes, AllJobs
<1> USE DEF TimerAdds, Queued, Refused, mapping, retries, node, network, counts
<1>1. MappingTypes'
  BY DEF MappingInv, MappingTypes
<1>2. RequestTypes'
  BY DEF MappingInv, RequestTypes
<1>3. RetryTypes'
  BY DEF MappingInv, RetryTypes
<1>4. FlagTypes'
  BY DEF MappingInv, FlagTypes
<1>5. PlaceTypes'
  BY DEF MappingInv, PlaceTypes
<1>6. QueueTypes'
  BY <1>a DEF MappingInv, QueueTypes
<1>7. IdInv'
  BY DEF MappingInv, IdInv
<1>8. LastInv'
  BY DEF MappingInv, LastInv
<1>9. OneUserInv'
  BY DEF MappingInv, OneUserInv
<1>10. StoredUserIsCloudUser'
  BY DEF MappingInv, StoredUserIsCloudUser
<1> QED  BY <1>1, <1>2, <1>3, <1>4, <1>5, <1>6, <1>7, <1>8, <1>9, <1>10 DEF MappingInv

LEMMA TimerDoneKeeps ==
  ASSUME MappingInv, TimerDone
  PROVE  MappingInv'
<1>a. RetryTypes' /\ mishaps \subseteq mishaps'  BY Scheduled, Cleaned DEF TimerDone, MappingInv
<1> USE DEF TimerDone, mapping, node, network, counts
<1>1. MappingTypes'
  BY DEF MappingInv, MappingTypes
<1>2. RequestTypes'
  BY DEF MappingInv, RequestTypes
<1>3. RetryTypes'
  BY <1>a
<1>4. FlagTypes'
  BY DEF MappingInv, FlagTypes
<1>5. PlaceTypes'
  BY DEF MappingInv, PlaceTypes
<1>6. QueueTypes'
  BY DEF MappingInv, QueueTypes
<1>7. IdInv'
  BY DEF MappingInv, IdInv
<1>8. LastInv'
  BY DEF MappingInv, LastInv
<1>9. OneUserInv'
  BY <1>a DEF MappingInv, OneUserInv
<1>10. StoredUserIsCloudUser'
  BY <1>a DEF MappingInv, StoredUserIsCloudUser
<1> QED  BY <1>1, <1>2, <1>3, <1>4, <1>5, <1>6, <1>7, <1>8, <1>9, <1>10 DEF MappingInv

LEMMA ReceivedKeeps ==
  ASSUME MappingInv, Received
  PROVE  MappingInv'
<1>a. /\ flight # <<>> /\ flight' = Tail(flight) /\ cloud' = Head(flight).user /\ mishaps \subseteq mishaps'
      /\ events' = Append(events, Head(flight).id) \/ events' = events
      /\ UNCHANGED <<state, request, nvs, handler>>
  BY DEF Received, Mishap, mapping
<1>0. flight \in Seq(Messages)  BY DEF MappingInv, QueueTypes
<1>b. /\ Head(flight) \in Messages /\ Head(flight) = flight[1]
      /\ flight' \in Seq(Messages) /\ Len(flight) \in Nat \ {0} /\ Len(flight') = Len(flight) - 1
      /\ \A i \in 1..Len(flight') : flight'[i] = flight[i + 1]
  BY <1>0, <1>a
<1>f. (flight' = <<>>) <=> (Len(flight) = 1)
  BY <1>b
<1>c. flight[1].user \in AllUsers /\ flight[1].id \in MsgIds  BY <1>b DEF Messages
<1>d. /\ events' \in Seq(MsgIds)
      /\ \A i \in 1..Len(events') : events'[i] = flight[1].id \/ \E j \in 1..Len(events) : events'[i] = events[j]
  <2>1. events \in Seq(MsgIds)  BY DEF MappingInv, QueueTypes
  <2>2. CASE events' = events  BY <2>1, <2>2
  <2>3. CASE events' = Append(events, flight[1].id)
    <3>1. /\ events' \in Seq(MsgIds) /\ Len(events') = Len(events) + 1 /\ Len(events) \in Nat
          /\ events'[Len(events) + 1] = flight[1].id
          /\ \A i \in 1..Len(events) : events'[i] = events[i]
      BY <1>c, <2>1, <2>3
    <3> QED  BY <3>1
  <2> QED  BY <1>a, <1>b, <2>2, <2>3
<1> USE DEF Received, Mishap, mapping, retries, node, counts
<1>1. MappingTypes'
  BY <1>a, <1>b, <1>c DEF MappingInv, MappingTypes
<1>2. RequestTypes'
  BY DEF MappingInv, RequestTypes
<1>3. RetryTypes'
  BY DEF MappingInv, RetryTypes
<1>4. FlagTypes'
  BY DEF MappingInv, FlagTypes
<1>5. PlaceTypes'
  BY DEF MappingInv, PlaceTypes
<1>6. QueueTypes'
  BY <1>b, <1>d DEF MappingInv, QueueTypes
<1>7. IdInv'
  BY DEF MappingInv, IdInv
<1>8. LastInv'
  <2> SUFFICES ASSUME request.sent
               PROVE  IF flight' = <<>>
                      THEN cloud' = request.user
                      ELSE /\ flight'[Len(flight')].id = request.id /\ flight'[Len(flight')].user = request.user
                           /\ \A i \in 1..Len(flight') - 1 : flight'[i].id # request.id
                           /\ \A i \in 1..Len(events') : events'[i] # request.id
    BY <1>a DEF LastInv
  <2>1. CASE Len(flight) = 1  BY <1>a, <1>b, <1>f, <2>1 DEF MappingInv, LastInv
  <2>2. CASE Len(flight) # 1
    <3>1. /\ 1 \in 1..Len(flight) - 1 /\ Len(flight') \in 1..Len(flight') /\ Len(flight') + 1 = Len(flight)
          /\ \A i \in 1..Len(flight') - 1 : i \in 1..Len(flight') /\ i + 1 \in 1..Len(flight) - 1
      BY <1>b, <2>2
    <3>2. /\ flight[Len(flight)].id = request.id /\ flight[Len(flight)].user = request.user
          /\ \A i \in 1..Len(flight) - 1 : flight[i].id # request.id
          /\ \A i \in 1..Len(events) : events[i] # request.id
      BY <1>a DEF MappingInv, LastInv
    <3>3. flight'[Len(flight')] = flight[Len(flight)]  BY <1>b, <3>1
    <3>4. \A i \in 1..Len(flight') - 1 : flight'[i].id # request.id  BY <1>b, <3>1, <3>2
    <3>5. \A i \in 1..Len(events') : events'[i] # request.id  BY <1>d, <3>1, <3>2
    <3> QED  BY <1>b, <1>f, <2>2, <3>2, <3>3, <3>4, <3>5
  <2> QED  BY <2>1, <2>2
<1>9. OneUserInv'
  BY <1>a DEF MappingInv, OneUserInv
<1>10. StoredUserIsCloudUser'
  <2>1. 1 \in 1..Len(flight) /\ \A i \in 1..Len(flight') : i + 1 \in 1..Len(flight)  BY <1>b
  <2> QED  BY <1>a, <1>b, <2>1 DEF MappingInv, StoredUserIsCloudUser
<1> QED  BY <1>1, <1>2, <1>3, <1>4, <1>5, <1>6, <1>7, <1>8, <1>9, <1>10 DEF MappingInv

LEMMA RebootKeeps ==
  ASSUME MappingInv, Reboot
  PROVE  MappingInv'
<1> USE DEF Reboot, BootState, NoRequest, NoRetry
<1>1. MappingTypes'
  BY DEF MappingInv, MappingTypes
<1>2. RequestTypes'
  BY DEF RequestTypes, Requests
<1>3. RetryTypes'
  BY MappingAssumption DEF RetryTypes, Retries
<1>4. FlagTypes'
  BY DEF FlagTypes
<1>5. PlaceTypes'
  BY DEF PlaceTypes
<1>6. QueueTypes'
  BY DEF QueueTypes
<1>7. IdInv'
  BY DEF IdInv
<1>8. LastInv'
  BY DEF LastInv
<1>9. OneUserInv'
  BY DEF OneUserInv
<1>10. StoredUserIsCloudUser'
  BY DEF MappingInv, StoredUserIsCloudUser
<1> QED  BY <1>1, <1>2, <1>3, <1>4, <1>5, <1>6, <1>7, <1>8, <1>9, <1>10 DEF MappingInv

LEMMA StillKeeps ==
  ASSUME MappingInv, UNCHANGED vars
  PROVE  MappingInv'
<1> USE DEF vars, mapping, retries, node, network, counts
<1>1. MappingTypes'
  BY DEF MappingInv, MappingTypes
<1>2. RequestTypes'
  BY DEF MappingInv, RequestTypes
<1>3. RetryTypes'
  BY DEF MappingInv, RetryTypes
<1>4. FlagTypes'
  BY DEF MappingInv, FlagTypes
<1>5. PlaceTypes'
  BY DEF MappingInv, PlaceTypes
<1>6. QueueTypes'
  BY DEF MappingInv, QueueTypes
<1>7. IdInv'
  BY DEF MappingInv, IdInv
<1>8. LastInv'
  BY DEF MappingInv, LastInv
<1>9. OneUserInv'
  BY DEF MappingInv, OneUserInv
<1>10. StoredUserIsCloudUser'
  BY DEF MappingInv, StoredUserIsCloudUser
<1> QED  BY <1>1, <1>2, <1>3, <1>4, <1>5, <1>6, <1>7, <1>8, <1>9, <1>10 DEF MappingInv

-----------------------------------------------------------------------------
(* The theorems *)

\* The node starts with no request and nothing on its way.
LEMMA InitInv == Init => MappingInv
<1> SUFFICES ASSUME Init  PROVE MappingInv
  OBVIOUS
<1>1. MappingTypes /\ FlagTypes /\ PlaceTypes
  BY DEF Init, BootState, MappingTypes, FlagTypes, PlaceTypes
<1>2. RequestTypes  BY DEF Init, NoRequest, RequestTypes, Requests
<1>3. RetryTypes  BY MappingAssumption DEF Init, NoRetry, RetryTypes, Retries
<1>4. QueueTypes  BY DEF Init, QueueTypes
<1>5. IdInv /\ LastInv  BY DEF Init, NoRequest, IdInv, LastInv
<1>6. OneUserInv /\ StoredUserIsCloudUser  BY DEF Init, OneUserInv, StoredUserIsCloudUser
<1> QED  BY <1>1, <1>2, <1>3, <1>4, <1>5, <1>6 DEF MappingInv

\* Every step keeps the invariant.
LEMMA Inductive == Spec => []MappingInv
<1>1. MappingInv /\ [Next]_vars => MappingInv'
  <2> SUFFICES ASSUME MappingInv, [Next]_vars  PROVE MappingInv'
    OBVIOUS
  <2>1. CASE Start
    <3>1. PICK user \in AllUsers : StartMapping(user)  BY <2>1 DEF Start, AllUsers
    <3> QED  BY <2>1, <3>1, MappingKeeps DEF Start
  <2>2. CASE CoreReset
    BY <2>2, MappingKeeps DEF CoreReset, AllUsers
  <2>3. CASE WorkQueue /\ ~CoreReset
    BY <2>3, CoreKeeps, SendKeeps, JobKeeps DEF WorkQueue
  <2>4. CASE StartNoMemory \/ StartFull \/ StartRegister
    BY <2>4, NoMemoryKeeps, FullKeeps, RegisterKeeps
  <2>5. CASE TimerTask \/ TimerStopped
    BY <2>5, TimerKeeps, AddsKeeps, TimerDoneKeeps DEF TimerTask
  <2>6. CASE PubAcked \/ PubIgnored \/ Connected \/ Disconnected \/ Received \/ Reboot
    BY <2>6, AckedKeeps, IgnoredKeeps, ConnectedKeeps, LostKeeps, ReceivedKeeps, RebootKeeps
  <2>7. CASE UNCHANGED vars  BY <2>7, StillKeeps
  <2> QED  BY <2>1, <2>2, <2>3, <2>4, <2>5, <2>6, <2>7 DEF Next
<1> QED  BY InitInv, <1>1, PTL DEF Spec

\* The variables hold what the code can put there; retries are counted no further
\* than USER_MAPPING_MAX_RETRIES.
THEOREM MappingTypeOK == Spec => []TypeOK
<1>1. ASSUME MappingInv  PROVE TypeOK
  <2>1. /\ handler \in BOOLEAN /\ onConnect \in BOOLEAN /\ params \in BOOLEAN /\ conn \in BOOLEAN
    BY <1>1 DEF MappingInv, FlagTypes
  <2>2. /\ request \in Requests /\ retry \in Retries /\ stale \in Nat
        /\ jobs \in Seq(AllJobs) /\ flight \in Seq(Messages) /\ events \in Seq(MsgIds)
    BY <1>1 DEF MappingInv, RequestTypes, RetryTypes, QueueTypes
  <2>3. MappingTypes /\ PlaceTypes  BY <1>1 DEF MappingInv
  <2> QED
    BY <2>1, <2>2, <2>3 DEF MappingTypes, PlaceTypes, Requests, Retries, Messages, AllJobs, TypeOK
<1> QED  BY <1>1, Inductive, PTL

\* "It will be stored only after the user node association message is
\* acknowledged from the cloud": unless NVS could not be read, the user id stored
\* is that of the last request the cloud received, and no request on its way
\* would change that.
THEOREM MappingStoredUser == Spec => []StoredUserIsCloudUser
<1>1. MappingInv => StoredUserIsCloudUser
  BY DEF MappingInv
<1> QED  BY <1>1, Inductive, PTL

-----------------------------------------------------------------------------
(* An unsent request is pursued *)

\* Nothing failed, no retry was scheduled during the timer callback, and no
\* connection came up before the wait for it was registered.
Undisturbed == mishaps = {} /\ crossed \cap {"retried", "missed"} = {}

HasJob == \E i \in 1..Len(jobs) : jobs[i] = "mapping"

\* Something other than the retry timer is going to send the request.
PursuedElsewhere ==
  \/ HasJob
  \/ onConnect /\ ~conn
  \/ Locked

\* A retry counted as under way has its timer running.
BusyInv == retry.busy => retry.timer = "running"

\* Jobs the work queue refused are counted.
RefusedInv == refused \in Nat

\* What pursues an unsent request.  While the timer callback is about to clean
\* up, deleting any timer, that is not the timer; and a start that registers
\* for the connection does so before the connection is there.
PursuitInv ==
  Undisturbed =>
    /\ Unsent => Pursued
    /\ Unsent /\ timerTask = "clean" => PursuedElsewhere
    /\ starting = "register" => ~conn

\* A mapping job stays queued until it is its turn, and a queued one is there.
LEMMA JobWaits ==
  ASSUME jobs \in Seq(AllJobs)
  PROVE  /\ jobs' = jobs => (HasJob => HasJob')
         /\ jobs' = Append(jobs, "mapping") => HasJob'
         /\ jobs' = Append(jobs, "params") => (HasJob => HasJob')
         /\ jobs # <<>> /\ Head(jobs) = "params" /\ jobs' = Tail(jobs) => (HasJob => HasJob')
<1>1. Len(jobs) \in Nat
  OBVIOUS
<1>2. ASSUME NEW job \in AllJobs, jobs' = Append(jobs, job)
      PROVE  (HasJob => HasJob') /\ (job = "mapping" => HasJob')
  <2>1. /\ Len(jobs') = Len(jobs) + 1 /\ jobs'[Len(jobs) + 1] = job
        /\ \A i \in 1..Len(jobs) : jobs'[i] = jobs[i]
    BY <1>2
  <2>2. QED
    BY <1>1, <2>1 DEF HasJob
<1>3. ASSUME jobs # <<>>, Head(jobs) = "params", jobs' = Tail(jobs), HasJob
      PROVE  HasJob'
  <2>1. PICK i \in 1..Len(jobs) : jobs[i] = "mapping"
    BY <1>3 DEF HasJob
  <2>2. /\ Head(jobs) = jobs[1] /\ Len(jobs') = Len(jobs) - 1
        /\ \A j \in 1..Len(jobs') : jobs'[j] = jobs[j + 1]
    BY <1>3
  <2>3. i # 1 /\ i - 1 \in 1..Len(jobs') /\ (i - 1) + 1 = i
    BY <1>1, <1>3, <2>1, <2>2
  <2>4. QED
    BY <2>1, <2>2, <2>3 DEF HasJob
<1>4. QED
  BY <1>2, <1>3 DEF HasJob, AllJobs

\* A retry is scheduled, or nothing is undisturbed any more.
LEMMA ScheduleRuns ==
  ASSUME RetryTypes, BusyInv, ScheduleRetry
  PROVE  BusyInv' /\ (mishaps' = {} => mishaps = {} /\ retry'.timer = "running")
<1>1. retry \in Retries
  BY DEF RetryTypes
<1>2. CASE CleanRetry /\ mishaps' # {}
  BY <1>2 DEF CleanRetry, NoRetry, BusyInv
<1>3. CASE retry.busy /\ retry' = [retry EXCEPT !.count = retry.count + 1] /\ UNCHANGED mishaps
  BY <1>1, <1>3 DEF BusyInv, Retries
<1>4. CASE /\ retry' = [count |-> retry.count + 1, busy |-> TRUE, timer |-> "running"]
           /\ UNCHANGED mishaps
  BY <1>4 DEF BusyInv
<1>5. QED
  BY <1>2, <1>3, <1>4 DEF ScheduleRetry, Mishap

\* A step that takes nothing away that pursues the request.
LEMMA PursuitKept ==
  ASSUME PursuitInv, BusyInv, RetryTypes,
         Undisturbed' => Undisturbed,
         Unsent' => Unsent \/ HasJob',
         HasJob => HasJob',
         UNCHANGED <<starting, onConnect, conn, timerTask, retry>>
  PROVE  PursuitInv' /\ BusyInv'
BY DEF PursuitInv, BusyInv, Pursued, PursuedElsewhere, Locked, HasJob

\* StartMapping queues the request or goes on holding the lock.
LEMMA StartPursued ==
  ASSUME MappingInv, PursuitInv, BusyInv, NEW user \in AllUsers, StartMapping(user)
  PROVE  PursuitInv' /\ BusyInv'
<1>1. jobs \in Seq(AllJobs)
  BY DEF MappingInv, QueueTypes
<1>2. Undisturbed' => Undisturbed
  BY DEF StartMapping, DetectReset, Mishap, Undisturbed
<1>3. UNCHANGED <<retry, timerTask, onConnect, conn>>
  BY DEF StartMapping, retries
<1>4. CASE Queued("mapping") /\ UNCHANGED starting
  <2>1. HasJob'
    BY <1>1, <1>4, JobWaits DEF Queued
  <2>2. starting' # "register"
    BY <1>4 DEF StartMapping, Locked
  <2>3. QED
    BY <1>3, <2>1, <2>2 DEF PursuitInv, BusyInv, Pursued, PursuedElsewhere, HasJob
<1>5. CASE starting' = "full"
  BY <1>3, <1>5 DEF PursuitInv, BusyInv, Pursued, PursuedElsewhere, Locked
<1>6. QED
  BY <1>4, <1>5 DEF StartMapping

\* The end of a start that found the queue full.
LEMMA FullPursued ==
  ASSUME MappingInv, PursuitInv, BusyInv, StartFull \/ StartRegister
  PROVE  PursuitInv' /\ BusyInv'
<1>0. RetryTypes
  BY DEF MappingInv
<1>1. CASE StartFull /\ conn
  <2>1. ScheduleRetry
    BY <1>1 DEF StartFull
  <2>2. BusyInv' /\ (mishaps' = {} => retry'.timer = "running")
    BY <1>0, <2>1, ScheduleRuns
  <2>3. starting' = "idle" /\ (Undisturbed' => timerTask' = "idle")
    BY <1>1 DEF StartFull, Undisturbed
  <2>4. QED
    BY <2>2, <2>3 DEF PursuitInv, Pursued, Undisturbed
<1>2. CASE StartFull /\ ~conn
  BY <1>2 DEF StartFull, retries, PursuitInv, BusyInv, Pursued, PursuedElsewhere, Locked
<1>3. CASE StartRegister /\ onConnect' = TRUE /\ UNCHANGED mishaps
  <2>1. Undisturbed' => Undisturbed /\ ~conn'
    BY <1>3 DEF StartRegister, Undisturbed, PursuitInv
  <2>2. QED
    BY <1>3, <2>1 DEF StartRegister, retries, PursuitInv, BusyInv, Pursued, PursuedElsewhere
<1>4. CASE StartRegister /\ Mishap("memory")
  BY <1>4 DEF StartRegister, retries, Mishap, Undisturbed, PursuitInv, BusyInv
<1>5. QED
  BY <1>1, <1>2, <1>3, <1>4 DEF StartRegister

\* What the work queue task and the event loop do.
LEMMA TaskPursued ==
  ASSUME MappingInv, PursuitInv, BusyInv,
         \/ CoreConnected \/ CoreCheck \/ CoreWait
         \/ Send \/ SendFails \/ SendNothing \/ InitParams
         \/ PubAcked \/ PubIgnored \/ Received \/ StartNoMemory \/ TimerStopped
  PROVE  PursuitInv' /\ BusyInv'
<1>1. jobs \in Seq(AllJobs) /\ RetryTypes
  BY DEF MappingInv, QueueTypes
<1>2. UNCHANGED <<starting, onConnect, conn, timerTask, retry>>
  BY DEF CoreConnected, CoreCheck, CoreWait, Send, SendFails, SendNothing, InitParams,
         PubAcked, PubIgnored, Received, StartNoMemory, TimerStopped, retries
<1>3. CASE CoreConnected \/ CoreCheck \/ CoreWait \/ PubIgnored \/ Received \/ TimerStopped
  <2>1. jobs' = jobs /\ request' = request /\ (Undisturbed' => Undisturbed)
    BY <1>3 DEF CoreConnected, CoreCheck, CoreWait, PubIgnored, Received, TimerStopped,
                mapping, Mishap, Undisturbed
  <2>2. QED
    BY <1>1, <1>2, <2>1, PursuitKept DEF Unsent, HasJob
<1>4. CASE Send
  <2>1. ~Unsent'
    BY <1>4 DEF Send, Unsent, MappingInv, RequestTypes, Requests
  <2>2. QED
    BY <1>2, <1>4, <2>1 DEF Send, Locked, PursuitInv, BusyInv
<1>5. CASE SendFails \/ StartNoMemory
  BY <1>2, <1>5 DEF SendFails, StartNoMemory, Mishap, PursuitInv, BusyInv, Undisturbed
<1>6. CASE SendNothing
  <2>1. CASE Mishap("lock")
    BY <1>2, <2>1 DEF Mishap, PursuitInv, BusyInv, Undisturbed
  <2>2. CASE ~Locked /\ ~Unsent
    BY <1>2, <1>6, <2>2 DEF SendNothing, mapping, Unsent, Locked, PursuitInv, BusyInv
  <2>3. QED
    BY <1>6, <2>1, <2>2 DEF SendNothing
<1>7. CASE InitParams
  <2>1. request' = request /\ (Undisturbed' => Undisturbed) /\ (HasJob => HasJob')
    BY <1>1, <1>7, JobWaits DEF InitParams, Job, mapping, Undisturbed
  <2>2. QED
    BY <1>1, <1>2, <2>1, PursuitKept DEF Unsent
<1>8. CASE PubAcked
  <2>1. ~Unsent' /\ starting' = "idle"
    BY <1>2, <1>8 DEF PubAcked, Unsent, Locked, MappingInv, PlaceTypes
  <2>2. QED
    BY <1>2, <2>1 DEF PursuitInv, BusyInv
<1>9. QED
  BY <1>3, <1>4, <1>5, <1>6, <1>7, <1>8

\* The connection comes and goes.
LEMMA ConnectionPursued ==
  ASSUME MappingInv, PursuitInv, BusyInv, RefusedInv, Connected \/ Disconnected
  PROVE  PursuitInv' /\ BusyInv'
<1>1. jobs \in Seq(AllJobs) /\ RetryTypes
  BY DEF MappingInv, QueueTypes
<1>2. CASE Disconnected
  BY <1>2 DEF Disconnected, mapping, retries, PursuitInv, BusyInv, Pursued, PursuedElsewhere,
              HasJob, Locked, Unsent, Undisturbed
<1>3. CASE Connected
  <2>1. /\ UNCHANGED <<request, starting, timerTask>> /\ conn' = TRUE /\ onConnect' = FALSE
        /\ Undisturbed' => starting # "register"
    BY <1>3 DEF Connected, mapping, Undisturbed
  <2>2. CASE ~onConnect
    <3>1. jobs' = jobs /\ retry' = retry /\ mishaps' = mishaps /\ (Undisturbed' => Undisturbed)
      BY <1>3, <2>2 DEF Connected, retries, Undisturbed
    <3>2. QED
      BY <2>1, <2>2, <3>1 DEF PursuitInv, BusyInv, Pursued, PursuedElsewhere, HasJob,
                              Locked, Unsent
  <2>3. CASE onConnect /\ Queued("mapping") /\ UNCHANGED <<retries, mishaps>>
    <3>1. HasJob'
      BY <1>1, <2>3, JobWaits DEF Queued
    <3>2. QED
      BY <2>1, <2>3, <3>1 DEF PursuitInv, BusyInv, Pursued, PursuedElsewhere, HasJob, retries
  <2>4. CASE onConnect /\ Refused /\ ScheduleRetry
    <3>1. BusyInv' /\ (mishaps' = {} => retry'.timer = "running")
      BY <1>1, <2>4, ScheduleRuns
    <3>2. Undisturbed' => timerTask' = "idle"
      <4>1. refused' > refused
        BY <2>4 DEF Refused, RefusedInv
      <4>2. QED
        BY <1>3, <4>1 DEF Connected, Undisturbed
    <3>3. QED
      BY <2>1, <3>1, <3>2 DEF PursuitInv, Pursued, Undisturbed
  <2>5. QED
    BY <1>3, <2>2, <2>3, <2>4 DEF Connected
<1>4. QED
  BY <1>2, <1>3

\* The retry timer and its callback.
LEMMA TimerPursued ==
  ASSUME MappingInv, PursuitInv, BusyInv, TimerTask
  PROVE  PursuitInv' /\ BusyInv'
<1>1. jobs \in Seq(AllJobs) /\ RetryTypes /\ retry \in Retries
  BY DEF MappingInv, QueueTypes, RetryTypes
<1>2. CASE TimerFires
  <2>1. timerTask' = "add" /\ retry'.busy = FALSE
    BY <1>1, <1>2 DEF TimerFires, Retries
  <2>2. QED
    BY <1>2, <2>1 DEF TimerFires, PursuitInv, BusyInv, Pursued, Undisturbed
<1>3. CASE TimerAdds
  <2>1. UNCHANGED <<request, starting, retry, conn, onConnect>> /\ (Undisturbed' => Undisturbed)
    BY <1>3 DEF TimerAdds, mapping, retries, Undisturbed
  <2>2. CASE Queued("mapping")
    <3>1. HasJob'
      BY <1>1, <2>2, JobWaits DEF Queued
    <3>2. QED
      BY <2>1, <3>1 DEF PursuitInv, BusyInv, Pursued, PursuedElsewhere, HasJob
  <2>3. CASE timerTask' = "retry"
    BY <2>1, <2>3 DEF PursuitInv, BusyInv, Pursued
  <2>4. QED
    BY <1>3, <2>2, <2>3 DEF TimerAdds
<1>4. CASE TimerDone
  <2>1. /\ UNCHANGED <<request, starting, jobs, conn, onConnect>> /\ timerTask' = "idle"
        /\ UNCHANGED crossed
    BY <1>4 DEF TimerDone, mapping
  <2>2. CASE timerTask = "clean" /\ CleanRetry /\ UNCHANGED mishaps
    <3>1. ~retry'.busy
      BY <2>2 DEF CleanRetry, NoRetry
    <3>2. QED
      BY <2>1, <2>2, <3>1 DEF PursuitInv, BusyInv, Pursued, PursuedElsewhere, HasJob,
                              Locked, Unsent, Undisturbed
  <2>3. CASE ScheduleRetry
    <3>1. BusyInv' /\ (mishaps' = {} => mishaps = {} /\ retry'.timer = "running")
      BY <1>1, <2>3, ScheduleRuns
    <3>2. QED
      BY <2>1, <3>1 DEF PursuitInv, Pursued, Undisturbed
  <2>4. QED
    BY <1>4, <2>2, <2>3 DEF TimerDone
<1>5. QED
  BY <1>2, <1>3, <1>4 DEF TimerTask

LEMMA RebootPursued ==
  ASSUME Reboot
  PROVE  PursuitInv' /\ BusyInv'
BY DEF Reboot, NoRetry, Unsent, PursuitInv, BusyInv

LEMMA StillPursued ==
  ASSUME PursuitInv, BusyInv, UNCHANGED vars
  PROVE  PursuitInv' /\ BusyInv'
BY DEF vars, mapping, retries, PursuitInv, BusyInv, Pursued, PursuedElsewhere, HasJob,
       Locked, Unsent, Undisturbed

\* Every step keeps the count of refused jobs a number.
LEMMA RefusedCounts == Spec => []RefusedInv
<1>1. Init => RefusedInv
  BY DEF Init, RefusedInv
<1>2. RefusedInv /\ [Next]_vars => RefusedInv'
  <2> SUFFICES ASSUME RefusedInv, [Next]_vars PROVE refused' \in {refused, refused + 1}
    BY DEF RefusedInv
  <2>1. CASE Start \/ CoreReset
    BY <2>1 DEF Start, CoreReset, StartMapping, Queued, Refused
  <2>2. CASE StartNoMemory \/ StartFull \/ StartRegister
    BY <2>2 DEF StartNoMemory, StartFull, StartRegister, counts
  <2>3. CASE WorkQueue /\ ~CoreReset
    BY <2>3 DEF WorkQueue, CoreConnected, CoreCheck, CoreWait, Send, SendFails, SendNothing,
                InitParams, counts
  <2>4. CASE TimerTask \/ TimerStopped
    BY <2>4 DEF TimerTask, TimerFires, TimerAdds, TimerDone, TimerStopped, Queued, Refused, counts
  <2>5. CASE PubAcked \/ PubIgnored \/ Received
    BY <2>5 DEF PubAcked, PubIgnored, Received, Outcome, Queued, Refused, counts
  <2>6. CASE Connected \/ Disconnected
    BY <2>6 DEF Connected, Disconnected, Queued, Refused, counts
  <2>7. CASE Reboot \/ UNCHANGED vars
    BY <2>7 DEF Reboot, vars, counts
  <2>8. QED
    BY <2>1, <2>2, <2>3, <2>4, <2>5, <2>6, <2>7 DEF Next, WorkQueue
<1>3. QED
  BY <1>1, <1>2, PTL DEF Spec

\* Every step keeps the request pursued.
LEMMA PursuitInductive == Spec => [](PursuitInv /\ BusyInv)
<1>1. Init => PursuitInv /\ BusyInv
  BY DEF Init, NoRetry, Unsent, PursuitInv, BusyInv
<1>2. /\ MappingInv /\ PursuitInv /\ BusyInv /\ RefusedInv /\ [Next]_vars
      => PursuitInv' /\ BusyInv'
  <2> SUFFICES ASSUME MappingInv, PursuitInv, BusyInv, RefusedInv, [Next]_vars
               PROVE  PursuitInv' /\ BusyInv'
    OBVIOUS
  <2>1. CASE Start \/ CoreReset
    <3>1. PICK user \in AllUsers : StartMapping(user)
      BY <2>1 DEF Start, CoreReset, AllUsers
    <3>2. QED
      BY <3>1, StartPursued
  <2>2. CASE StartFull \/ StartRegister
    BY <2>2, FullPursued
  <2>3. CASE \/ WorkQueue /\ ~CoreReset
             \/ PubAcked \/ PubIgnored \/ Received \/ StartNoMemory \/ TimerStopped
    BY <2>3, TaskPursued DEF WorkQueue
  <2>4. CASE Connected \/ Disconnected
    BY <2>4, ConnectionPursued
  <2>5. CASE TimerTask
    BY <2>5, TimerPursued
  <2>6. CASE Reboot \/ UNCHANGED vars
    BY <2>6, RebootPursued, StillPursued
  <2>7. QED
    BY <2>1, <2>2, <2>3, <2>4, <2>5, <2>6 DEF Next, WorkQueue
<1>3. QED
  BY <1>1, <1>2, Inductive, RefusedCounts, PTL DEF Spec

\* For any number of retries, mappings and refused jobs: unless something failed,
\* a retry was scheduled during the timer callback, or the connection came up
\* before the wait for it was registered, a request that has not been sent has a
\* job, a retry, a start in progress or a wait for the connection to send it.
THEOREM MappingRequestPursued == Spec => []RequestPursued
<1>1. PursuitInv => RequestPursued
  BY DEF PursuitInv, Undisturbed, RequestPursued
<1>2. QED
  BY <1>1, PursuitInductive, PTL
=============================================================================
