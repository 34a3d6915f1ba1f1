------------------------- MODULE OtaWorkflowProofs --------------------------
(***************************************************************************)
(* Proofs about OtaWorkflow: types, one job at a time, an image to go back *)
(* to as long as the running one has not been validated, and, while        *)
(* nothing fails, reports that agree with the image that is kept.          *)
(***************************************************************************)
EXTENDS OtaWorkflow, TLAPS

(* The parts of TypeOK, by what it takes to prove them. *)

Booleans ==
  /\ rollback \in BOOLEAN /\ boot \in BOOLEAN /\ flag \in BOOLEAN /\ inProgress \in BOOLEAN
  /\ rolledBack \in BOOLEAN /\ subscribed \in BOOLEAN /\ timer \in BOOLEAN
  /\ fetching \in BOOLEAN /\ rebooting \in BOOLEAN /\ crossed \in BOOLEAN
  /\ unnamed \in BOOLEAN

Counters ==
  /\ attempt \in 0..MaxAttempts /\ offers \in 0..MaxOffers
  /\ cuts \in 0..MaxCuts /\ mishaps \in 0..MaxMishaps

States ==
  /\ running \in Images /\ spare \in Images \cup {Junk} /\ status \in {"valid", "pending"}
  /\ jobId \in Jobs \cup {NoJob} /\ up \in {"booting", "running"} /\ job \in Jobs \cup {NoJob}
  /\ work \in {"idle", "queued", "attempt", "header", "write", "success"}
  /\ marking \in {"idle", "marked", "unflagged", "report", "erase", "fetch"}
  /\ timerTask \in {"idle", "rollback"}
  /\ arrival \in {"idle", "accepted", "stored", "named"}
  /\ coming \in Jobs \cup {NoJob} /\ found \in Jobs \cup {NoJob}
  /\ last \in [Jobs -> Standings] /\ lastSuccess \in Images

\* From the message to the work queue ota_in_progress keeps other jobs away, and
\* the job is the one whose id is in NVS, or it is known to be another (unnamed).
ArrivalInv ==
  /\ arrival # "idle" => inProgress /\ work = "idle" /\ up = "running" /\ subscribed
  /\ arrival \in {"accepted", "stored"} => coming # NoJob
  /\ arrival = "stored" => coming = jobId \/ unnamed
  /\ arrival = "named" => job # NoJob /\ (job = jobId \/ unnamed)

\* As long as the running image awaits validation the work queue has no job, and
\* once the node is up ota_in_progress is set, so that none can arrive.
PendingInv ==
  /\ status = "pending" => work = "idle" /\ arrival = "idle"
  /\ status = "pending" /\ up = "running" => inProgress

\* Until the validation clears ota_in_progress, no job is under way that could
\* rely on it.
MarkingInv ==
  /\ marking \in {"marked", "unflagged"} =>
       status = "valid" /\ inProgress /\ work = "idle" /\ arrival = "idle"
  /\ marking = "erase" => found # NoJob

JobInv == OneJobAtATime /\ PreviousImageKept /\ ArrivalInv /\ PendingInv /\ MarkingInv

WorkflowInv == Booleans /\ Counters /\ States /\ JobInv

-----------------------------------------------------------------------------
(* Facts about images and reports *)

\* The nothing in an erased partition is no image.
LEMMA ImageFacts == Factory # Junk /\ \A i \in Images : i # Junk
BY WorkflowAssumption DEF Images, Factory, Junk

\* Telling the cloud leaves the reports well-typed.
LEMMA TellType ==
  ASSUME States, NEW j \in Jobs, NEW s, Tell(j, s)
  PROVE  last' \in [Jobs -> Standings] /\ lastSuccess' \in Images
<1>1. Standing(s) \in Standings
  BY DEF Standing, Standings
<1> QED
  BY <1>1 DEF Tell, States, Images

\* So does a status sent for a job, whether or not it arrives.
LEMMA SendType ==
  ASSUME Counters, States, NEW j \in Jobs, NEW s, Send(j, s)
  PROVE  last' \in [Jobs -> Standings] /\ lastSuccess' \in Images /\ mishaps' \in 0..MaxMishaps
<1>1. CASE Tell(j, s) /\ UNCHANGED mishaps
  BY <1>1, TellType DEF Counters
<1>2. CASE Mishap /\ UNCHANGED reports
  BY <1>2, WorkflowAssumption DEF Mishap, reports, Counters, States
<1> QED
  BY <1>1, <1>2 DEF Send

\* So does one for the job whose id has been read from NVS.
LEMMA SendStoredType ==
  ASSUME Counters, States, NEW j \in Jobs, NEW s, SendStored(j, s)
  PROVE  /\ last' \in [Jobs -> Standings] /\ lastSuccess' \in Images
         /\ mishaps' \in 0..MaxMishaps
         /\ jobId' \in {jobId, NoJob}
<1>1. CASE Send(j, s) /\ jobId' = NoJob
  BY <1>1, SendType
<1>2. CASE Tell(j, s) /\ UNCHANGED jobId /\ Mishap
  BY <1>2, TellType, WorkflowAssumption DEF Mishap, Counters
<1> QED
  BY <1>1, <1>2 DEF SendStored

\* So does a report for the job in hand, which keeps the id in NVS.
LEMMA ReportType ==
  ASSUME Counters, States, job # NoJob, NEW s, Report(s)
  PROVE  /\ last' \in [Jobs -> Standings] /\ lastSuccess' \in Images
         /\ mishaps' \in 0..MaxMishaps /\ jobId' = jobId
BY SendType DEF Report, States

\* A report after a reboot erases the id in NVS only if there is no job in hand.
LEMMA StoredType ==
  ASSUME Counters, States, NEW s, ReportStored(s)
  PROVE  /\ last' \in [Jobs -> Standings] /\ lastSuccess' \in Images
         /\ mishaps' \in 0..MaxMishaps
         /\ jobId' \in {jobId, NoJob}
         /\ job # NoJob => jobId' = jobId
<1>1. CASE job # NoJob /\ Report(s)
  BY <1>1, ReportType DEF States
<1>2. CASE job = NoJob /\ jobId # NoJob /\ SendStored(jobId, s)
  BY <1>2, SendStoredType DEF States
<1>3. CASE /\ job = NoJob /\ UNCHANGED <<reports, jobId>>
           /\ UNCHANGED mishaps \/ Mishap
  BY <1>3, WorkflowAssumption DEF States, Counters, reports, Mishap
<1> QED
  BY <1>1, <1>2, <1>3 DEF ReportStored

-----------------------------------------------------------------------------
(* The steps *)

\* Every step keeps the flags Boolean.
LEMMA BooleansStep ==
  ASSUME WorkflowInv, [Next]_vars
  PROVE  Booleans'
<1> USE WorkflowAssumption
    DEF WorkflowInv, Booleans, Offered, Late,
        image, nvs, handle, messages, tasks, workflow, reports
<1>1. ASSUME NEW j \in Jobs, JobAccepted(j) PROVE Booleans'
  BY <1>1 DEF JobAccepted
<1>2. ASSUME NEW j \in Jobs, JobIgnored(j) PROVE Booleans'
  BY <1>2 DEF JobIgnored
<1>3. CASE JobDropped
  BY <1>3 DEF JobDropped
<1>4. CASE MessageGarbled
  BY <1>4 DEF MessageGarbled
<1>5. CASE FetchEnds
  BY <1>5 DEF FetchEnds
<1>6. CASE WorkFn
  BY <1>6 DEF WorkFn
<1>7. CASE Begin
  BY <1>7 DEF Begin
<1>8. CASE Postpone
  BY <1>8 DEF Postpone, Finish
<1>9. CASE NoSize
  BY <1>9 DEF NoSize, Finish
<1>10. CASE StartAttempt
  BY <1>10 DEF StartAttempt
<1>11. CASE Erase
  BY <1>11 DEF Erase
<1>12. CASE Reject
  BY <1>12 DEF Reject, Finish
<1>13. CASE AttemptFails
  BY <1>13 DEF AttemptFails, Finish
<1>14. CASE Install
  BY <1>14 DEF Install, Images
<1>15. CASE Succeed
  BY <1>15 DEF Succeed, Finish
<1>16. CASE Restart
  BY <1>16 DEF Restart, Boot, Fresh, Swap
<1>17. CASE PowerCut
  BY <1>17 DEF PowerCut, Boot, Fresh, Swap
<1>18. CASE Manage
  BY <1>18 DEF Manage
<1>19. CASE DiagnosticsFail
  <2>1. CASE spare = Junk
    BY <1>19, <2>1 DEF DiagnosticsFail, RollBack
  <2>2. CASE spare # Junk
    BY <1>19, <2>2 DEF DiagnosticsFail, RollBack, Fresh
  <2> QED
    BY <2>1, <2>2
<1>20. CASE MarkValid
  BY <1>20 DEF MarkValid
<1>21. CASE EraseFlag
  BY <1>21 DEF EraseFlag
<1>22. CASE StopTimer
  BY <1>22 DEF StopTimer
<1>23. CASE ReportValid
  BY <1>23 DEF ReportValid
<1>24. CASE MarkInvalid
  <2>1. CASE spare = Junk
    BY <1>24, <2>1 DEF MarkInvalid, RollBack
  <2>2. CASE spare # Junk
    BY <1>24, <2>2 DEF MarkInvalid, RollBack, Fresh
  <2> QED
    BY <2>1, <2>2
<1>25. CASE TimerFires
  BY <1>25 DEF TimerFires
<1>26. CASE TimerRollsBack
  BY <1>26 DEF TimerRollsBack, RollBack, Fresh, Swap
<1>27. CASE UNCHANGED vars
  BY <1>27 DEF vars
<1>28. CASE StoreId
  BY <1>28 DEF StoreId
<1>29. CASE NameJob
  BY <1>29 DEF NameJob
<1>30. CASE QueueJob
  BY <1>30 DEF QueueJob
<1>31. CASE ReportFound
  BY <1>31 DEF ReportFound
<1>32. CASE FetchNext
  BY <1>32 DEF FetchNext
<1> QED
  BY <1>1, <1>2, <1>3, <1>4, <1>5, <1>6, <1>7, <1>8, <1>9, <1>10, <1>11, <1>12, <1>13, <1>14,
     <1>15, <1>16, <1>17, <1>18, <1>19, <1>20, <1>21, <1>22, <1>23, <1>24, <1>25, <1>26, <1>27,
     <1>28, <1>29, <1>30, <1>31, <1>32
     DEF Next, Arrival, WorkQueue, Marking

\* Every step keeps the counters within their bounds: the retry loop stops in time.
LEMMA CountersStep ==
  ASSUME WorkflowInv, [Next]_vars
  PROVE  Counters'
<1> USE WorkflowAssumption
    DEF WorkflowInv, Counters, Mishap, Offered, JobInv, OneJobAtATime, MarkingInv, States,
        image, nvs, handle, messages, tasks, workflow, reports
<1>1. ASSUME NEW j \in Jobs, JobAccepted(j) PROVE Counters'
  BY <1>1 DEF JobAccepted
<1>2. ASSUME NEW j \in Jobs, JobIgnored(j) PROVE Counters'
  BY <1>2 DEF JobIgnored
<1>3. CASE JobDropped
  BY <1>3 DEF JobDropped
<1>4. CASE MessageGarbled
  BY <1>4 DEF MessageGarbled
<1>5. CASE FetchEnds
  BY <1>5 DEF FetchEnds
<1>6. CASE WorkFn
  BY <1>6, StoredType DEF WorkFn
<1>7. CASE Begin
  BY <1>7 DEF Begin
<1>8. CASE Postpone
  BY <1>8, ReportType DEF Postpone, Finish
<1>9. CASE NoSize
  BY <1>9 DEF NoSize, Finish
<1>10. CASE StartAttempt
  BY <1>10, ReportType DEF StartAttempt
<1>11. CASE Erase
  BY <1>11, ReportType DEF Erase
<1>12. CASE Reject
  BY <1>12, ReportType DEF Reject, Finish
<1>13. CASE AttemptFails
  BY <1>13, ReportType DEF AttemptFails, Finish
<1>14. CASE Install
  BY <1>14, ReportType DEF Install, Images
<1>15. CASE Succeed
  BY <1>15, ReportType DEF Succeed, Finish
<1>16. CASE Restart
  BY <1>16 DEF Restart, Boot, Fresh, Swap
<1>17. CASE PowerCut
  BY <1>17 DEF PowerCut, Boot, Fresh, Swap
<1>18. CASE Manage
  BY <1>18 DEF Manage
<1>19. CASE DiagnosticsFail
  BY <1>19 DEF DiagnosticsFail, RollBack, Fresh, Swap
<1>20. CASE MarkValid
  BY <1>20 DEF MarkValid
<1>21. CASE EraseFlag
  BY <1>21 DEF EraseFlag
<1>22. CASE StopTimer
  BY <1>22 DEF StopTimer
<1>23. CASE ReportValid
  BY <1>23, ReportType DEF ReportValid
<1>24. CASE MarkInvalid
  BY <1>24 DEF MarkInvalid, RollBack, Fresh, Swap
<1>25. CASE TimerFires
  BY <1>25 DEF TimerFires
<1>26. CASE TimerRollsBack
  BY <1>26 DEF TimerRollsBack, RollBack, Fresh, Swap
<1>27. CASE UNCHANGED vars
  BY <1>27 DEF vars
<1>28. CASE StoreId
  BY <1>28 DEF StoreId
<1>29. CASE NameJob
  BY <1>29 DEF NameJob
<1>30. CASE QueueJob
  BY <1>30 DEF QueueJob
<1>31. CASE ReportFound
  BY <1>31, SendStoredType DEF ReportFound
<1>32. CASE FetchNext
  BY <1>32 DEF FetchNext
<1> QED
  BY <1>1, <1>2, <1>3, <1>4, <1>5, <1>6, <1>7, <1>8, <1>9, <1>10, <1>11, <1>12, <1>13, <1>14,
     <1>15, <1>16, <1>17, <1>18, <1>19, <1>20, <1>21, <1>22, <1>23, <1>24, <1>25, <1>26, <1>27,
     <1>28, <1>29, <1>30, <1>31, <1>32
     DEF Next, Arrival, WorkQueue, Marking

\* Every step keeps the rest of the state well-typed.
LEMMA StatesStep ==
  ASSUME WorkflowInv, [Next]_vars
  PROVE  States'
<1> USE WorkflowAssumption, ImageFacts
    DEF WorkflowInv, States, Standings, Mishap, JobInv, OneJobAtATime, PreviousImageKept,
        ArrivalInv, MarkingInv, image, nvs, handle, messages, tasks, workflow, reports
<1>1. ASSUME NEW j \in Jobs, JobAccepted(j) PROVE States'
  BY <1>1 DEF JobAccepted
<1>2. ASSUME NEW j \in Jobs, JobIgnored(j) PROVE States'
  BY <1>2 DEF JobIgnored
<1>3. CASE JobDropped
  BY <1>3 DEF JobDropped
<1>4. CASE MessageGarbled
  BY <1>4 DEF MessageGarbled
<1>5. CASE FetchEnds
  BY <1>5 DEF FetchEnds
<1>6. CASE WorkFn
  BY <1>6, StoredType DEF WorkFn
<1>7. CASE Begin
  BY <1>7 DEF Begin
<1>8. CASE Postpone
  BY <1>8, ReportType DEF Postpone, Finish
<1>9. CASE NoSize
  BY <1>9 DEF NoSize, Finish
<1>10. CASE StartAttempt
  BY <1>10, ReportType DEF StartAttempt
<1>11. CASE Erase
  BY <1>11, ReportType DEF Erase
<1>12. CASE Reject
  BY <1>12, ReportType DEF Reject, Finish
<1>13. CASE AttemptFails
  BY <1>13, ReportType DEF AttemptFails, Finish
<1>14. CASE Install
  BY <1>14, ReportType DEF Install, Images
<1>15. CASE Succeed
  BY <1>15, ReportType DEF Succeed, Finish
<1>16. CASE Restart
  BY <1>16 DEF Restart, Boot, Fresh, Swap
<1>17. CASE PowerCut
  BY <1>17 DEF PowerCut, Boot, Fresh, Swap
<1>18. CASE Manage
  BY <1>18 DEF Manage
<1>19. CASE DiagnosticsFail
  BY <1>19 DEF DiagnosticsFail, RollBack, Fresh, Swap
<1>20. CASE MarkValid
  BY <1>20 DEF MarkValid
<1>21. CASE EraseFlag
  BY <1>21 DEF EraseFlag
<1>22. CASE StopTimer
  BY <1>22 DEF StopTimer
<1>23. CASE ReportValid
  BY <1>23, ReportType DEF ReportValid
<1>24. CASE MarkInvalid
  BY <1>24 DEF MarkInvalid, RollBack, Fresh, Swap
<1>25. CASE TimerFires
  BY <1>25 DEF TimerFires
<1>26. CASE TimerRollsBack
  BY <1>26 DEF TimerRollsBack, RollBack, Fresh, Swap
<1>27. CASE UNCHANGED vars
  BY <1>27 DEF vars
<1>28. CASE StoreId
  BY <1>28 DEF StoreId
<1>29. CASE NameJob
  BY <1>29 DEF NameJob
<1>30. CASE QueueJob
  BY <1>30 DEF QueueJob
<1>31. CASE ReportFound
  BY <1>31, SendStoredType DEF ReportFound
<1>32. CASE FetchNext
  BY <1>32 DEF FetchNext
<1> QED
  BY <1>1, <1>2, <1>3, <1>4, <1>5, <1>6, <1>7, <1>8, <1>9, <1>10, <1>11, <1>12, <1>13, <1>14,
     <1>15, <1>16, <1>17, <1>18, <1>19, <1>20, <1>21, <1>22, <1>23, <1>24, <1>25, <1>26, <1>27,
     <1>28, <1>29, <1>30, <1>31, <1>32
     DEF Next, Arrival, WorkQueue, Marking

\* Every step keeps the job in hand, the validation and the previous image apart.
LEMMA JobInvStep ==
  ASSUME WorkflowInv, [Next]_vars
  PROVE  JobInv'
<1> USE WorkflowAssumption, ImageFacts
    DEF WorkflowInv, Booleans, States, Offered, JobInv, OneJobAtATime,
        PreviousImageKept, ArrivalInv, PendingInv, MarkingInv,
        image, nvs, handle, messages, tasks, workflow, reports
<1>1. ASSUME NEW j \in Jobs, JobAccepted(j) PROVE JobInv'
  BY <1>1 DEF JobAccepted
<1>2. ASSUME NEW j \in Jobs, JobIgnored(j) PROVE JobInv'
  BY <1>2 DEF JobIgnored
<1>3. CASE JobDropped
  BY <1>3 DEF JobDropped
<1>4. CASE MessageGarbled
  BY <1>4 DEF MessageGarbled
<1>5. CASE FetchEnds
  BY <1>5 DEF FetchEnds
<1>6. CASE WorkFn
  BY <1>6, StoredType DEF WorkFn
<1>7. CASE Begin
  BY <1>7 DEF Begin
<1>8. CASE Postpone
  BY <1>8, ReportType DEF Postpone, Finish
<1>9. CASE NoSize
  BY <1>9 DEF NoSize, Finish
<1>10. CASE StartAttempt
  BY <1>10, ReportType DEF StartAttempt
<1>11. CASE Erase
  BY <1>11, ReportType DEF Erase
<1>12. CASE Reject
  BY <1>12, ReportType DEF Reject, Finish
<1>13. CASE AttemptFails
  BY <1>13, ReportType DEF AttemptFails, Finish
<1>14. CASE Install
  BY <1>14, ReportType DEF Install, Images
<1>15. CASE Succeed
  BY <1>15, ReportType DEF Succeed, Finish
<1>16. CASE Restart
  BY <1>16 DEF Restart, Boot, Fresh, Swap
<1>17. CASE PowerCut
  BY <1>17 DEF PowerCut, Boot, Fresh, Swap
<1>18. CASE Manage
  BY <1>18 DEF Manage
<1>19. CASE DiagnosticsFail
  BY <1>19 DEF DiagnosticsFail, RollBack, Fresh, Swap
<1>20. CASE MarkValid
  BY <1>20 DEF MarkValid
<1>21. CASE EraseFlag
  BY <1>21 DEF EraseFlag
<1>22. CASE StopTimer
  BY <1>22 DEF StopTimer
<1>23. CASE ReportValid
  BY <1>23, ReportType DEF ReportValid
<1>24. CASE MarkInvalid
  BY <1>24 DEF MarkInvalid, RollBack, Fresh, Swap
<1>25. CASE TimerFires
  BY <1>25 DEF TimerFires
<1>26. CASE TimerRollsBack
  BY <1>26 DEF TimerRollsBack, RollBack, Fresh, Swap
<1>27. CASE UNCHANGED vars
  BY <1>27 DEF vars
<1>28. CASE StoreId
  BY <1>28 DEF StoreId
<1>29. CASE NameJob
  BY <1>29 DEF NameJob
<1>30. CASE QueueJob
  BY <1>30 DEF QueueJob
<1>31. CASE ReportFound
  BY <1>31, SendStoredType DEF ReportFound
<1>32. CASE FetchNext
  BY <1>32 DEF FetchNext
<1> QED
  BY <1>1, <1>2, <1>3, <1>4, <1>5, <1>6, <1>7, <1>8, <1>9, <1>10, <1>11, <1>12, <1>13, <1>14,
     <1>15, <1>16, <1>17, <1>18, <1>19, <1>20, <1>21, <1>22, <1>23, <1>24, <1>25, <1>26, <1>27,
     <1>28, <1>29, <1>30, <1>31, <1>32
     DEF Next, Arrival, WorkQueue, Marking

-----------------------------------------------------------------------------
\* The initial state.
LEMMA InitInv == Init => WorkflowInv
<1> USE WorkflowAssumption, ImageFacts DEF Init
<1>1. Init => Booleans
  BY DEF Booleans
<1>2. Init => Counters
  BY DEF Counters
<1>3. Init => States
  BY DEF States, Standings, Images
<1>4. Init => JobInv
  BY DEF JobInv, OneJobAtATime, PreviousImageKept, ArrivalInv, PendingInv, MarkingInv
<1> QED
  BY <1>1, <1>2, <1>3, <1>4 DEF WorkflowInv

\* WorkflowInv holds in every state of the specification.
THEOREM WorkflowInvariant == Spec => []WorkflowInv
<1>1. WorkflowInv /\ [Next]_vars => WorkflowInv'
  BY BooleansStep, CountersStep, StatesStep, JobInvStep DEF WorkflowInv
<1> QED
  BY InitInv, <1>1, PTL DEF Spec

\* The state is well-typed; in particular no job is tried more often than
\* CONFIG_ESP_RMAKER_OTA_MAX_RETRIES allows (esp_rmaker_ota_retry_loop).
THEOREM WorkflowTypeOK == Spec => []TypeOK
<1>1. WorkflowInv => TypeOK
  BY DEF WorkflowInv, Booleans, Counters, States, TypeOK
<1> QED
  BY WorkflowInvariant, <1>1, PTL

\* A job that is being carried out is the one whose id is in NVS, but for the two
\* cases that unnamed stands for: NVS has not taken it, or the report of a
\* validation has erased it.  No second job replaces it (ota_url_handler).
THEOREM WorkflowOneJobAtATime == Spec => []OneJobAtATime
<1>1. WorkflowInv => OneJobAtATime
  BY DEF WorkflowInv, JobInv
<1> QED
  BY WorkflowInvariant, <1>1, PTL

\* As long as the running image has not been validated, the other partition holds
\* an image to go back to (esp_rmaker_ota_manage_rollback).
THEOREM WorkflowPreviousImageKept == Spec => []PreviousImageKept
<1>1. WorkflowInv => PreviousImageKept
  BY DEF WorkflowInv, JobInv
<1> QED
  BY WorkflowInvariant, <1>1, PTL

-----------------------------------------------------------------------------
(* What the node keeps is what it has reported *)

\* Nothing has failed, and no two actors got in each other's way.
Good == mishaps = 0 /\ ~crossed

\* Before the node is up and has subscribed there is no job, whatever happens.
StartInv ==
  /\ up = "booting" => ~subscribed /\ marking = "idle"
  /\ ~subscribed => work = "idle" /\ ~rebooting
  /\ work = "idle" /\ arrival # "named" => job = NoJob
  /\ flag => rollback

\* In its first run an image is that of the job in NVS, and the one before is
\* that of the last success; so it stays until its own has been reported.
TrialInv ==
  /\ status = "pending" => /\ rollback /\ ~boot /\ ~rolledBack /\ ~rebooting /\ marking = "idle"
                           /\ running = jobId /\ spare # running /\ lastSuccess = spare
  /\ marking # "idle" => /\ status = "valid" /\ ~boot /\ ~rolledBack /\ ~rebooting
                         /\ work = "idle" /\ arrival = "idle" /\ up = "running"
                         /\ marking # "marked" => ~flag
  /\ marking \notin {"idle", "fetch"} => running = jobId
  /\ marking = "erase" => found = jobId
  /\ marking = "fetch" => running = lastSuccess

\* An image is selected from its installation to the reboot, and the id of a job
\* stays in NVS.
SelectedInv ==
  /\ work = "success" => boot
  /\ rebooting => boot /\ work = "idle"
  /\ boot => /\ work = "success" \/ rebooting
             /\ jobId = spare /\ spare # running /\ status = "valid" /\ marking = "idle"
  /\ work \in {"write", "success"} => job # running
  /\ arrival # "idle" => ~rebooting
  /\ ~unnamed

\* A valid image is that of the last success, or gives way to it.
KeptInv ==
  status = "valid" /\ marking = "idle" =>
    lastSuccess = IF boot /\ ~rollback /\ work # "success" THEN spare ELSE running

\* The flag is left over only by an image that the node has left or is about to
\* enter: the one NVS names.
FlagInv ==
  /\ flag /\ status = "valid" /\ marking = "idle" =>
       jobId # NoJob /\ jobId # running /\ (boot \/ up = "booting")
  /\ rolledBack => jobId # NoJob /\ jobId # running /\ ~subscribed /\ status = "valid"

GoodInv == Good => TrialInv /\ SelectedInv /\ KeptInv /\ FlagInv

\* Without a failure a report arrives.
LEMMA ReportSent ==
  ASSUME Counters, NEW s, Report(s)
  PROVE  /\ jobId' = jobId /\ (mishaps' = 0 => mishaps = 0)
         /\ mishaps' = 0 => lastSuccess' = IF s = "success" THEN job ELSE lastSuccess
BY DEF Counters, Report, Send, Tell, Mishap, reports

\* So does one that may take its job from NVS, where the job is then erased.
LEMMA StoredSent ==
  ASSUME Counters, NEW s, ReportStored(s), mishaps' = 0
  PROVE  /\ mishaps = 0
         /\ job = NoJob =>
              /\ jobId' = NoJob
              /\ lastSuccess' = IF s = "success" /\ jobId # NoJob THEN jobId ELSE lastSuccess
BY DEF Counters, ReportStored, SendStored, Report, Send, Tell, Mishap, reports

\* Every step keeps what holds before the node has subscribed.
LEMMA StartInvStep ==
  ASSUME WorkflowInv, StartInv, [Next]_vars
  PROVE  StartInv'
<1> USE WorkflowAssumption
    DEF WorkflowInv, Booleans, States, Offered, StartInv, JobInv, OneJobAtATime, ArrivalInv,
        PendingInv, MarkingInv, image, nvs, handle, messages, tasks, workflow, reports
<1>1. ASSUME NEW j \in Jobs, JobAccepted(j) PROVE StartInv'
  BY <1>1 DEF JobAccepted
<1>2. ASSUME NEW j \in Jobs, JobIgnored(j) PROVE StartInv'
  BY <1>2 DEF JobIgnored
<1>3. CASE JobDropped
  BY <1>3 DEF JobDropped
<1>4. CASE MessageGarbled
  BY <1>4 DEF MessageGarbled
<1>5. CASE FetchEnds
  BY <1>5 DEF FetchEnds
<1>6. CASE WorkFn
  BY <1>6 DEF WorkFn
<1>7. CASE Begin
  BY <1>7 DEF Begin
<1>8. CASE Postpone
  BY <1>8 DEF Postpone, Finish
<1>9. CASE NoSize
  BY <1>9 DEF NoSize, Finish
<1>10. CASE StartAttempt
  BY <1>10 DEF StartAttempt
<1>11. CASE Erase
  BY <1>11 DEF Erase
<1>12. CASE Reject
  BY <1>12 DEF Reject, Finish
<1>13. CASE AttemptFails
  BY <1>13 DEF AttemptFails, Finish
<1>14. CASE Install
  BY <1>14 DEF Install, Images
<1>15. CASE Succeed
  BY <1>15 DEF Succeed, Finish
<1>16. CASE Restart
  BY <1>16 DEF Restart, Boot, Fresh, Swap
<1>17. CASE PowerCut
  BY <1>17 DEF PowerCut, Boot, Fresh, Swap
<1>18. CASE Manage
  BY <1>18 DEF Manage
<1>19. CASE DiagnosticsFail
  BY <1>19 DEF DiagnosticsFail, RollBack, Fresh, Swap
<1>20. CASE MarkValid
  BY <1>20 DEF MarkValid
<1>21. CASE EraseFlag
  BY <1>21 DEF EraseFlag
<1>22. CASE StopTimer
  BY <1>22 DEF StopTimer
<1>23. CASE ReportValid
  BY <1>23 DEF ReportValid
<1>24. CASE MarkInvalid
  BY <1>24 DEF MarkInvalid, RollBack, Fresh, Swap
<1>25. CASE TimerFires
  BY <1>25 DEF TimerFires
<1>26. CASE TimerRollsBack
  BY <1>26 DEF TimerRollsBack, RollBack, Fresh, Swap
<1>27. CASE UNCHANGED vars
  BY <1>27 DEF vars
<1>28. CASE StoreId
  BY <1>28 DEF StoreId
<1>29. CASE NameJob
  BY <1>29 DEF NameJob
<1>30. CASE QueueJob
  BY <1>30 DEF QueueJob
<1>31. CASE ReportFound
  BY <1>31 DEF ReportFound
<1>32. CASE FetchNext
  BY <1>32 DEF FetchNext
<1> QED
  BY <1>1, <1>2, <1>3, <1>4, <1>5, <1>6, <1>7, <1>8, <1>9, <1>10, <1>11, <1>12, <1>13, <1>14,
     <1>15, <1>16, <1>17, <1>18, <1>19, <1>20, <1>21, <1>22, <1>23, <1>24, <1>25, <1>26, <1>27,
     <1>28, <1>29, <1>30, <1>31, <1>32
     DEF Next, Arrival, WorkQueue, Marking

\* What fails is counted.
LEMMA Failing == ASSUME Counters, Mishap PROVE mishaps' # 0
BY DEF Counters, Mishap

\* Every step that neither fails nor crosses another keeps what the reports say.
LEMMA GoodInvStep ==
  ASSUME WorkflowInv, StartInv, GoodInv, [Next]_vars
  PROVE  GoodInv'
<1> SUFFICES ASSUME Good' PROVE GoodInv'
  BY DEF GoodInv
<1>a. mishaps' = 0 /\ ~crossed' /\ ~Mishap /\ Counters
  BY Failing DEF Good, WorkflowInv
<1>b. mishaps = 0 /\ ~crossed => TrialInv /\ SelectedInv /\ KeptInv /\ FlagInv
  BY DEF GoodInv, Good
<1>c. ASSUME NEW s, Report(s)
      PROVE  mishaps = 0 /\ jobId' = jobId
             /\ lastSuccess' = IF s = "success" THEN job ELSE lastSuccess
  BY <1>a, <1>c, ReportSent
<1>d. ASSUME Postpone \/ StartAttempt \/ Erase \/ Reject \/ AttemptFails \/ Install
      PROVE  mishaps = 0 /\ jobId' = jobId /\ lastSuccess' = lastSuccess
  BY <1>c, <1>d DEF Postpone, StartAttempt, Erase, Reject, AttemptFails, Install
<1>e. ASSUME Succeed
      PROVE  mishaps = 0 /\ jobId' = jobId
             /\ lastSuccess' = IF rollback THEN lastSuccess ELSE job
  BY <1>a, <1>c, <1>e DEF Succeed
<1>f. ASSUME NEW s, ReportStored(s), ~crossed,
             TrialInv => job = NoJob
      PROVE  /\ mishaps = 0 /\ jobId' = NoJob
             /\ lastSuccess' = IF s = "success" /\ jobId # NoJob THEN jobId ELSE lastSuccess
  BY <1>a, <1>b, <1>f, StoredSent
<1>g. ASSUME ReportValid
      PROVE  /\ mishaps = 0 /\ jobId' = jobId /\ lastSuccess' = lastSuccess
             /\ marking' = "erase" /\ found' = jobId
  <2>1. mishaps = 0 /\ ~crossed
    BY <1>a, <1>c, <1>g DEF ReportValid
  <2>2. job = NoJob /\ jobId # NoJob
    BY <1>a, <1>b, <1>g, <2>1, WorkflowAssumption
       DEF ReportValid, TrialInv, StartInv, WorkflowInv, States, Images, Factory, NoJob
  <2> QED
    BY <1>a, <1>g, <2>1, <2>2 DEF ReportValid, reports
<1>k. ASSUME ReportFound
      PROVE  mishaps = 0 /\ jobId' = NoJob /\ lastSuccess' = found
  BY <1>a, <1>k DEF ReportFound, SendStored, Send, Tell
<1>h. ASSUME WorkFn, rolledBack
      PROVE  mishaps = 0 /\ jobId' = NoJob /\ lastSuccess' = lastSuccess
  <2>1. ReportStored("rejected") /\ ~crossed /\ (TrialInv => job = NoJob)
    BY <1>a, <1>h DEF WorkFn, StartInv, WorkflowInv, JobInv, ArrivalInv
  <2> QED
    BY <1>f, <2>1
<1>i. ASSUME WorkFn, ~rolledBack
      PROVE  mishaps = 0 /\ jobId' = jobId /\ lastSuccess' = lastSuccess
  BY <1>a, <1>i DEF WorkFn, reports
<1> USE WorkflowAssumption, ImageFacts
    DEF WorkflowInv, Booleans, States, Offered, Late, StartInv, JobInv, OneJobAtATime,
        PreviousImageKept, ArrivalInv, PendingInv, MarkingInv,
        GoodInv, TrialInv, SelectedInv, KeptInv, FlagInv, Images, Factory, Junk, NoJob,
        image, nvs, handle, messages, tasks, workflow, reports
<1>1. ASSUME NEW j \in Jobs, JobAccepted(j) PROVE GoodInv'
  BY <1>a, <1>b, <1>1 DEF JobAccepted
<1>2. ASSUME NEW j \in Jobs, JobIgnored(j) PROVE GoodInv'
  BY <1>a, <1>b, <1>2 DEF JobIgnored
<1>3. CASE JobDropped
  BY <1>a, <1>b, <1>3 DEF JobDropped
<1>4. CASE MessageGarbled
  BY <1>a, <1>b, <1>4 DEF MessageGarbled
<1>5. CASE FetchEnds
  BY <1>a, <1>b, <1>5 DEF FetchEnds
<1>6. CASE WorkFn
  BY <1>a, <1>b, <1>6, <1>h, <1>i DEF WorkFn
<1>7. CASE Begin
  BY <1>a, <1>b, <1>7 DEF Begin
<1>8. CASE Postpone
  BY <1>a, <1>b, <1>8, <1>d DEF Postpone, Finish
<1>9. CASE NoSize
  BY <1>a, <1>b, <1>9 DEF NoSize, Finish
<1>10. CASE StartAttempt
  BY <1>a, <1>b, <1>10, <1>d DEF StartAttempt
<1>11. CASE Erase
  BY <1>a, <1>b, <1>11, <1>d DEF Erase
<1>12. CASE Reject
  BY <1>a, <1>b, <1>12, <1>d DEF Reject, Finish
<1>13. CASE AttemptFails
  BY <1>a, <1>b, <1>13, <1>d DEF AttemptFails, Finish
<1>14. CASE Install
  BY <1>a, <1>b, <1>14, <1>d DEF Install, Images
<1>15. CASE Succeed
  BY <1>a, <1>b, <1>15, <1>e DEF Succeed, Finish
<1>16. CASE Restart
  BY <1>a, <1>b, <1>16 DEF Restart, Boot, Fresh, Swap
<1>17. CASE PowerCut
  BY <1>a, <1>b, <1>17 DEF PowerCut, Boot, Fresh, Swap
<1>18. CASE Manage
  BY <1>a, <1>b, <1>18 DEF Manage
<1>19. CASE DiagnosticsFail
  BY <1>a, <1>b, <1>19 DEF DiagnosticsFail, RollBack, Fresh, Swap
<1>20. CASE MarkValid
  BY <1>a, <1>b, <1>20 DEF MarkValid
<1>21. CASE EraseFlag
  BY <1>a, <1>b, <1>21 DEF EraseFlag
<1>22. CASE StopTimer
  BY <1>a, <1>b, <1>22 DEF StopTimer
<1>23. CASE ReportValid
  BY <1>a, <1>b, <1>23, <1>g DEF ReportValid
<1>24. CASE MarkInvalid
  BY <1>a, <1>b, <1>24 DEF MarkInvalid, RollBack, Fresh, Swap
<1>25. CASE TimerFires
  BY <1>a, <1>b, <1>25 DEF TimerFires
<1>26. CASE TimerRollsBack
  BY <1>a, <1>b, <1>26 DEF TimerRollsBack, RollBack, Fresh, Swap
<1>27. CASE UNCHANGED vars
  BY <1>a, <1>b, <1>27 DEF vars
<1>28. CASE StoreId
  BY <1>a, <1>b, <1>28 DEF StoreId
<1>29. CASE NameJob
  BY <1>a, <1>b, <1>29 DEF NameJob
<1>30. CASE QueueJob
  BY <1>a, <1>b, <1>30 DEF QueueJob
<1>31. CASE ReportFound
  BY <1>a, <1>b, <1>31, <1>k DEF ReportFound
<1>32. CASE FetchNext
  BY <1>a, <1>b, <1>32 DEF FetchNext
<1> QED
  BY <1>1, <1>2, <1>3, <1>4, <1>5, <1>6, <1>7, <1>8, <1>9, <1>10, <1>11, <1>12, <1>13, <1>14,
     <1>15, <1>16, <1>17, <1>18, <1>19, <1>20, <1>21, <1>22, <1>23, <1>24, <1>25, <1>26, <1>27,
     <1>28, <1>29, <1>30, <1>31, <1>32
     DEF Next, Arrival, WorkQueue, Marking

\* The initial state.
LEMMA GoodInit == Init => StartInv /\ GoodInv
BY WorkflowAssumption DEF Init, StartInv, GoodInv, TrialInv, SelectedInv, KeptInv, FlagInv

\* Both, in every state of the specification.
LEMMA GoodInvariant == Spec => [](WorkflowInv /\ StartInv /\ GoodInv)
<1>1. WorkflowInv /\ StartInv /\ GoodInv /\ [Next]_vars => WorkflowInv' /\ StartInv' /\ GoodInv'
  BY BooleansStep, CountersStep, StatesStep, JobInvStep, StartInvStep, GoodInvStep DEF WorkflowInv
<1> QED
  BY InitInv, GoodInit, <1>1, PTL DEF Spec

\* The image the node keeps is that of the last job it reported as a success,
\* whatever the configuration, the number of jobs and of power cuts, as long as no
\* report fails and no two actors cross (esp_rmaker_ota_report_status,
\* esp_rmaker_ota_mark_valid, esp_rmaker_ota_success_reboot_sequence).
THEOREM WorkflowCommittedIsReported == Spec => []CommittedIsReported
<1>1. WorkflowInv /\ GoodInv => CommittedIsReported
  BY DEF WorkflowInv, Booleans, States, GoodInv, Good, TrialInv, KeptInv, CommittedIsReported, Committed
<1> QED
  BY GoodInvariant, <1>1, PTL

\* A node that will say that it was rolled back does not run the image of the job
\* it will name (esp_rmaker_ota_manage_rollback).
THEOREM WorkflowRolledBackIsTrue == Spec => []RolledBackIsTrue
<1>1. GoodInv => RolledBackIsTrue
  BY DEF GoodInv, Good, FlagInv, RolledBackIsTrue
<1> QED
  BY GoodInvariant, <1>1, PTL
=============================================================================
