---------------------------- MODULE OtaWorkflow -----------------------------
(***************************************************************************)
(* The life of an OTA job: it arrives, is downloaded and installed, the    *)
(* node reboots into the new image, validates it or goes back, and tells   *)
(* the cloud what became of the job.                                       *)
(*                                                                         *)
(*   src/components/esp_rainmaker/src/ota/esp_rmaker_ota.c                 *)
(*   src/components/esp_rainmaker/src/ota/esp_rmaker_ota_using_topics.c    *)
(*                                                                         *)
(* Jobs arrive in the MQTT client's task and are carried out in the work   *)
(* queue; CONNECTED validates a new image in the event loop, and a timer   *)
(* rolls it back when that takes too long.  Power may fail at any step.    *)
(* The inside of a download is in MqttOta, the fetch in OtaFetch.          *)
(***************************************************************************)
EXTENDS Naturals

CONSTANTS
  Jobs,             \* OTA jobs; a job's image goes by its name
  RollbackConfigs,  \* values of CONFIG_BOOTLOADER_APP_ROLLBACK_ENABLE to check
  MaxAttempts,      \* CONFIG_ESP_RMAKER_OTA_MAX_RETRIES
  MaxOffers,        \* bound: jobs sent without a fetch, or sent twice
  MaxCuts,          \* bound: power cuts
  MaxMishaps        \* bound: other failures

Factory == "factory image"
Junk    == "no image"
NoJob   == "no job"

ASSUME WorkflowAssumption ==
  /\ Factory \notin Jobs /\ Junk \notin Jobs /\ NoJob \notin Jobs
  /\ RollbackConfigs \subseteq BOOLEAN
  /\ MaxAttempts \in Nat \ {0}
  /\ MaxOffers \in Nat /\ MaxCuts \in Nat /\ MaxMishaps \in Nat

VARIABLES
  rollback,    \* the configuration
  running,     \* image in the running partition
  spare,       \* image in the update partition
  status,      \* state of the running image: valid or pending verification
  boot,        \* the update partition is the boot partition
  jobId, flag, \* NVS: job id and ota_update
  up,          \* before or after esp_rmaker_ota_manage_rollback
  inProgress,  \* ota_in_progress
  arrival,     \* where ota_url_handler is with a message
  coming,      \* the job of the message, until transient_priv names it
  job,         \* transient_priv, and the rest of what the handle has of a job
  rolledBack,  \* rolled_back
  subscribed,  \* esp_rmaker_ota_work_fn has run
  timer,       \* the rollback timer is running
  fetching,    \* a fetch is under way
  rebooting,   \* esp_rmaker_reboot has been called
  work,        \* where the work queue is with the job
  attempt,     \* attempt of esp_rmaker_ota_retry_loop
  marking,     \* where esp_rmaker_ota_mark_valid is
  found,       \* the job id that its report has read from NVS
  timerTask,   \* where the timer task is in esp_ota_rollback
  last,        \* what the last status that the cloud has got says of each job
  lastSuccess, \* history: image of the last job reported as a success
  unnamed,     \* history: NVS may not have the id of the job in hand
  crossed,     \* history: the steps of two actors got in each other's way
  offers, cuts, mishaps    \* history: for the bounds

image    == <<running, spare, status, boot>>
nvs      == <<jobId, flag>>
handle   == <<inProgress, job, rolledBack>>
messages == <<arrival, coming, found, unnamed>>
tasks    == <<up, subscribed, timer, rebooting, marking, timerTask>>
workflow == <<work, attempt>>
reports  == <<last, lastSuccess>>
vars == <<rollback, image, nvs, handle, messages, tasks, fetching, workflow, reports,
          crossed, offers, cuts, mishaps>>

-----------------------------------------------------------------------------
Mishap == mishaps < MaxMishaps /\ mishaps' = mishaps + 1

\* What a status says of a job: it may come again, is being done, or is over.
Standing(s) ==
  IF s = "in-progress" THEN s ELSE IF s = "delayed" THEN "open" ELSE "over"

\* The cloud gets the status of a job.
Tell(j, s) ==
  /\ last' = [last EXCEPT ![j] = Standing(s)]
  /\ lastSuccess' = IF s = "success" THEN j ELSE lastSuccess

\* The status reaches the cloud, or esp_rmaker_mqtt_publish fails.
Send(j, s) ==
  \/ Tell(j, s) /\ UNCHANGED mishaps
  \/ Mishap /\ UNCHANGED reports

\* esp_rmaker_ota_report_status for the job in hand.
Report(s) == Send(job, s) /\ UNCHANGED jobId

\* Without a job in hand the id read from NVS is reported and erased there, unless
\* that fails.
SendStored(j, s) ==
  \/ Send(j, s) /\ jobId' = NoJob
  \/ Tell(j, s) /\ UNCHANGED jobId /\ Mishap

\* Without an id, or when NVS does not give it, nothing is reported.
ReportStored(s) ==
  \/ job # NoJob /\ Report(s)
  \/ job = NoJob /\ jobId # NoJob /\ SendStored(jobId, s)
  \/ /\ job = NoJob /\ UNCHANGED <<reports, jobId>>
     /\ (jobId = NoJob /\ UNCHANGED mishaps) \/ (jobId # NoJob /\ Mishap)

\* esp_rmaker_ota_finish_using_topics, at the end of esp_rmaker_ota_common_cb.
Finish == work' = "idle" /\ attempt' = 0 /\ inProgress' = FALSE /\ job' = NoJob

-----------------------------------------------------------------------------
(* ota_url_handler *)

\* The cloud answers a fetch with a job it has no final status of.  It may also
\* send one unasked, and the broker may repeat it.
Offered(j) ==
  /\ up = "running" /\ subscribed
  /\ \/ fetching /\ last[j] # "over"
        /\ fetching' = FALSE /\ UNCHANGED offers
     \/ offers < MaxOffers /\ offers' = offers + 1 /\ UNCHANGED fetching

\* A job comes although the node is about to reboot, or before the success of
\* the one before has been reported.
Late == rebooting \/ marking # "idle"

\* Mutant: a job in progress is not looked for.
JobAlwaysAccepted(j) ==
  /\ Offered(j) /\ arrival = "idle"
  /\ inProgress' = TRUE /\ crossed' = (crossed \/ Late)
  /\ arrival' = "accepted" /\ coming' = j /\ unnamed' = FALSE
  /\ UNCHANGED <<rollback, image, nvs, job, rolledBack, found, tasks, workflow, reports,
                 cuts, mishaps>>

JobAccepted(j) ==
  /\ Offered(j) /\ ~inProgress
  /\ inProgress' = TRUE /\ crossed' = (crossed \/ Late)
  /\ arrival' = "accepted" /\ coming' = j /\ unnamed' = FALSE
  /\ UNCHANGED <<rollback, image, nvs, job, rolledBack, found, tasks, workflow, reports,
                 cuts, mishaps>>

JobIgnored(j) ==
  /\ Offered(j) /\ inProgress
  /\ UNCHANGED <<rollback, image, nvs, handle, messages, tasks, workflow, reports,
                 crossed, cuts, mishaps>>

\* The message has no job id, or memory runs out: the failure is reported for the
\* id in NVS.
MessageGarbled ==
  /\ arrival = "accepted" /\ Mishap
  /\ \/ jobId # NoJob /\ last' = [last EXCEPT ![jobId] = "over"]
     \/ UNCHANGED last
  /\ jobId' \in {jobId, NoJob}
  /\ arrival' = "idle" /\ coming' = NoJob /\ inProgress' = FALSE
  /\ UNCHANGED <<rollback, image, flag, job, rolledBack, found, unnamed, tasks, fetching,
                 workflow, lastSuccess, crossed, offers, cuts>>

\* The id goes to NVS.  When it does not get there, the job goes on.
StoreId ==
  /\ arrival = "accepted" /\ arrival' = "stored"
  /\ \/ jobId' = coming /\ UNCHANGED <<unnamed, mishaps>>
     \/ Mishap /\ unnamed' = TRUE /\ UNCHANGED jobId
  /\ UNCHANGED <<rollback, image, flag, handle, coming, found, tasks, fetching, workflow,
                 reports, crossed, offers, cuts>>

\* transient_priv
NameJob ==
  /\ arrival = "stored" /\ arrival' = "named"
  /\ job' = coming /\ coming' = NoJob
  /\ UNCHANGED <<rollback, image, nvs, inProgress, rolledBack, found, unnamed, tasks,
                 fetching, workflow, reports, crossed, offers, cuts, mishaps>>

QueueJob ==
  /\ arrival = "named" /\ arrival' = "idle"
  /\ work' = "queued"
  /\ UNCHANGED <<rollback, image, nvs, handle, coming, found, unnamed, tasks, fetching,
                 attempt, reports, crossed, offers, cuts, mishaps>>

\* Something else is missing in the message or memory runs out: reported as a
\* failure.  Or the work queue is full: dropped.
JobDropped ==
  /\ arrival = "named" /\ arrival' = "idle" /\ Mishap
  /\ inProgress' = FALSE /\ job' = NoJob
  /\ last' \in {last, [last EXCEPT ![job] = "over"]}
  /\ UNCHANGED <<rollback, image, nvs, rolledBack, coming, found, unnamed, tasks, fetching,
                 workflow, lastSuccess, crossed, offers, cuts>>

-----------------------------------------------------------------------------
(* The work queue: esp_rmaker_ota_common_cb *)

\* esp_rmaker_ota_start_workflow: the metadata allows the job now.
Begin ==
  /\ work = "queued" /\ work' = "attempt" /\ attempt' = 1
  /\ UNCHANGED <<rollback, image, nvs, handle, messages, tasks, fetching, reports, crossed,
                 offers, cuts, mishaps>>

\* Later, or never.
Postpone ==
  /\ work = "queued" /\ Finish
  /\ \/ Report("delayed") /\ fetching' = TRUE
     \/ Report("failed") /\ UNCHANGED fetching
  /\ UNCHANGED <<rollback, image, flag, rolledBack, messages, tasks, crossed,
                 offers, cuts>>

\* Neither size nor stream: esp_rmaker_ota_mqtt_cb returns without a report.
NoSize ==
  /\ work = "queued" /\ Finish /\ Mishap
  /\ UNCHANGED <<rollback, image, nvs, rolledBack, messages, tasks, fetching, reports,
                 crossed, offers, cuts>>

\* esp_rmaker_ota_retry_loop: one more attempt.
StartAttempt ==
  /\ work = "attempt" /\ work' = "header"
  /\ Report("in-progress")
  /\ UNCHANGED <<rollback, image, flag, handle, messages, tasks, fetching, attempt, crossed,
                 offers, cuts>>

\* The header is right, its version not the running one: erase the partition.
Erase ==
  /\ work = "header" /\ job # running
  /\ spare' = Junk /\ work' = "write"
  /\ Report("in-progress")
  /\ UNCHANGED <<rollback, running, status, boot, flag, handle, messages, tasks, fetching,
                 attempt, crossed, offers, cuts>>

\* validate_image_header, or the chip revision found while writing.
Reject ==
  /\ work \in {"header", "write"}
  /\ Report("rejected") /\ Finish
  /\ UNCHANGED <<rollback, image, flag, rolledBack, messages, tasks, fetching, crossed,
                 offers, cuts>>

\* The attempt fails: the next one, or a fetch later.
AttemptFails ==
  /\ work \in {"header", "write"}
  /\ Report("failed")
  /\ IF attempt < MaxAttempts
     THEN work' = "attempt" /\ attempt' = attempt + 1 /\ UNCHANGED <<inProgress, job, fetching>>
     ELSE Finish /\ fetching' = TRUE
  /\ UNCHANGED <<rollback, image, flag, rolledBack, messages, tasks, crossed, offers, cuts>>

\* The whole image is in place and selected.
Install ==
  /\ work = "write" /\ work' = "success"
  /\ spare' = job /\ boot' = TRUE
  /\ Report("in-progress")
  /\ UNCHANGED <<rollback, running, status, flag, handle, messages, tasks, fetching,
                 attempt, crossed, offers, cuts>>

\* Mutant: success is reported before the image has been validated.
SucceedEarly ==
  /\ work = "success"
  /\ flag' = rollback
  /\ Report("success")
  /\ rebooting' = TRUE /\ Finish
  /\ UNCHANGED <<rollback, image, rolledBack, messages, up, subscribed, timer, marking,
                 timerTask, fetching, crossed, offers, cuts>>

\* esp_rmaker_ota_success_reboot_sequence: the reboot comes ten seconds later,
\* also when NVS has not taken the flag; the report then says what the last one
\* said.
Succeed ==
  /\ work = "success"
  /\ \/ rollback /\ flag' = TRUE /\ Report("in-progress")
     \/ rollback /\ flag' = flag /\ Mishap /\ UNCHANGED <<jobId, reports>>
     \/ ~rollback /\ flag' = flag /\ Report("success")
  /\ rebooting' = TRUE /\ Finish
  /\ UNCHANGED <<rollback, image, rolledBack, messages, up, subscribed, timer, marking,
                 timerTask, fetching, crossed, offers, cuts>>

-----------------------------------------------------------------------------
(* Reboot *)

Fresh ==
  /\ up' = "booting"
  /\ inProgress' = FALSE /\ job' = NoJob /\ rolledBack' = FALSE
  /\ subscribed' = FALSE /\ timer' = FALSE /\ fetching' = FALSE /\ rebooting' = FALSE
  /\ work' = "idle" /\ attempt' = 0 /\ marking' = "idle" /\ timerTask' = "idle"
  /\ arrival' = "idle" /\ coming' = NoJob /\ found' = NoJob /\ unnamed' = FALSE

Swap == running' = spare /\ spare' = running

\* The bootloader: the selected image if there is one; back from an image that
\* was not validated in its first run.
Boot ==
  /\ Fresh /\ boot' = FALSE
  /\ \/ boot /\ spare # Junk /\ Swap /\ status' = IF rollback THEN "pending" ELSE "valid"
     \/ ~boot /\ status = "pending" /\ spare # Junk /\ Swap /\ status' = "valid"
     \/ /\ spare = Junk \/ (~boot /\ status = "valid")
        /\ UNCHANGED <<running, spare, status>>
  /\ UNCHANGED <<rollback, nvs, reports, offers, mishaps>>

Restart == rebooting /\ Boot /\ UNCHANGED <<crossed, cuts>>

\* Power fails; in the middle of a success the job and the image may part.
PowerCut ==
  /\ cuts < MaxCuts /\ cuts' = cuts + 1
  /\ Boot
  /\ crossed' = (crossed \/ marking # "idle" \/ (work = "success" /\ ~rollback))

\* esp_ota_mark_app_invalid_rollback_and_reboot, if there is an image to go to.
RollBack ==
  IF spare = Junk
  THEN /\ timerTask' = "idle"
       /\ UNCHANGED <<rollback, image, nvs, handle, messages, up, subscribed, timer,
                      rebooting, marking, fetching, workflow, reports, offers, mishaps>>
  ELSE /\ Fresh /\ Swap /\ status' = "valid" /\ boot' = FALSE
       /\ UNCHANGED <<rollback, nvs, reports, offers, mishaps>>

\* Mutant: the first run of an image does not count as an OTA in progress.
ManageQuietly ==
  /\ up = "booting" /\ up' = "running"
  /\ rolledBack' = (status = "valid" /\ flag) /\ flag' = (status = "pending" /\ flag)
  /\ timer' = (status = "pending")
  /\ UNCHANGED <<rollback, image, jobId, inProgress, job, messages, subscribed, rebooting,
                 marking, timerTask, fetching, workflow, reports, crossed, offers, cuts,
                 mishaps>>

\* esp_rmaker_ota_manage_rollback; NVS may fail to read or to erase the flag.
Manage ==
  /\ up = "booting" /\ up' = "running"
  /\ \/ /\ status = "pending"
        /\ inProgress' = TRUE
        /\ \/ timer' = TRUE /\ UNCHANGED mishaps
           \/ timer' = FALSE /\ Mishap
        /\ UNCHANGED <<rolledBack, flag>>
     \/ /\ status = "valid"
        /\ \/ rolledBack' = flag /\ flag' = FALSE /\ UNCHANGED mishaps
           \/ flag /\ rolledBack' \in BOOLEAN /\ UNCHANGED flag /\ Mishap
        /\ UNCHANGED <<inProgress, timer>>
  /\ UNCHANGED <<rollback, image, jobId, job, messages, subscribed, rebooting, marking,
                 timerTask, fetching, workflow, reports, crossed, offers, cuts>>

\* The first diagnostics fail; there is an image to go back to (PreviousImageKept).
DiagnosticsFail ==
  /\ up = "booting" /\ status = "pending"
  /\ RollBack /\ UNCHANGED <<crossed, cuts>>

\* Mutant: the rollback is not reported.
WorkFnSilent ==
  /\ up = "running" /\ ~subscribed /\ subscribed' = TRUE
  /\ rolledBack' = FALSE
  /\ fetching' = (fetching \/ ~inProgress)
  /\ UNCHANGED <<rollback, image, nvs, inProgress, job, messages, up, timer, rebooting,
                 marking, timerTask, workflow, reports, crossed, offers, cuts, mishaps>>

\* esp_rmaker_ota_work_fn, once the node is connected.
WorkFn ==
  /\ up = "running" /\ ~subscribed /\ subscribed' = TRUE
  /\ IF rolledBack THEN ReportStored("rejected") ELSE UNCHANGED <<reports, jobId, mishaps>>
  /\ rolledBack' = FALSE
  /\ fetching' = (fetching \/ ~inProgress)
  /\ UNCHANGED <<rollback, image, flag, inProgress, job, messages, up, timer, rebooting,
                 marking, timerTask, workflow, crossed, offers, cuts>>

-----------------------------------------------------------------------------
(* Validation *)

\* esp_rmaker_ota_mark_valid, by the handler of CONNECTED or by the application.
MarkValid ==
  /\ up = "running" /\ status = "pending" /\ marking = "idle"
  /\ status' = "valid" /\ marking' = "marked"
  /\ UNCHANGED <<rollback, running, spare, boot, nvs, handle, messages, up, subscribed,
                 timer, rebooting, timerTask, fetching, workflow, reports, crossed, offers,
                 cuts, mishaps>>

\* Mutant: the flag in NVS stays.
KeepFlag ==
  /\ marking = "marked" /\ marking' = "unflagged"
  /\ UNCHANGED <<rollback, image, nvs, handle, messages, up, subscribed, timer, rebooting,
                 timerTask, fetching, workflow, reports, crossed, offers, cuts, mishaps>>

EraseFlag ==
  /\ marking = "marked" /\ marking' = "unflagged"
  /\ \/ flag' = FALSE /\ UNCHANGED mishaps
     \/ UNCHANGED flag /\ Mishap
  /\ UNCHANGED <<rollback, image, jobId, handle, messages, up, subscribed, timer, rebooting,
                 timerTask, fetching, workflow, reports, crossed, offers, cuts>>

\* Stopping the timer waits while the timer command queue is full.
StopTimer ==
  /\ marking = "unflagged" /\ marking' = "report"
  /\ inProgress' = FALSE /\ timer' = FALSE
  /\ UNCHANGED <<rollback, image, nvs, job, rolledBack, messages, up, subscribed, rebooting,
                 timerTask, fetching, workflow, reports, crossed, offers, cuts, mishaps>>

\* The report of the success, with the id it finds: that of the handle, or, ...
ReportValid ==
  /\ marking = "report"
  /\ \/ job # NoJob /\ Report("success") /\ marking' = "fetch" /\ UNCHANGED found
     \/ /\ job = NoJob /\ UNCHANGED <<jobId, reports>>
        /\ \/ jobId # NoJob /\ marking' = "erase" /\ found' = jobId /\ UNCHANGED mishaps
           \/ jobId # NoJob /\ marking' = "fetch" /\ UNCHANGED found /\ Mishap
           \/ jobId = NoJob /\ marking' = "fetch" /\ UNCHANGED <<found, mishaps>>
  /\ UNCHANGED <<rollback, image, flag, handle, arrival, coming, unnamed, up, subscribed,
                 timer, rebooting, timerTask, fetching, workflow, crossed, offers, cuts>>

\* ... if there was none, that of NVS, where the id is then erased: that of a
\* job which has come in between, too.
ReportFound ==
  /\ marking = "erase" /\ marking' = "fetch"
  /\ SendStored(found, "success") /\ found' = NoJob
  /\ unnamed' = (unnamed \/ arrival \in {"stored", "named"} \/ work # "idle")
  /\ UNCHANGED <<rollback, image, flag, handle, arrival, coming, up, subscribed, timer,
                 rebooting, timerTask, fetching, workflow, crossed, offers, cuts>>

\* A fetch, later.
FetchNext ==
  /\ marking = "fetch" /\ marking' = "idle"
  /\ fetching' = TRUE
  /\ UNCHANGED <<rollback, image, nvs, handle, messages, up, subscribed, timer, rebooting,
                 timerTask, workflow, reports, crossed, offers, cuts, mishaps>>

\* The diagnostics after CONNECTED fail, or the application decides so.
MarkInvalid ==
  /\ up = "running" /\ status = "pending" /\ marking = "idle"
  /\ RollBack /\ UNCHANGED <<crossed, cuts>>

\* esp_ota_rollback: esp_rmaker_ota_mark_invalid has found the image unverified.
TimerFires ==
  /\ timer /\ status = "pending" /\ timerTask = "idle"
  /\ timerTask' = "rollback"
  /\ UNCHANGED <<rollback, image, nvs, handle, messages, up, subscribed, timer, rebooting,
                 marking, fetching, workflow, reports, crossed, offers, cuts, mishaps>>

TimerRollsBack ==
  /\ timerTask = "rollback"
  /\ RollBack
  /\ crossed' = (crossed \/ status = "valid")
  /\ UNCHANGED cuts

\* The cloud has no job for the node, or the answer to a fetch is lost.
FetchEnds ==
  /\ fetching /\ fetching' = FALSE
  /\ UNCHANGED <<rollback, image, nvs, handle, messages, tasks, workflow, reports, crossed,
                 offers, cuts, mishaps>>

-----------------------------------------------------------------------------
Init ==
  /\ rollback \in RollbackConfigs
  /\ running = Factory /\ spare = Junk /\ status = "valid" /\ boot = FALSE
  /\ jobId = NoJob /\ flag = FALSE
  /\ up = "booting"
  /\ inProgress = FALSE /\ job = NoJob /\ rolledBack = FALSE
  /\ subscribed = FALSE /\ timer = FALSE /\ fetching = FALSE /\ rebooting = FALSE
  /\ work = "idle" /\ attempt = 0 /\ marking = "idle" /\ timerTask = "idle"
  /\ arrival = "idle" /\ coming = NoJob /\ found = NoJob /\ unnamed = FALSE
  /\ last = [j \in Jobs |-> "open"] /\ lastSuccess = Factory
  /\ crossed = FALSE /\ offers = 0 /\ cuts = 0 /\ mishaps = 0

WorkQueue ==
  \/ WorkFn
  \/ Begin \/ Postpone \/ NoSize
  \/ StartAttempt \/ Erase \/ Reject \/ AttemptFails \/ Install \/ Succeed

Marking == EraseFlag \/ StopTimer \/ ReportValid \/ ReportFound \/ FetchNext

Arrival == MessageGarbled \/ StoreId \/ NameJob \/ QueueJob \/ JobDropped

Next ==
  \/ \E j \in Jobs : JobAccepted(j) \/ JobIgnored(j)
  \/ Arrival \/ FetchEnds
  \/ WorkQueue
  \/ Restart \/ PowerCut \/ Manage \/ DiagnosticsFail
  \/ MarkValid \/ Marking \/ MarkInvalid
  \/ TimerFires \/ TimerRollsBack

\* The node boots, connects in the end, handles messages and carries out its jobs;
\* the reboot and the rollback timer expire.
Fairness ==
  /\ WF_vars(Manage \/ DiagnosticsFail) /\ WF_vars(WorkQueue) /\ WF_vars(Restart)
  /\ WF_vars(Arrival) /\ WF_vars(Marking) /\ WF_vars(TimerFires) /\ WF_vars(TimerRollsBack)

Spec == Init /\ [][Next]_vars /\ Fairness

-----------------------------------------------------------------------------
(* Properties *)

Images    == Jobs \cup {Factory}
Standings == {"open", "in-progress", "over"}

TypeOK ==
  /\ rollback \in BOOLEAN
  /\ running \in Images /\ spare \in Images \cup {Junk}
  /\ status \in {"valid", "pending"} /\ boot \in BOOLEAN
  /\ jobId \in Jobs \cup {NoJob} /\ flag \in BOOLEAN
  /\ up \in {"booting", "running"}
  /\ inProgress \in BOOLEAN /\ job \in Jobs \cup {NoJob} /\ rolledBack \in BOOLEAN
  /\ subscribed \in BOOLEAN /\ timer \in BOOLEAN
  /\ fetching \in BOOLEAN /\ rebooting \in BOOLEAN
  /\ work \in {"idle", "queued", "attempt", "header", "write", "success"}
  /\ attempt \in 0..MaxAttempts
  /\ marking \in {"idle", "marked", "unflagged", "report", "erase", "fetch"}
  /\ arrival \in {"idle", "accepted", "stored", "named"}
  /\ coming \in Jobs \cup {NoJob} /\ found \in Jobs \cup {NoJob} /\ unnamed \in BOOLEAN
  /\ timerTask \in {"idle", "rollback"}
  /\ last \in [Jobs -> Standings] /\ lastSuccess \in Images
  /\ crossed \in BOOLEAN
  /\ offers \in 0..MaxOffers /\ cuts \in 0..MaxCuts /\ mishaps \in 0..MaxMishaps

\* As long as the running image has not been validated, the one before is intact
\* in the other partition: no job is begun meanwhile, whatever arrives and
\* whenever power fails (ota_in_progress as set by manage_rollback).
PreviousImageKept == status = "pending" => spare # Junk

\* A job that is being carried out is the one whose id is in NVS, so that the
\* report after the reboot names it too, and no second job replaces it
\* (ota_url_handler, esp_rmaker_ota_finish_using_topics).  The id may be missing or
\* an older one in two cases only: NVS has not taken it, or the report of a
\* validation has erased it, which read the id before and erases it after this one
\* is stored (unnamed).
OneJobAtATime ==
  work # "idle" => inProgress /\ job # NoJob /\ (job = jobId \/ unnamed)

\* The image the node keeps, unless one that awaits validation or the reboot
\* takes its place.
Committed ==
  IF status = "pending" \/ (boot /\ ~rollback) THEN spare ELSE running

\* The image the node keeps is that of the last job it reported as a success:
\* none is reported that was not kept, none kept that was not reported, unless a
\* report fails, a job comes too late, power fails in between, or the rollback
\* timer expires during the validation.
CommittedIsReported ==
  mishaps = 0 /\ ~crossed /\ marking = "idle" /\ work # "success" =>
    Committed = lastSuccess

\* A node that will say that it was rolled back does not run the image of the job
\* it will name, unless power failed during the validation or a job came late
\* (esp_rmaker_ota_manage_rollback).
RolledBackIsTrue ==
  rolledBack /\ mishaps = 0 /\ ~crossed => jobId # NoJob /\ jobId # running

\* A job that was reported in progress gets another status in the end, also when
\* that takes a reboot, a validation or a rollback, unless something fails: again
\* and again the cloud has no job in progress.
ProgressEnds ==
  [](mishaps = 0 /\ ~crossed /\ cuts = 0) =>
    []<>(\A j \in Jobs : last[j] # "in-progress")
=============================================================================
