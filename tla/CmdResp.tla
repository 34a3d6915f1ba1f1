------------------------------- MODULE CmdResp -------------------------------
(***************************************************************************)
(* Commands: the node asks the cloud for pending commands whenever it      *)
(* connects; a command sets parameters, and its response carries those     *)
(* that have changed.                                                      *)
(*                                                                         *)
(*   src/components/esp_rainmaker/src/core/esp_rmaker_cmd_resp_manager.c   *)
(*   src/components/esp_rainmaker/src/core/esp_rmaker_param_cmd_resp.c     *)
(*                                                                         *)
(* Commands are handled in the MQTT task, like requests; the connection is *)
(* noticed in the event loop task.                                         *)
(***************************************************************************)
EXTENDS ParamReport

CONSTANTS
  MaxDrops,  \* bound: times the connection is lost
  IdleDrops  \* bound: whether it is also lost while no command waits

ASSUME DropsAssumption == MaxDrops \in Nat /\ IdleDrops \in BOOLEAN

VARIABLES
  link,        \* the connection to the broker
  events,      \* RMAKER_MQTT_EVENT_CONNECTED events in the event loop
  subscribed,  \* cmd_resp_topic_subscribed
  command,     \* what the cloud knows of its command
  asked,       \* the cloud has been asked for pending commands since
  unheard,     \* history: the last check on a connection that was up has failed
  drops        \* history: for the bound

linkVars == <<link, events, drops>>
cmdVars  == <<linkVars, subscribed, command, asked, unheard>>
reportsVars == <<paramVars, cmdVars>>

-----------------------------------------------------------------------------
(* The set params command *)

\* esp_rmaker_set_params_cmd_handler: no report at the end, the response has
\* the changes.
Command(W) == Writes(W) \o <<Of("fill mine", Change), Of("reset mine", Change), Step("answer")>>

\* esp_rmaker_get_changed_params, into a buffer of its own
FillMine(t) ==
  /\ At(t, "fill mine")
  /\ mine' = Content(Arg(t))
  /\ prog' = [prog EXCEPT ![t] = IF mine' = Nothing THEN Tail(Tail(@)) ELSE Tail(@)]
  /\ UNCHANGED <<params, report, running, listening, initDone, reached, counts>>

ResetMine(t) ==
  /\ At(t, "reset mine")
  /\ flags' = [p \in Params |-> flags[p] \ {Arg(t)}]
  /\ Done(t)
  /\ UNCHANGED <<value, storing, report, running, listening, initDone, mine, reached, counts>>

\* esp_rmaker_cmd_response_publish.  When a report crosses the response, the one
\* that comes last may have the older value.
Answer(t) ==
  /\ At(t, "answer")
  /\ \/ /\ cloud' = With(mine)
        /\ missed' = (missed \ {p \in DOMAIN mine : mine[p] = value[p]})
                      \cup {p \in DOMAIN mine :
                               \/ mine[p] # value[p]
                               \/ p \in DOMAIN buf /\ buf[p] # mine[p] /\ \E t2 \in Callers : Reporting(t2)}
        /\ UNCHANGED failures
     \/ Refuse(DOMAIN mine)
  /\ mine' = Nothing
  /\ Done(t)
  /\ UNCHANGED <<params, report, running, listening, initDone, alert, updates>>

CommandStep == FillMine("cloud") \/ ResetMine("cloud") \/ Answer("cloud")

-----------------------------------------------------------------------------
(* Pending commands *)

\* The connection comes up, the first time after esp_rmaker_cmd_response_enable
\* has registered for the event.
Connects ==
  /\ link # "up" /\ link' = "up"
  /\ events' = events + 1
  /\ UNCHANGED <<paramVars, subscribed, command, asked, unheard, drops>>

Disconnects ==
  /\ command # "none" \/ IdleDrops
  /\ link = "up" /\ link' = "down"
  /\ drops < MaxDrops /\ drops' = drops + 1
  /\ asked' = FALSE
  /\ UNCHANGED <<paramVars, events, subscribed, command, unheard>>

\* The empty response, for which there may be no memory, and which the MQTT
\* layer may refuse.
Ask ==
  \/ asked' = (command # "none") /\ unheard' = FALSE /\ UNCHANGED failures
  \/ Fail /\ unheard' = TRUE /\ UNCHANGED asked

\* Nothing but the check itself changes here.
Checks ==
  /\ events > 0 /\ events' = events - 1
  /\ UNCHANGED <<params, report, running, listening, initDone, prog, mine, reached, updates,
                 link, drops, command>>

\* Mutant: the node asks only when it subscribes.
CheckOnce ==
  /\ Checks
  /\ \/ ~subscribed /\ link = "up" /\ subscribed' = TRUE /\ Ask
     \/ (subscribed \/ link # "up") /\ UNCHANGED <<subscribed, asked, unheard, failures>>

\* event_handler, esp_rmaker_cmd_resp_check_pending: it subscribes once, which
\* fails when the connection is lost again, and may fail otherwise.
CheckPending ==
  /\ Checks
  /\ \/ (subscribed \/ link = "up") /\ subscribed' = TRUE /\ Ask
     \/ ~subscribed /\ link # "up" /\ UNCHANGED <<subscribed, asked, unheard, failures>>
     \/ ~subscribed /\ link = "up" /\ Fail /\ unheard' = TRUE /\ UNCHANGED <<subscribed, asked>>

\* The cloud sends a command to a node it can reach, and keeps it for another.
Issue ==
  /\ command = "none" /\ Count
  /\ command' = "waiting"
  /\ asked' = (link = "up" /\ subscribed)
  /\ UNCHANGED <<params, report, running, listening, initDone, prog, mine, reached, failures,
                 linkVars, subscribed, unheard>>

\* esp_rmaker_cmd_callback
Deliver ==
  /\ command = "waiting" /\ asked /\ link = "up" /\ subscribed
  /\ \E W \in Requests : Call("cloud", Command(W))
  /\ command' = "none" /\ asked' = FALSE
  /\ UNCHANGED <<params, report, running, listening, initDone, mine, reached, counts,
                 linkVars, subscribed, unheard>>

-----------------------------------------------------------------------------
(* Both together *)

ReportsInit ==
  /\ ParamsInit
  /\ link = "new" /\ events = 0 /\ subscribed = FALSE
  /\ command = "none" /\ asked = FALSE /\ unheard = FALSE /\ drops = 0

\* esp_rmaker_task goes on when the connection has been up.
Start == link # "new" /\ StartRunning /\ UNCHANGED cmdVars

ReportsNext ==
  \/ Start
  \/ ParamsNext /\ UNCHANGED cmdVars
  \/ CommandStep /\ UNCHANGED cmdVars
  \/ Connects \/ Disconnects \/ CheckPending \/ Issue \/ Deliver

ReportsSpec == ReportsInit /\ [][ReportsNext]_reportsVars

-----------------------------------------------------------------------------
(* Properties *)

ReportsTypeOK ==
  /\ ParamsTypeOK
  /\ link \in {"new", "up", "down"} /\ events \in 0..(MaxDrops + 1)
  /\ {subscribed, asked, unheard} \subseteq BOOLEAN
  /\ command \in {"none", "waiting"}
  /\ drops \in 0..MaxDrops

\* A command that waits in the cloud is asked for: when the node is connected
\* and the event loop has nothing left to do, the cloud has been asked, however
\* often the connection was lost in between.  The exception is a subscription or
\* an empty response that failed on the connection: the next try is at the next
\* connection.
CommandPursued ==
  link = "up" /\ events = 0 /\ command = "waiting" => (asked /\ subscribed) \/ unheard
=============================================================================
