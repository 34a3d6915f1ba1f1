---------------------------- MODULE LocalControl ----------------------------
(***************************************************************************)
(* Local control: an HTTP server that must wait until provisioning, which  *)
(* may need the only one there can be, has ended.                          *)
(*                                                                         *)
(*   src/components/esp_rainmaker/src/core/esp_rmaker_local_ctrl.c         *)
(*                                                                         *)
(* Whoever enables it, esp_rmaker_task or the app, runs concurrently with  *)
(* the event loop, in which the end of provisioning is handled.            *)
(***************************************************************************)
EXTENDS Naturals

CONSTANT MaxDisables  \* bound: times the app turns local control off

VARIABLES
  serving,     \* g_local_ctrl_is_started
  waiting,     \* wait_for_provisioning
  name,        \* g_serv_name is kept for later
  watching,    \* the handler of provisioning events is registered
  enabling,    \* where esp_rmaker_local_ctrl_enable is
  leaving,     \* the handler has cleared waiting and not yet looked at the name
  wanted,      \* the last call has asked for local control
  missed,      \* history: how the end of provisioning was missed
  disables     \* history: for the bound

local == <<serving, waiting, name, watching, enabling, leaving, wanted, missed, disables>>

-----------------------------------------------------------------------------
LocalReset ==
  /\ serving' = FALSE /\ waiting' = FALSE /\ name' = FALSE /\ watching' = FALSE
  /\ enabling' = "no" /\ leaving' = FALSE /\ wanted' = FALSE /\ missed' = {}
  /\ UNCHANGED disables

\* esp_rmaker_init_local_ctrl_service at the end of esp_rmaker_init
Watch ==
  /\ watching' = TRUE
  /\ UNCHANGED <<serving, waiting, name, enabling, leaving, wanted, missed, disables>>

\* __esp_rmaker_start_local_ctrl_service; the app is aborted if it fails.
StartServer == serving' = TRUE

\* esp_rmaker_local_ctrl_enable, when the server is not running.
Enable ==
  /\ enabling = "no" /\ ~serving
  /\ watching' = TRUE /\ wanted' = TRUE /\ enabling' = "check"
  /\ UNCHANGED <<serving, waiting, name, leaving, missed, disables>>

\* esp_rmaker_start_local_ctrl_service looks at the flag ...
CheckWaiting ==
  /\ enabling = "check"
  /\ IF waiting THEN enabling' = "name" /\ UNCHANGED serving
                ELSE enabling' = "no" /\ StartServer
  /\ UNCHANGED <<waiting, name, watching, leaving, wanted, missed, disables>>

\* ... and keeps the name for the handler, which may have been there already.
KeepName ==
  /\ enabling = "name" /\ enabling' = "no"
  /\ name' = TRUE
  /\ missed' = IF waiting \/ leaving THEN missed ELSE missed \cup {"crossed"}
  /\ UNCHANGED <<serving, waiting, watching, leaving, wanted, disables>>

\* esp_rmaker_local_ctrl_disable: wait_for_provisioning stays as it is.
Disable ==
  /\ enabling = "no" /\ wanted
  /\ disables < MaxDisables /\ disables' = disables + 1
  /\ wanted' = FALSE /\ serving' = FALSE /\ name' = FALSE /\ watching' = FALSE
  /\ missed' = IF waiting THEN missed \cup {"disabled"} ELSE missed
  /\ UNCHANGED <<waiting, enabling, leaving>>

\* NETWORK_PROV_START
ProvStarts ==
  /\ waiting' = (waiting \/ watching)
  /\ UNCHANGED <<serving, name, watching, enabling, leaving, wanted, missed, disables>>

\* Mutant: once provisioning has ended the name is only freed.
NameFreed ==
  /\ leaving /\ leaving' = FALSE
  /\ name' = FALSE /\ watching' = FALSE
  /\ UNCHANGED <<serving, waiting, enabling, wanted, missed, disables>>

\* NETWORK_PROV_DEINIT: the flag first, ...
ProvEnds ==
  /\ IF watching THEN waiting' = FALSE /\ leaving' = waiting /\ watching' = waiting
                 ELSE UNCHANGED <<waiting, leaving, watching>>
  /\ UNCHANGED <<serving, name, enabling, wanted, missed, disables>>

\* ... then the server, if a name was kept.
ServeNamed ==
  /\ leaving /\ leaving' = FALSE
  /\ IF name THEN StartServer ELSE UNCHANGED serving
  /\ name' = FALSE /\ watching' = FALSE
  /\ UNCHANGED <<waiting, enabling, wanted, missed, disables>>

\* A call of the app, or the rest of one.
AppCalls == (wanted /\ Disable) \/ (disables > 0 /\ ~wanted /\ Enable)

LocalStep == CheckWaiting \/ KeepName

=============================================================================
