-------------------------------- MODULE Node ---------------------------------
(***************************************************************************)
(* A node from power on to its connection: the app initialises and starts  *)
(* RainMaker and then the network, esp_rmaker_task claims, waits for Wi-Fi, *)
(* turns local control on and connects.                                    *)
(*                                                                         *)
(*   src/components/esp_rainmaker/src/core/esp_rmaker_core.c               *)
(*   src/main/app_main.c                                                   *)
(*                                                                         *)
(* esp_rmaker_task is the first job of the work queue task; provisioning,  *)
(* Wi-Fi and MQTT events are handled in the event loop in their order.     *)
(* What follows the first report is in UserMapping and ParamReport.        *)
(***************************************************************************)
EXTENDS Claim, LocalControl, Sequences

CONSTANTS
  Methods,   \* firmwares: self or assisted claiming, or none
  MaxDrops,  \* bound: times the connection to the broker is lost
  MaxBoots   \* bound: restarts

VARIABLES
  task,      \* where esp_rmaker_task is
  state,     \* esp_rmaker_priv_data->state
  bits,      \* rmaker_core_event_group
  handlers,  \* events that esp_rmaker_event_handler is registered for
  events,    \* events in the event loop
  prov,      \* provisioning
  wifi,      \* the Wi-Fi station
  creds,     \* Wi-Fi credentials are stored
  client,    \* the MQTT client
  online,    \* mqtt_connected
  drops, boots   \* history: for the bounds

core    == <<task, state, bits, handlers>>
network == <<events, prov, wifi, creds, client, online, drops>>
vars    == <<claimVars, local, core, network, boots>>

-----------------------------------------------------------------------------
Post(event) == events' = Append(events, event)

KeepCore == UNCHANGED core
KeepAll  == UNCHANGED <<network, boots>>

\* rmaker_end with an error: what was connected is disconnected.
Fails(keep) ==
  /\ task' = "failed" /\ state' = "INIT_DONE" /\ handlers' = keep /\ bits' = {}
  /\ client' = IF online THEN "stopped" ELSE client
  /\ UNCHANGED <<events, prov, wifi, creds, online, drops, boots>>

Goes(to) == task' = to /\ UNCHANGED <<state, bits, handlers>> /\ KeepAll

-----------------------------------------------------------------------------
(* The app *)

\* esp_rmaker_node_init; at its end provisioning is watched for.
AppInit ==
  /\ ClaimInit
  /\ IF boot' = "done" THEN Watch ELSE UNCHANGED local
  /\ KeepCore /\ KeepAll

\* esp_rmaker_start
AppStart ==
  /\ boot = "done" /\ boot' = "started"
  /\ state' = "INIT_DONE" /\ task' = "begin" /\ UNCHANGED <<bits, handlers>>
  /\ UNCHANGED <<method, credentials, data, session, outcome, faults, local>> /\ KeepAll

\* app_network_start provisions a node that has no Wi-Fi credentials.
AppNetwork ==
  /\ boot = "started" /\ boot' = "up"
  /\ IF creds THEN UNCHANGED <<prov, events>> ELSE prov' = "running" /\ Post("START")
  /\ UNCHANGED <<method, credentials, data, session, outcome, faults, local>>
  /\ KeepCore /\ UNCHANGED <<wifi, creds, client, online, drops, boots>>

\* esp_rmaker_node_deinit, by an app whose node has failed.
Deinit ==
  /\ task = "failed" /\ state = "INIT_DONE" /\ boot = "up" /\ boot' = "deinit"
  /\ IF pointer THEN Free /\ pointer' = FALSE ELSE UNCHANGED <<memory, misuse, pointer>>
  /\ UNCHANGED <<method, credentials, claim, session, outcome, faults, local>>
  /\ KeepCore /\ KeepAll

\* A power cut, or abort() of an app that could not initialise its node.  A phone
\* may go on with what it was about when it finds the node again.
Reboot ==
  /\ boots < MaxBoots /\ boots' = boots + 1
  /\ boot' = "init" /\ nodeId' = None
  /\ claim' = NoClaim /\ memory' = "none" /\ pointer' = FALSE /\ misuse' = {}
  /\ group' = "null" /\ done' = FALSE /\ endpoint' = FALSE /\ ble' = "idle" /\ phone' \in {phone, NoPhone}
  /\ early' = FALSE
  /\ task' = "none" /\ state' = "DEINIT" /\ bits' = {} /\ handlers' = {}
  /\ events' = <<>> /\ prov' = "idle" /\ wifi' = "down" /\ client' = "none" /\ online' = FALSE
  /\ LocalReset
  /\ UNCHANGED <<method, nvs, keys, parted, faults, again, phones, creds, drops>>

-----------------------------------------------------------------------------
(* esp_rmaker_task *)

Begin ==
  /\ task = "begin" /\ task' = "claim"
  /\ state' = "STARTING" /\ bits' = {} /\ handlers' = {"GOT_IP", "CONNECTED"}
  /\ online' = FALSE
  /\ UNCHANGED <<claimVars, local, events, prov, wifi, creds, client, drops, boots>>

\* Assisted claiming must come before Wi-Fi.
Assisted ==
  /\ task = "claim"
  /\ \/ ~(pointer /\ method = "assisted") /\ Goes("wifi") /\ UNCHANGED claimVars
     \/ pointer /\ method = "assisted" /\ wifi # "down" /\ Fails(handlers \ {"GOT_IP"}) /\ UNCHANGED claimVars
     \/ pointer /\ method = "assisted" /\ wifi = "down" /\ PerformBegin /\ Goes("claiming")
  /\ UNCHANGED local

\* Mutant: the pointer to the claim data stays.
PointerStays(ok) == UNCHANGED pointer

\* The core forgets the claim data when claiming was successful.
ForgetClaim(ok) == pointer' = IF ok THEN FALSE ELSE pointer

Claimed ==
  /\ task = "claiming"
  /\ \E ok \in BOOLEAN :
       /\ PerformEnds(ok) /\ ForgetClaim(ok)
       /\ IF ok THEN Goes("wifi") ELSE Fails(handlers \ {"GOT_IP"})
  /\ UNCHANGED local

\* Mutant: the handler is unregistered before the wait.
UnregisterFirst ==
  /\ task = "wifi"
  /\ task' = IF wifi = "down" THEN "waiting" ELSE "self"
  /\ handlers' = handlers \ {"GOT_IP"} /\ UNCHANGED <<state, bits>>
  /\ UNCHANGED <<claimVars, local>> /\ KeepAll

\* esp_wifi_sta_get_ap_info tells that the station is associated.
CheckWifi ==
  /\ task = "wifi"
  /\ task' = IF wifi = "down" THEN "waiting" ELSE "self"
  /\ handlers' = IF wifi = "down" THEN handlers ELSE handlers \ {"GOT_IP"}
  /\ UNCHANGED <<state, bits>>
  /\ UNCHANGED <<claimVars, local>> /\ KeepAll

WaitWifi ==
  /\ task = "waiting" /\ "GOT_IP" \in bits
  /\ task' = "self" /\ handlers' = handlers \ {"GOT_IP"} /\ UNCHANGED <<bits, state>>
  /\ UNCHANGED <<claimVars, local>> /\ KeepAll

\* Self claiming, which needs the network.
Self ==
  /\ task = "self"
  /\ \/ ~pointer /\ Goes("params") /\ UNCHANGED claimVars
     \/ /\ pointer
        /\ \E ok \in BOOLEAN :
             /\ SelfInit(ok, wifi = "up")
             /\ IF ok THEN Goes("verify") ELSE Fails(handlers)
  /\ UNCHANGED local

SelfVerifies ==
  /\ task = "verify"
  /\ \E ok \in BOOLEAN : SelfVerify(ok) /\ IF ok THEN Goes("host") ELSE Fails(handlers)
  /\ UNCHANGED local

SelfStoresHost == task = "host" /\ SelfHost /\ Goes("certificate") /\ UNCHANGED local

SelfStoresCertificate ==
  /\ task = "certificate"
  /\ \E ok \in BOOLEAN :
       SelfCertificate(ok) /\ ForgetClaim(ok) /\ IF ok THEN Goes("params") ELSE Fails(handlers)
  /\ UNCHANGED local

\* The credentials are read again after claiming; the command-response module
\* subscribes.
LoadParams ==
  /\ task = "params"
  /\ \/ HasCredentials /\ client' = "init" /\ task' = "local"
        /\ UNCHANGED <<state, bits, handlers, events, prov, wifi, creds, online, drops, boots, faults>>
     \/ Fails(handlers) /\ (Fault("params") \/ (~HasCredentials /\ UNCHANGED faults))
  /\ UNCHANGED <<method, credentials, boot, data, session, outcome, local>>

EnableLocal ==
  /\ task = "local" /\ Enable /\ Goes("enabling") /\ UNCHANGED claimVars

LocalEnabled ==
  /\ task = "enabling" /\ enabling = "no"
  /\ \/ client' = "started" /\ task' = "connecting"
        /\ UNCHANGED <<state, bits, handlers, events, prov, wifi, creds, online, drops, boots, faults>>
     \/ Fault("connect") /\ Fails(handlers)
  /\ UNCHANGED <<method, credentials, boot, data, session, outcome, local>>

Connected ==
  /\ task = "connecting" /\ "CONNECTED" \in bits
  /\ task' = "report" /\ state' = "STARTED" /\ handlers' = handlers \ {"CONNECTED"} /\ UNCHANGED bits
  /\ UNCHANGED <<claimVars, local>> /\ KeepAll

\* esp_rmaker_report_node_config; what follows is in UserMapping.
Report ==
  /\ task = "report"
  /\ \/ task' = "ended" /\ bits' = {} /\ UNCHANGED <<state, handlers, faults>> /\ KeepAll
     \/ Fault("report") /\ Fails(handlers)
  /\ UNCHANGED <<method, credentials, boot, data, session, outcome, local>>

TaskStep ==
  \/ Begin \/ Assisted \/ Claimed \/ CheckWifi \/ WaitWifi \/ Self \/ SelfVerifies \/ SelfStoresHost
  \/ SelfStoresCertificate \/ LoadParams \/ EnableLocal \/ LocalEnabled \/ Connected \/ Report

-----------------------------------------------------------------------------
(* The network and the event loop *)

\* The phone sends the Wi-Fi credentials, and need not have claimed before; it
\* takes longer than the event loop to see that provisioning has started.
Provision ==
  /\ prov = "running" /\ ~creds /\ events = <<>> /\ ble = "idle"
  /\ creds' = TRUE
  /\ UNCHANGED <<claimVars, local, core, events, prov, wifi, client, online, drops, boots>>

Associates ==
  /\ creds /\ wifi = "down" /\ boot = "up" /\ wifi' = "associated"
  /\ UNCHANGED <<claimVars, local, core, events, prov, creds, client, online, drops, boots>>

GetsIp ==
  /\ wifi = "associated" /\ wifi' = "up" /\ Post("GOT_IP")
  /\ UNCHANGED <<claimVars, local, core, prov, creds, client, online, drops, boots>>

\* The provisioning manager stops when the station is connected.
ProvisioningStops ==
  /\ prov = "running" /\ wifi = "up" /\ ble = "idle"
  /\ prov' = "ended" /\ Post("DEINIT") /\ endpoint' = FALSE /\ phone' = NoPhone
  /\ UNCHANGED <<method, credentials, boot, data, ble, again, early, phones, outcome, faults>>
  /\ UNCHANGED <<local, core, wifi, creds, client, online, drops, boots>>

ClientConnects ==
  /\ client \in {"started", "lost"} /\ wifi = "up"
  /\ client' = "linked" /\ Post("CONNECTED")
  /\ UNCHANGED <<claimVars, local, core, prov, wifi, creds, online, drops, boots>>

LinkLost ==
  /\ client = "linked" /\ drops < MaxDrops /\ drops' = drops + 1
  /\ client' = "lost" /\ Post("DISCONNECTED")
  /\ UNCHANGED <<claimVars, local, core, prov, wifi, creds, online, boots>>

\* esp_rmaker_mqtt_event_handler
OnlineAfter(event) ==
  CASE event = "CONNECTED" -> TRUE [] event = "DISCONNECTED" -> FALSE [] OTHER -> online

\* All handlers of an event: that one, esp_rmaker_event_handler, which tells the
\* task, and those of provisioning events.
Handle ==
  /\ events # <<>> /\ ~leaving /\ events' = Tail(events)
  /\ LET e == Head(events) IN
       /\ online' = OnlineAfter(e)
       /\ bits' = IF e \in handlers /\ task # "failed" THEN bits \cup {e} ELSE bits
       /\ endpoint' = EndpointAfter(e)
       /\ CASE e = "START" -> ProvStarts [] e = "DEINIT" -> ProvEnds [] OTHER -> UNCHANGED local
  /\ UNCHANGED <<method, credentials, boot, data, ble, phone, again, early, phones, outcome, faults>>
  /\ UNCHANGED <<task, state, handlers, prov, wifi, creds, client, drops, boots>>

LoopServes == ServeNamed /\ UNCHANGED <<claimVars, core>> /\ KeepAll

Environment ==
  Provision \/ Associates \/ GetsIp \/ ProvisioningStops \/ ClientConnects \/ LinkLost \/ Handle \/ LoopServes

-----------------------------------------------------------------------------
Init ==
  /\ method \in Methods
  /\ nvs \in {[key |-> NoKey, random |-> FALSE, node |-> None, cert |-> NoCsr, host |-> FALSE]}
             \cup {[key |-> 1, random |-> TRUE, node |-> n, cert |-> Csr(1, n), host |-> TRUE] : n \in Nodes}
  /\ nodeId = None /\ boot = "init"
  /\ claim = NoClaim /\ memory = "none" /\ pointer = FALSE /\ group = "null" /\ done = FALSE
  /\ endpoint = FALSE /\ ble = "idle" /\ phone = NoPhone
  /\ keys = 1 /\ faults = {} /\ misuse = {} /\ parted = FALSE
  /\ again = FALSE /\ early = FALSE /\ phones = 0
  /\ serving = FALSE /\ waiting = FALSE /\ name = FALSE /\ watching = FALSE
  /\ enabling = "no" /\ leaving = FALSE /\ wanted = FALSE /\ missed = {} /\ disables = 0
  /\ task = "none" /\ state = "DEINIT" /\ bits = {} /\ handlers = {}
  /\ events = <<>> /\ prov = "idle" /\ wifi = "down" /\ creds \in BOOLEAN
  /\ client = "none" /\ online = FALSE /\ drops = 0 /\ boots = 0

Next ==
  \/ AppInit \/ AppStart \/ AppNetwork \/ Deinit \/ Reboot
  \/ TaskStep
  \/ PhoneStep /\ UNCHANGED <<local, core, network, boots>>
  \/ LocalStep /\ UNCHANGED <<claimVars, core, network, boots>>
  \/ task \in {"connecting", "report", "ended"} /\ AppCalls /\ UNCHANGED <<claimVars, core, network, boots>>
  \/ Environment

Spec == Init /\ [][Next]_vars

-----------------------------------------------------------------------------
TypeOK ==
  /\ method \in Methods
  /\ nvs.key \in 0..keys /\ nodeId \in Nodes \cup {None, Mac}
  /\ claim.state \in 0..VerifyDone /\ claim.sent \in 0..Fragments /\ claim.got \in 0..Fragments
  /\ memory \in {"none", "live", "freed"} /\ group \in {"null", "live", "deleted"}
  /\ pointer => memory # "none"
  /\ bits \subseteq {"GOT_IP", "CONNECTED"} /\ handlers \subseteq {"GOT_IP", "CONNECTED"}
  /\ task = "claiming" => memory = "live"
  /\ state = "STARTED" => task \in {"report", "ended"}

\* Whenever the power is cut, whichever step fails and however often a phone
\* starts again, a certificate in NVS was issued for the key in NVS, and for the
\* node id that the node uses unless only one of NVS and memory had taken the id
\* when it was made.  What a phone that talks on after its certificate was stored
\* does is left out.
CredentialsMatch ==
  nvs.cert # NoCsr /\ ~again =>
    nvs.cert.key = nvs.key /\ (nvs.cert.node = StoredNode \/ parted)

\* esp_rmaker_task does not wait for what has been missed: the connection to
\* Wi-Fi or to the broker will still be noticed or has been, and a certificate
\* that a phone brought has ended the wait for it, unless it was stored before
\* the task waited or the phone began again.
NeverStranded ==
  /\ task = "waiting" =>
       \/ wifi # "up" \/ "GOT_IP" \in bits
       \/ "GOT_IP" \in handlers /\ \E i \in DOMAIN events : events[i] = "GOT_IP"
  /\ task = "connecting" =>
       \/ client \in {"started", "lost"} \/ "CONNECTED" \in bits
       \/ "CONNECTED" \in handlers /\ \E i \in DOMAIN events : events[i] = "CONNECTED"
  /\ task = "claiming" /\ nvs.cert # NoCsr => done \/ early

\* The claim data are freed once and not used afterwards, unless claiming
\* failed after it had freed them and the node is then de-initialised, or a
\* phone talks on after its certificate was stored or the node de-initialised.
ClaimDataOwned ==
  /\ "freed again" \in misuse => "verify" \in faults \/ again
  /\ "used" \in misuse => again \/ boot = "deinit"

\* Local control that is wanted runs, or will when provisioning ends, unless
\* that end fell between the look at wait_for_provisioning and the name that is
\* kept for it, or local control was turned off while it waited; and it never
\* runs beside the server of provisioning.
LocalControlPursued ==
  /\ serving => prov # "running"
  /\ wanted /\ ~serving /\ enabling = "no" /\ missed = {} =>
       name /\ (leaving \/ (waiting /\ watching))

=============================================================================
