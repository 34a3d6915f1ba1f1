-------------------------------- MODULE Claim --------------------------------
(***************************************************************************)
(* Claiming: how a node without MQTT credentials gets a key and a          *)
(* certificate, from the claiming service itself (self claiming) or        *)
(* through the phone app that provisions it (assisted claiming).           *)
(*                                                                         *)
(*   src/components/esp_rainmaker/src/core/esp_rmaker_claim.c              *)
(*   src/components/esp_rainmaker/src/core/esp_rmaker_client_data.c        *)
(*                                                                         *)
(* The key is made while the app initialises the node; the rest of self    *)
(* claiming runs in esp_rmaker_task, and the commands of a phone in the    *)
(* task of the provisioning transport while esp_rmaker_task waits.  Every  *)
(* write to NVS is a step, a power cut may come before any.                *)
(***************************************************************************)
EXTENDS Naturals, FiniteSets

CONSTANTS
  Nodes,        \* node ids that the cloud hands out in assisted claiming
  Fragments,    \* pieces of CLAIM_FRAGMENT_SIZE of a CSR or a certificate
  MaxPhones,    \* bound: times a phone starts claiming
  MaxFaults     \* bound: kinds of failure in one behaviour

None  == "none"
NoKey == 0
Mac   == "mac"   \* the node id made of the MAC address

\* A node id of the cloud is one; a CSR and a certificate have a fragment at least.
ASSUME ClaimAssumption == None \notin Nodes /\ Fragments \in Nat \ {0}

\* esp_rmaker_claim_state_t
PkGenerated == 1
Started     == 2
InitDone    == 3
CsrDone     == 4
Verify      == 5
VerifyDone  == 6

VARIABLES
  method,    \* the ESP_RMAKER_CLAIM_TYPE of the firmware
  nvs,       \* the factory partition
  nodeId,    \* esp_rmaker_priv_data->node_id
  boot,      \* where the app is in esp_rmaker_node_init, or after it
  claim,     \* what the claim data hold
  memory,    \* whether they are allocated
  pointer,   \* esp_rmaker_priv_data->claim_data points to them
  group,     \* claim_event_group
  done,      \* CLAIM_TASK_BIT
  endpoint,  \* the handler of a phone's commands is registered
  ble,       \* where esp_rmaker_claiming_handler is
  phone,     \* the phone that claims
  keys,      \* history: keys generated so far
  parted,    \* history: the node id last given by the cloud got to NVS or to
             \* memory only, and no other since
  faults,    \* history: kinds of failure so far
  misuse,    \* history: what was done to freed claim data
  again,     \* history: a phone has sent a command after its certificate was stored
  early,     \* history: a certificate was stored before esp_rmaker_task waited for it
  phones     \* history: for the bound

credentials == <<nvs, nodeId, keys, parted>>
data        == <<claim, memory, pointer, misuse>>
session     == <<endpoint, ble, phone, again, early, phones>>
outcome    == <<group, done>>
claimVars   == <<method, credentials, boot, data, session, outcome, faults>>

-----------------------------------------------------------------------------
Csr(key, node) == [key |-> key, node |-> node]
NoCsr   == Csr(NoKey, None)
NoClaim == [state |-> 0, key |-> NoKey, csr |-> NoCsr, sent |-> 0, got |-> 0]
NoPhone == [at |-> "away", csr |-> NoCsr]

\* A certificate is the CSR it was issued for.
StoredNode == IF nvs.node = None THEN Mac ELSE nvs.node

Fault(kind) == faults' = faults \cup {kind} /\ Cardinality(faults') <= MaxFaults

\* esp_rmaker_get_mqtt_conn_params; a firmware that claims has a default host.
HasCredentials ==
  nvs.key # NoKey /\ nvs.cert # NoCsr /\ (method = "none" => nvs.host)

\* esp_rmaker_claim_data_free
Free ==
  /\ memory' = "freed"
  /\ misuse' = IF memory = "freed" THEN misuse \cup {"freed again"} ELSE misuse

\* A private key that was never there before.
NewKey == keys + 1

\* The node id that the cloud gave is stored, and used from now on; whether either
\* succeeds is not looked at.
ChangeNodeId(n) ==
  \E stored, used \in BOOLEAN :
    /\ nvs' = IF stored THEN [nvs EXCEPT !.node = n] ELSE nvs
    /\ nodeId' = IF used THEN n ELSE nodeId
    /\ parted' = IF stored = used THEN parted /\ ~used ELSE TRUE
    /\ IF stored /\ used THEN UNCHANGED faults ELSE Fault("node id")

\* When provisioning starts, a phone's commands get a handler.
EndpointAfter(event) ==
  endpoint \/ (event = "START" /\ method = "assisted" /\ pointer)

-----------------------------------------------------------------------------
(* esp_rmaker_node_init in the app's task, and the claim task it waits for *)

\* esp_rmaker_init: the node id, and whether claiming is needed.
NodeInit ==
  /\ boot = "init"
  /\ nodeId' = IF nvs.node = None /\ method # "none" THEN Mac ELSE nvs.node
  /\ parted' = (parted /\ HasCredentials)
  /\ \/ HasCredentials /\ boot' = "done" /\ UNCHANGED <<claim, memory>>
     \/ ~HasCredentials /\ method = "none" /\ boot' = "failed" /\ UNCHANGED <<claim, memory>>
     \/ ~HasCredentials /\ method # "none" /\ boot' = "key"
        /\ claim' = NoClaim /\ memory' = "live"
  /\ UNCHANGED <<method, nvs, keys, pointer, misuse, session, outcome, faults>>

\* The claim task gives up: esp_rmaker_claim_init returns NULL.
InitFails(kind) == Fault(kind) /\ Free /\ boot' = "failed" /\ UNCHANGED nvs

\* Mutant: the result of storing the key is not looked at.
KeyUnchecked ==
  /\ boot = "key"
  /\ keys' = IF nvs.key = NoKey THEN NewKey ELSE keys
  /\ LET key == IF nvs.key = NoKey THEN NewKey ELSE nvs.key IN
       /\ claim' = [claim EXCEPT !.state = PkGenerated, !.key = key]
       /\ \/ nvs' = [nvs EXCEPT !.key = key] /\ UNCHANGED faults
          \/ nvs.key = NoKey /\ Fault("key") /\ UNCHANGED nvs
  /\ boot' = "random" /\ UNCHANGED <<memory, misuse>>
  /\ UNCHANGED <<method, nodeId, parted, pointer, session, outcome>>

\* The private key: the stored one, or a new one that is stored.
ClaimKey ==
  /\ boot = "key"
  /\ keys' = IF nvs.key = NoKey THEN NewKey ELSE keys
  /\ LET key == IF nvs.key = NoKey THEN NewKey ELSE nvs.key IN
       /\ claim' = [claim EXCEPT !.state = PkGenerated, !.key = key]
       /\ \/ nvs' = [nvs EXCEPT !.key = key] /\ boot' = "random" /\ UNCHANGED <<memory, misuse, faults>>
          \/ nvs.key = NoKey /\ InitFails("key")
  /\ UNCHANGED <<method, nodeId, parted, pointer, session, outcome>>

\* The random bytes for general use.
ClaimRandom ==
  /\ boot = "random"
  /\ \/ /\ nvs' = [nvs EXCEPT !.random = TRUE]
        /\ boot' = IF method = "self" THEN "csr" ELSE "done"
        /\ pointer' = (method = "assisted")
        /\ UNCHANGED <<memory, misuse, faults>>
     \/ ~nvs.random /\ InitFails("random") /\ UNCHANGED pointer
  /\ UNCHANGED <<method, nodeId, parted, keys, claim, session, outcome>>

\* Self claiming makes its CSR at once.
ClaimCsr ==
  /\ boot = "csr"
  /\ \/ /\ claim' = [claim EXCEPT !.state = CsrDone, !.csr = Csr(claim.key, nodeId)]
        /\ boot' = "done" /\ pointer' = TRUE
        /\ UNCHANGED <<nvs, memory, misuse, faults>>
     \/ InitFails("csr") /\ UNCHANGED <<claim, pointer>>
  /\ UNCHANGED <<method, nodeId, parted, keys, session, outcome>>

ClaimInit == NodeInit \/ ClaimKey \/ ClaimRandom \/ ClaimCsr

-----------------------------------------------------------------------------
(* esp_rmaker_claiming_handler: a phone claims for the node *)

\* A command reaches the handler.  When the claim data are freed, what it does
\* is undefined.
CommandComes ==
  /\ endpoint /\ ble = "idle"
  /\ again' = (again \/ claim.state = VerifyDone \/ memory = "freed")

Valid == memory = "live" /\ UNCHANGED misuse

UsesFreed ==
  /\ memory = "freed" /\ misuse' = misuse \cup {"used"}
  /\ phone' = NoPhone /\ ble' = "idle"
  /\ UNCHANGED <<nvs, nodeId, parted, claim, outcome, faults, early>>

Refuses == phone' = NoPhone /\ UNCHANGED <<claim, nvs, nodeId, parted>>

Others == UNCHANGED <<method, keys, boot, memory, pointer, endpoint>>

\* esp_rmaker_assisted_claim_handle_start
HandleStart ==
  /\ Valid
  /\ IF claim.state >= PkGenerated
     THEN claim' = [claim EXCEPT !.state = Started, !.sent = 0, !.got = 0] /\ phone' = [at |-> "started", csr |-> NoCsr]
     ELSE phone' = NoPhone /\ UNCHANGED claim
  /\ UNCHANGED <<nvs, nodeId, parted, ble, outcome, faults, early>>

PhoneStarts ==
  /\ CommandComes /\ phone = NoPhone
  /\ phones < MaxPhones /\ phones' = phones + 1
  /\ HandleStart \/ UsesFreed
  /\ Others

\* A fragment of the CSR, the last of which ends this part.
SendFragment(c) ==
  LET sent == c.sent + 1 IN
    /\ claim' = [c EXCEPT !.sent = sent, !.state = IF sent = Fragments THEN Verify ELSE @]
    /\ phone' = [at |-> IF sent = Fragments THEN "csr" ELSE "init", csr |-> c.csr]

\* esp_rmaker_assisted_claim_handle_init: the node id that the phone got from
\* the cloud, and the CSR that the handler waits for; then the rest of the CSR.
HandleInit ==
  /\ Valid
  /\ \/ claim.state < Started /\ Refuses /\ UNCHANGED <<ble, faults>>
     \/ /\ claim.state = InitDone /\ SendFragment(claim)
        /\ UNCHANGED <<nvs, nodeId, parted, ble, faults>>
     \/ /\ claim.state >= Started /\ claim.state # InitDone
        /\ \E n \in Nodes : ChangeNodeId(n)
        /\ ble' = "csr" /\ UNCHANGED <<claim, phone>>
  /\ UNCHANGED <<outcome, early>>

PhoneInits ==
  /\ CommandComes /\ phone.at \in {"started", "init"}
  /\ HandleInit \/ UsesFreed
  /\ Others /\ UNCHANGED phones

\* esp_rmaker_claim_csr_task, and the first fragment of its result
HandleCsr ==
  /\ ble = "csr"
  /\ \/ UsesFreed
     \/ /\ Valid
        /\ \/ /\ SendFragment([claim EXCEPT !.state = InitDone, !.csr = Csr(claim.key, nodeId), !.sent = 0])
              /\ UNCHANGED faults
           \/ Fault("csr") /\ phone' = NoPhone /\ UNCHANGED claim
        /\ ble' = "idle" /\ UNCHANGED <<nvs, nodeId, parted, outcome, early>>
  /\ Others /\ UNCHANGED <<again, phones>>

\* Mutant: a certificate that starts again is added to what came before.
ReceivedOn == claim.got + 1

\* Offset 0 starts a certificate anew.
Received == IF phone.at = "csr" THEN 1 ELSE claim.got + 1

\* esp_rmaker_assisted_claim_handle_verify: the fragments of the certificate,
\* after the last of which it is parsed.
HandleVerify ==
  /\ Valid
  /\ \/ claim.state < Verify /\ Refuses /\ UNCHANGED <<ble, faults>>
     \/ /\ claim.state >= Verify
        /\ claim' = [claim EXCEPT !.got = Received]
        /\ phone' = [phone EXCEPT !.at = "verify"]
        /\ ble' = IF Received = Fragments THEN "host" ELSE "idle"
        /\ UNCHANGED <<nvs, nodeId, parted, faults>>
     \/ claim.state >= Verify /\ Fault("certificate") /\ Refuses /\ UNCHANGED ble
  /\ UNCHANGED <<outcome, early>>

PhoneVerifies ==
  /\ CommandComes /\ phone.at \in {"csr", "verify"}
  /\ HandleVerify \/ UsesFreed
  /\ Others /\ UNCHANGED phones

\* handle_claim_verify_response: the host, if there is one, ...
HandleHost ==
  /\ ble = "host"
  /\ \/ UsesFreed
     \/ /\ Valid /\ ble' = "cert"
        /\ nvs' \in {nvs, [nvs EXCEPT !.host = TRUE]}
        /\ UNCHANGED <<nodeId, parted, claim, phone, outcome, faults, early>>
  /\ Others /\ UNCHANGED <<again, phones>>

\* ... and the certificate; esp_rmaker_task is told if it waits.  The phone may
\* lose the answer, and then sends the certificate again.
HandleCertificate ==
  /\ ble = "cert"
  /\ \/ UsesFreed
     \/ /\ Valid /\ ble' = "idle"
        /\ nvs' = [nvs EXCEPT !.cert = phone.csr]
        /\ claim' = [claim EXCEPT !.state = VerifyDone]
        /\ done' = (done \/ group = "live")
        /\ early' = (early \/ group = "null")
        /\ \/ phone' = NoPhone /\ UNCHANGED faults
           \/ phone' = [phone EXCEPT !.at = "csr"] /\ Fault("answer")
        /\ UNCHANGED <<nodeId, parted, group>>
     \/ /\ Valid /\ ble' = "idle"
        /\ Fault("nvs") /\ phone' = NoPhone
        /\ UNCHANGED <<nvs, nodeId, parted, claim, outcome, early>>
  /\ Others /\ UNCHANGED <<again, phones>>

\* The phone aborts, or is not heard of again.
PhoneAborts ==
  /\ CommandComes /\ phone # NoPhone /\ phone' = NoPhone
  /\ \/ UsesFreed
     \/ /\ Valid /\ claim' = [claim EXCEPT !.state = PkGenerated, !.sent = 0, !.got = 0]
        /\ UNCHANGED <<nvs, nodeId, parted, ble, outcome, faults, early>>
  /\ Others /\ UNCHANGED phones

PhoneLeaves ==
  /\ ble = "idle" /\ phone # NoPhone /\ phone' = NoPhone
  /\ UNCHANGED <<method, credentials, boot, data, outcome, faults, endpoint, ble, again, early, phones>>

PhoneStep ==
  \/ PhoneStarts \/ PhoneInits \/ HandleCsr \/ PhoneVerifies \/ HandleHost \/ HandleCertificate
  \/ PhoneAborts \/ PhoneLeaves

-----------------------------------------------------------------------------
(* esp_rmaker_assisted_claim_perform in esp_rmaker_task *)

PerformBegin ==
  /\ group' = "live" /\ done' = FALSE
  /\ UNCHANGED <<method, credentials, boot, data, session, faults>>

\* The bit is set; claim_event_group is left pointing to the deleted group.  What
\* becomes of the pointer is the caller's.
PerformEnds(ok) ==
  /\ group = "live" /\ done
  /\ ok = (claim.state = VerifyDone)
  /\ Free /\ group' = "deleted"
  /\ UNCHANGED <<method, credentials, boot, claim, session, done, faults>>

-----------------------------------------------------------------------------
(* esp_rmaker_self_claim_perform in esp_rmaker_task *)

\* The first request; without an answer the claim data are kept.
SelfInit(ok, online) ==
  /\ \/ ok /\ online /\ claim' = [claim EXCEPT !.state = InitDone] /\ UNCHANGED faults
     \/ ~ok /\ ~online /\ UNCHANGED <<claim, faults>>
     \/ ~ok /\ online /\ Fault("http") /\ claim' \in {claim, [claim EXCEPT !.state = Started]}
  /\ UNCHANGED <<method, credentials, boot, memory, pointer, misuse, session, outcome>>

\* The second request; the claim data are freed whatever comes of it.
SelfVerify(ok) ==
  /\ \/ ok /\ claim' = [claim EXCEPT !.state = Verify] /\ UNCHANGED <<memory, misuse, faults>>
     \/ ~ok /\ Fault("verify") /\ claim' \in {claim, [claim EXCEPT !.state = Verify]} /\ Free
  /\ UNCHANGED <<method, credentials, boot, pointer, session, outcome>>

SelfHost ==
  /\ nvs' \in {nvs, [nvs EXCEPT !.host = TRUE]}
  /\ UNCHANGED <<method, nodeId, parted, keys, boot, data, session, outcome, faults>>

SelfCertificate(ok) ==
  /\ \/ /\ ok /\ nvs' = [nvs EXCEPT !.cert = claim.csr]
        /\ claim' = [claim EXCEPT !.state = VerifyDone] /\ UNCHANGED faults
     \/ ~ok /\ Fault("verify") /\ UNCHANGED <<nvs, claim>>
  /\ Free
  /\ UNCHANGED <<method, nodeId, parted, keys, boot, session, outcome>>

=============================================================================
