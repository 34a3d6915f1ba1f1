----------------------------- MODULE NodeProofs ------------------------------
(***************************************************************************)
(* Proofs about Node: the invariants of the run node for every set of node *)
(* ids, every number of fragments and whatever the bounds are.            *)
(*                                                                         *)
(* The inductive invariant NodeInv has two halves.  ClaimInv is about the  *)
(* credentials and the claim data: the lemmas "...Step" show that every    *)
(* action keeps it.  The rest is about events, Wi-Fi and local control:    *)
(* the lemmas "...Rest" show that every action keeps it.                   *)
(***************************************************************************)
EXTENDS Node, TLAPS

-----------------------------------------------------------------------------
(* The invariant of claiming *)

\* Where the app is once its node is initialised, and while its key is made; where
\* esp_rmaker_task is while it claims for itself.
Ready     == {"done", "started", "up", "deinit"}
Making    == {"key", "random", "csr"}
SelfTasks == {"verify", "host", "certificate"}
Csrs      == [key : Nat, node : Nodes \cup {None, Mac}]

\* What the variables hold.
ClaimRecs == [state : 0..VerifyDone, key : Nat, csr : Csrs, sent : 0..Fragments, got : 0..Fragments]
PhoneRecs == [at : {"away", "started", "init", "csr", "verify"}, csr : Csrs]
NvsRecs   == [key : Nat, random : BOOLEAN, node : Nodes \cup {None}, cert : Csrs, host : BOOLEAN]

NvsTypes ==
  /\ nvs \in NvsRecs /\ nodeId \in Nodes \cup {None, Mac}
  /\ keys \in Nat \ {0} /\ nvs.key <= keys

PlaceTypes ==
  /\ method \in Methods
  /\ boot \in {"init", "failed"} \cup Making \cup Ready
  /\ memory \in {"none", "live", "freed"} /\ group \in {"null", "live", "deleted"}
  /\ ble \in {"idle", "csr", "host", "cert"}

FlagTypes ==
  /\ pointer \in BOOLEAN /\ done \in BOOLEAN /\ endpoint \in BOOLEAN
  /\ again \in BOOLEAN /\ early \in BOOLEAN /\ parted \in BOOLEAN

ClaimTypes == claim \in ClaimRecs
PhoneTypes == phone \in PhoneRecs

\* How far the app and esp_rmaker_task are.
StageInv ==
  /\ task # "none" => boot \in {"started", "up", "deinit"}
  /\ pointer \/ endpoint \/ ble # "idle" \/ done => boot \in Ready
  /\ endpoint \/ ble # "idle" => method = "assisted"
  /\ boot = "init" => memory = "none"
  /\ boot \in Making => memory = "live" /\ nvs.cert = NoCsr /\ method # "none"
  /\ boot = "csr" => method = "self"
  /\ pointer => method \in {"self", "assisted"}
  /\ pointer => memory = "live" \/ (task = "failed" /\ memory = "freed")
  /\ memory = "live" => method # "none"
  /\ pointer /\ method = "assisted" => task \notin {"wifi", "waiting", "self"}
  /\ task \in SelfTasks => pointer /\ method = "self"
  /\ task = "claiming" => pointer /\ method = "assisted" /\ group = "live"
  /\ task \in {"none", "begin", "claim"} => group = "null"

\* The key and the node id in memory are those in NVS, unless a phone's node id
\* reached only one of them.
KeyInv ==
  /\ nvs.key = NoKey => nvs.cert = NoCsr
  /\ boot \in {"random", "csr"} \cup Ready /\ memory = "live" => claim.key = nvs.key /\ nvs.key # NoKey
  /\ boot # "init" /\ method # "none" => nodeId = StoredNode \/ parted
  /\ parted => method = "assisted"
  /\ method = "self" /\ pointer => claim.csr = Csr(nvs.key, StoredNode)

\* What the phone has was made with them.
PhoneInv ==
  method = "assisted" /\ memory = "live" =>
    /\ ~again => nvs.cert = NoCsr \/ claim.state = VerifyDone
    /\ ~again /\ ble = "csr" => nvs.cert = NoCsr
    /\ ~again /\ phone.at \in {"csr", "verify"} /\ claim.state >= Verify =>
         phone.csr = Csr(nvs.key, nodeId)
    /\ claim.state = InitDone => claim.csr = Csr(nvs.key, nodeId)
    /\ ble \in {"host", "cert"} => phone.at = "verify" /\ claim.state >= Verify

\* Fragments are counted within the bounds.
FragmentInv ==
  /\ method = "assisted" /\ claim.state = InitDone => claim.sent < Fragments
  /\ phone.at = "verify" /\ ble = "idle" => claim.got < Fragments

\* Who owns the claim data, and what the task is told.
OwnerInv ==
  /\ done => group # "null"
  /\ method = "assisted" /\ done /\ ~again => claim.state = VerifyDone /\ ble = "idle"
  /\ memory = "freed" /\ ble # "idle" => again \/ boot = "deinit"
  /\ memory = "freed" /\ pointer => again \/ "verify" \in faults
  /\ pointer /\ method = "assisted" /\ nvs.cert # NoCsr => early \/ done \/ group = "deleted"

\* All of it, with the two properties it is there for.
ClaimInv ==
  /\ NvsTypes /\ PlaceTypes /\ FlagTypes /\ ClaimTypes /\ PhoneTypes
  /\ StageInv /\ KeyInv /\ PhoneInv /\ FragmentInv /\ OwnerInv
  /\ CredentialsMatch /\ ClaimDataOwned

-----------------------------------------------------------------------------
(* The invariant of events, Wi-Fi and local control *)

\* The events, those not yet handled, and where esp_rmaker_task is before Wi-Fi.
EventNames == {"START", "DEINIT", "GOT_IP", "CONNECTED", "DISCONNECTED"}
Pending(e) == \E i \in DOMAIN events : events[i] = e
Early      == {"none", "begin", "claim", "claiming", "wifi", "waiting", "failed"}

\* What esp_rmaker_task waits for has a handler.
CoreInv ==
  /\ bits \subseteq {"GOT_IP", "CONNECTED"} /\ handlers \subseteq {"GOT_IP", "CONNECTED"}
  /\ state = "STARTED" => task \in {"report", "ended"}
  /\ task \in {"claim", "claiming", "wifi", "waiting"} => "GOT_IP" \in handlers
  /\ task \in {"claim", "claiming", "wifi", "waiting", "self", "params", "local", "enabling",
               "connecting"} \cup SelfTasks => "CONNECTED" \in handlers

\* It has happened, or is an event, or is still to come.
NoticeInv ==
  /\ events \in Seq(EventNames)
  /\ task = "waiting" => wifi # "up" \/ "GOT_IP" \in bits \/ Pending("GOT_IP")
  /\ task = "connecting" =>
       client \in {"started", "lost"} \/ "CONNECTED" \in bits \/ Pending("CONNECTED")

\* Before a station is associated nothing past Wi-Fi is done.
EarlyInv ==
  /\ ~creds => wifi = "down"
  /\ boot \notin {"up", "deinit"} => prov = "idle" /\ wifi = "down" /\ events = <<>> /\ client # "linked"
  /\ wifi = "down" =>
       /\ task \in Early /\ "GOT_IP" \notin bits /\ ~Pending("GOT_IP") /\ ~Pending("DEINIT")
       /\ ~wanted /\ enabling = "no" /\ ~serving /\ ~name /\ ~leaving

\* Local control sees provisioning start and end.
WatchInv ==
  /\ boot \in {"done", "started"} => watching
  /\ Pending("START") => ~creds /\ prov = "running" /\ watching
  /\ Pending("DEINIT") \/ leaving => prov = "ended"
  /\ prov = "running" => Pending("START") \/ waiting
  /\ leaving => ~waiting
  /\ waiting /\ wanted => watching

\* The inductive invariant.
NodeInv == ClaimInv /\ CoreInv /\ NoticeInv /\ EarlyInv /\ WatchInv /\ LocalControlPursued

-----------------------------------------------------------------------------
(* The fields of the claim data *)

USE ClaimAssumption DEF credentials, data, session, outcome, Ready, Making, SelfTasks, PkGenerated,
                        Started, InitDone, CsrDone, Verify, VerifyDone, NoKey, None, Mac

\* A phone that is not there.
LEMMA NoPhoneFields == NoPhone \in PhoneRecs /\ NoPhone.at = "away"
  BY DEF NoPhone, NoCsr, Csr, PhoneRecs, Csrs

\* A field of the claim data gets another value.
LEMMA ClaimField ==
  ASSUME NEW c \in ClaimRecs
  PROVE  /\ \A s \in 0..VerifyDone : [c EXCEPT !.state = s] \in ClaimRecs
         /\ \A k \in Nat : [c EXCEPT !.key = k] \in ClaimRecs
         /\ \A r \in Csrs : [c EXCEPT !.csr = r] \in ClaimRecs
         /\ \A n \in 0..Fragments : [c EXCEPT !.sent = n] \in ClaimRecs
         /\ \A n \in 0..Fragments : [c EXCEPT !.got = n] \in ClaimRecs
  BY DEF ClaimRecs

\* A phone that starts begins with nothing.
LEMMA Restarted ==
  ASSUME claim \in ClaimRecs, claim' = [claim EXCEPT !.state = Started, !.sent = 0, !.got = 0]
  PROVE  /\ claim' \in ClaimRecs
         /\ claim'.state = Started /\ claim'.key = claim.key /\ claim'.csr = claim.csr
         /\ claim'.sent = 0 /\ claim'.got = 0
<1> DEFINE c1 == [claim EXCEPT !.state = Started]
           c2 == [c1 EXCEPT !.sent = 0]
           c3 == [c2 EXCEPT !.got = 0]
<1>0. claim' = c3  BY DEF ClaimRecs
<1>1. c1 \in ClaimRecs /\ c1.state = Started /\ c1.key = claim.key
      /\ c1.csr = claim.csr /\ c1.sent = claim.sent /\ c1.got = claim.got
  BY ClaimField DEF ClaimRecs
<1> HIDE DEF c1
<1>2. c2 \in ClaimRecs /\ c2.sent = 0 /\ c2.state = c1.state /\ c2.key = c1.key
      /\ c2.csr = c1.csr /\ c2.got = c1.got
  BY <1>1, ClaimField DEF ClaimRecs
<1> HIDE DEF c1, c2
<1>3. c3 \in ClaimRecs /\ c3.got = 0 /\ c3.state = c2.state /\ c3.key = c2.key
      /\ c3.csr = c2.csr /\ c3.sent = c2.sent
  BY <1>2, ClaimField DEF ClaimRecs
<1> HIDE DEF c3
<1> QED  BY <1>0, <1>1, <1>2, <1>3

\* A phone that aborts leaves nothing.
LEMMA Aborted ==
  ASSUME claim \in ClaimRecs, claim' = [claim EXCEPT !.state = PkGenerated, !.sent = 0, !.got = 0]
  PROVE  /\ claim' \in ClaimRecs
         /\ claim'.state = PkGenerated /\ claim'.key = claim.key
         /\ claim'.csr = claim.csr /\ claim'.sent = 0 /\ claim'.got = 0
<1> DEFINE c1 == [claim EXCEPT !.state = PkGenerated]
           c2 == [c1 EXCEPT !.sent = 0]
           c3 == [c2 EXCEPT !.got = 0]
<1>0. claim' = c3  BY DEF ClaimRecs
<1>1. c1 \in ClaimRecs /\ c1.state = PkGenerated /\ c1.key = claim.key
      /\ c1.csr = claim.csr /\ c1.sent = claim.sent /\ c1.got = claim.got
  BY ClaimField DEF ClaimRecs
<1> HIDE DEF c1
<1>2. c2 \in ClaimRecs /\ c2.sent = 0 /\ c2.state = c1.state /\ c2.key = c1.key
      /\ c2.csr = c1.csr /\ c2.got = c1.got
  BY <1>1, ClaimField DEF ClaimRecs
<1> HIDE DEF c1, c2
<1>3. c3 \in ClaimRecs /\ c3.got = 0 /\ c3.state = c2.state /\ c3.key = c2.key
      /\ c3.csr = c2.csr /\ c3.sent = c2.sent
  BY <1>2, ClaimField DEF ClaimRecs
<1> HIDE DEF c3
<1> QED  BY <1>0, <1>1, <1>2, <1>3

\* The claim task has the key.
LEMMA Keyed ==
  ASSUME claim \in ClaimRecs, NEW k \in Nat, claim' = [claim EXCEPT !.state = PkGenerated, !.key = k]
  PROVE  /\ claim' \in ClaimRecs
         /\ claim'.state = PkGenerated /\ claim'.key = k /\ claim'.csr = claim.csr
         /\ claim'.sent = claim.sent /\ claim'.got = claim.got
<1> DEFINE c1 == [claim EXCEPT !.state = PkGenerated]
           c2 == [c1 EXCEPT !.key = k]
<1>0. claim' = c2  BY DEF ClaimRecs
<1>1. c1 \in ClaimRecs /\ c1.state = PkGenerated /\ c1.key = claim.key
      /\ c1.csr = claim.csr /\ c1.sent = claim.sent /\ c1.got = claim.got
  BY ClaimField DEF ClaimRecs
<1> HIDE DEF c1
<1>2. c2 \in ClaimRecs /\ c2.key = k /\ c2.state = c1.state /\ c2.csr = c1.csr
      /\ c2.sent = c1.sent /\ c2.got = c1.got
  BY <1>1, ClaimField DEF ClaimRecs
<1> HIDE DEF c2
<1> QED  BY <1>0, <1>1, <1>2

\* The claim task makes the CSR.
LEMMA Signed ==
  ASSUME claim \in ClaimRecs, Csr(claim.key, nodeId) \in Csrs,
         claim' = [claim EXCEPT !.state = CsrDone, !.csr = Csr(claim.key, nodeId)]
  PROVE  /\ claim' \in ClaimRecs
         /\ claim'.state = CsrDone /\ claim'.key = claim.key
         /\ claim'.csr = Csr(claim.key, nodeId) /\ claim'.sent = claim.sent /\ claim'.got = claim.got
<1> DEFINE c1 == [claim EXCEPT !.state = CsrDone]
           c2 == [c1 EXCEPT !.csr = Csr(claim.key, nodeId)]
<1>0. claim' = c2  BY DEF ClaimRecs
<1>1. c1 \in ClaimRecs /\ c1.state = CsrDone /\ c1.key = claim.key
      /\ c1.csr = claim.csr /\ c1.sent = claim.sent /\ c1.got = claim.got
  BY ClaimField DEF ClaimRecs
<1> HIDE DEF c1
<1>2. c2 \in ClaimRecs /\ c2.csr = Csr(claim.key, nodeId) /\ c2.state = c1.state
      /\ c2.key = c1.key /\ c2.sent = c1.sent /\ c2.got = c1.got
  BY <1>1, ClaimField DEF ClaimRecs
<1> HIDE DEF c2
<1> QED  BY <1>0, <1>1, <1>2

\* The claim data with the CSR for a phone.
Made == [claim EXCEPT !.state = InitDone, !.csr = Csr(claim.key, nodeId), !.sent = 0]

\* The CSR for a phone.
LEMMA CsrMade ==
  ASSUME claim \in ClaimRecs, Csr(claim.key, nodeId) \in Csrs
  PROVE  /\ Made \in ClaimRecs
         /\ Made.state = InitDone /\ Made.key = claim.key
         /\ Made.csr = Csr(claim.key, nodeId) /\ Made.sent = 0 /\ Made.got = claim.got
<1> DEFINE c1 == [claim EXCEPT !.state = InitDone]
           c2 == [c1 EXCEPT !.csr = Csr(claim.key, nodeId)]
           c3 == [c2 EXCEPT !.sent = 0]
<1>0. Made = c3  BY DEF Made, ClaimRecs
<1>1. c1 \in ClaimRecs /\ c1.state = InitDone /\ c1.key = claim.key
      /\ c1.csr = claim.csr /\ c1.sent = claim.sent /\ c1.got = claim.got
  BY ClaimField DEF ClaimRecs
<1> HIDE DEF c1
<1>2. c2 \in ClaimRecs /\ c2.csr = Csr(claim.key, nodeId) /\ c2.state = c1.state
      /\ c2.key = c1.key /\ c2.sent = c1.sent /\ c2.got = c1.got
  BY <1>1, ClaimField DEF ClaimRecs
<1> HIDE DEF c1, c2
<1>3. c3 \in ClaimRecs /\ c3.sent = 0 /\ c3.state = c2.state /\ c3.key = c2.key
      /\ c3.csr = c2.csr /\ c3.got = c2.got
  BY <1>2, ClaimField DEF ClaimRecs
<1> HIDE DEF c3
<1> QED  BY <1>0, <1>1, <1>2, <1>3

\* A fragment of the CSR is sent.
LEMMA SentOne ==
  ASSUME NEW c \in ClaimRecs, c.sent < Fragments,
         claim' = [c EXCEPT !.sent = c.sent + 1, !.state = IF c.sent + 1 = Fragments THEN Verify ELSE @]
  PROVE  /\ claim' \in ClaimRecs /\ claim'.sent = c.sent + 1
         /\ claim'.state = (IF claim'.sent = Fragments THEN Verify ELSE c.state)
         /\ claim'.key = c.key /\ claim'.csr = c.csr /\ claim'.got = c.got
<1> DEFINE s == IF c.sent + 1 = Fragments THEN Verify ELSE c.state
           c1 == [c EXCEPT !.sent = c.sent + 1]
           c2 == [c1 EXCEPT !.state = s]
<1>0. claim' = c2  BY DEF ClaimRecs
<1>1. s \in 0..VerifyDone /\ c.sent + 1 \in 0..Fragments  BY DEF ClaimRecs
<1>2. /\ c1 \in ClaimRecs /\ c1.sent = c.sent + 1
      /\ c1.state = c.state /\ c1.key = c.key /\ c1.csr = c.csr /\ c1.got = c.got
  BY <1>1, ClaimField DEF ClaimRecs
<1> HIDE DEF c1
<1>3. /\ c2 \in ClaimRecs /\ c2.state = s
      /\ c2.sent = c1.sent /\ c2.key = c1.key /\ c2.csr = c1.csr /\ c2.got = c1.got
  BY <1>1, <1>2, ClaimField DEF ClaimRecs
<1> HIDE DEF c2
<1> QED  BY <1>0, <1>1, <1>2, <1>3

-----------------------------------------------------------------------------
(* Every action keeps the invariant of claiming *)

LEMMA NodeInitStep ==
  ASSUME ClaimInv, NodeInit, UNCHANGED task
  PROVE  ClaimInv'
<1> USE DEF Csrs, NodeInit, HasCredentials, StoredNode, NoClaim, NoCsr, Csr
<1>1. NvsTypes'  BY DEF ClaimInv, NvsTypes, NvsRecs
<1>2. PlaceTypes'  BY DEF ClaimInv, PlaceTypes
<1>3. FlagTypes'  BY DEF ClaimInv, FlagTypes
<1>4. ClaimTypes'  BY DEF ClaimInv, ClaimTypes, ClaimRecs
<1>5. PhoneTypes'  BY DEF ClaimInv, PhoneTypes
<1>6. StageInv'  BY DEF ClaimInv, StageInv, KeyInv
<1>7. KeyInv'  BY DEF ClaimInv, StageInv, KeyInv
<1>8. PhoneInv'  BY DEF ClaimInv, StageInv, KeyInv, PhoneInv
<1>9. FragmentInv'  BY DEF ClaimInv, FragmentInv
<1>10. OwnerInv'  BY DEF ClaimInv, StageInv, OwnerInv
<1>11. CredentialsMatch'  BY DEF ClaimInv, KeyInv, CredentialsMatch
<1>12. ClaimDataOwned'  BY DEF ClaimInv, ClaimDataOwned
<1> QED  BY <1>1, <1>2, <1>3, <1>4, <1>5, <1>6, <1>7, <1>8, <1>9, <1>10, <1>11, <1>12 DEF ClaimInv

LEMMA ClaimKeyStep ==
  ASSUME ClaimInv, ClaimKey, UNCHANGED task
  PROVE  ClaimInv'
<1>a. ClaimTypes'
  <2> DEFINE key == IF nvs.key = NoKey THEN NewKey ELSE nvs.key
  <2>1. claim' = [claim EXCEPT !.state = PkGenerated, !.key = key]  BY DEF ClaimKey
  <2>2. key \in Nat  BY DEF ClaimInv, NvsTypes, NvsRecs, NewKey
  <2>3. claim \in ClaimRecs  BY DEF ClaimInv, ClaimTypes
  <2> HIDE DEF key
  <2> QED  BY <2>1, <2>2, <2>3, Keyed DEF ClaimTypes
<1> USE DEF Csrs, ClaimKey, NewKey, InitFails, Fault, Free, StoredNode, NoCsr, Csr
<1>1. NvsTypes'  BY DEF ClaimInv, NvsTypes, StageInv, NvsRecs
<1>2. PlaceTypes'  BY DEF ClaimInv, PlaceTypes
<1>3. FlagTypes'  BY DEF ClaimInv, FlagTypes
<1>4. ClaimTypes'  BY <1>a
<1>5. PhoneTypes'  BY DEF ClaimInv, PhoneTypes
<1>6. StageInv'  BY DEF ClaimInv, NvsTypes, NvsRecs, StageInv
<1>7. KeyInv'  BY DEF ClaimInv, NvsTypes, NvsRecs, StageInv, KeyInv
<1>8. PhoneInv'  BY DEF ClaimInv, NvsTypes, NvsRecs, StageInv, PhoneInv
<1>9. FragmentInv'  BY DEF ClaimInv, StageInv, FragmentInv
<1>10. OwnerInv'  BY DEF ClaimInv, StageInv, OwnerInv
<1>11. CredentialsMatch'  BY DEF ClaimInv, NvsTypes, NvsRecs, StageInv, CredentialsMatch
<1>12. ClaimDataOwned'  BY DEF ClaimInv, StageInv, ClaimDataOwned
<1> QED  BY <1>1, <1>2, <1>3, <1>4, <1>5, <1>6, <1>7, <1>8, <1>9, <1>10, <1>11, <1>12 DEF ClaimInv

LEMMA ClaimRandomStep ==
  ASSUME ClaimInv, ClaimRandom, UNCHANGED task
  PROVE  ClaimInv'
<1>a. nvs' \in NvsRecs /\ nvs'.key = nvs.key
  <2>1. nvs' = nvs \/ nvs' = [nvs EXCEPT !.random = TRUE]  BY DEF ClaimRandom, InitFails
  <2> QED  BY <2>1 DEF ClaimInv, NvsTypes, NvsRecs
<1> USE DEF Csrs, ClaimRandom, InitFails, Fault, Free, StoredNode, NoCsr, Csr
<1>1. NvsTypes'  BY <1>a DEF ClaimInv, NvsTypes
<1>2. PlaceTypes'  BY DEF ClaimInv, PlaceTypes
<1>3. FlagTypes'  BY DEF ClaimInv, FlagTypes
<1>4. ClaimTypes'  BY DEF ClaimInv, ClaimTypes
<1>5. PhoneTypes'  BY DEF ClaimInv, PhoneTypes
<1>6. StageInv'  BY DEF ClaimInv, NvsTypes, NvsRecs, FlagTypes, StageInv
<1>7. KeyInv'  BY DEF ClaimInv, NvsTypes, NvsRecs, FlagTypes, StageInv, KeyInv
<1>8. PhoneInv'  BY DEF ClaimInv, NvsTypes, NvsRecs, PhoneInv
<1>9. FragmentInv'  BY DEF ClaimInv, FragmentInv
<1>10. OwnerInv'  BY DEF ClaimInv, NvsTypes, NvsRecs, StageInv, OwnerInv
<1>11. CredentialsMatch'  BY DEF ClaimInv, NvsTypes, NvsRecs, CredentialsMatch
<1>12. ClaimDataOwned'  BY DEF ClaimInv, StageInv, ClaimDataOwned
<1> QED  BY <1>1, <1>2, <1>3, <1>4, <1>5, <1>6, <1>7, <1>8, <1>9, <1>10, <1>11, <1>12 DEF ClaimInv

LEMMA ClaimCsrStep ==
  ASSUME ClaimInv, ClaimCsr, UNCHANGED task
  PROVE  ClaimInv'
<1>a. /\ ClaimTypes' /\ claim'.key = claim.key
      /\ pointer' => claim'.csr = Csr(claim.key, nodeId)
  <2>1. \/ claim' = claim /\ ~pointer'
        \/ claim' = [claim EXCEPT !.state = CsrDone, !.csr = Csr(claim.key, nodeId)]
    BY DEF ClaimCsr, InitFails, ClaimInv, StageInv
  <2>2. Csr(claim.key, nodeId) \in Csrs /\ claim \in ClaimRecs
    BY DEF ClaimInv, NvsTypes, ClaimTypes, ClaimRecs, Csrs, Csr
  <2>3. CASE claim' = claim /\ ~pointer'  BY <2>2, <2>3 DEF ClaimTypes
  <2>4. CASE claim' = [claim EXCEPT !.state = CsrDone, !.csr = Csr(claim.key, nodeId)]
    BY <2>2, <2>4, Signed DEF ClaimTypes
  <2> QED  BY <2>1, <2>3, <2>4
<1> USE DEF Csrs, ClaimCsr, InitFails, Fault, Free, StoredNode, NoCsr, Csr
<1>1. NvsTypes'  BY DEF ClaimInv, NvsTypes
<1>2. PlaceTypes'  BY DEF ClaimInv, PlaceTypes
<1>3. FlagTypes'  BY DEF ClaimInv, FlagTypes
<1>4. ClaimTypes'  BY <1>a
<1>5. PhoneTypes'  BY DEF ClaimInv, PhoneTypes
<1>6. StageInv'  BY DEF ClaimInv, StageInv
<1>7. KeyInv'  BY <1>a DEF ClaimInv, StageInv, KeyInv, NvsTypes, PlaceTypes
<1>8. PhoneInv'  BY DEF ClaimInv, StageInv, PhoneInv
<1>9. FragmentInv'  BY DEF ClaimInv, ClaimTypes, ClaimRecs, StageInv, FragmentInv
<1>10. OwnerInv'  BY DEF ClaimInv, StageInv, OwnerInv
<1>11. CredentialsMatch'  BY DEF ClaimInv, CredentialsMatch
<1>12. ClaimDataOwned'  BY DEF ClaimInv, StageInv, ClaimDataOwned
<1> QED  BY <1>1, <1>2, <1>3, <1>4, <1>5, <1>6, <1>7, <1>8, <1>9, <1>10, <1>11, <1>12 DEF ClaimInv

LEMMA AppStartStep ==
  ASSUME ClaimInv, AppStart
  PROVE  ClaimInv'
<1> USE DEF Csrs, AppStart, StoredNode
<1>1. NvsTypes'  BY DEF ClaimInv, NvsTypes
<1>2. PlaceTypes'  BY DEF ClaimInv, PlaceTypes
<1>3. FlagTypes'  BY DEF ClaimInv, FlagTypes
<1>4. ClaimTypes'  BY DEF ClaimInv, ClaimTypes
<1>5. PhoneTypes'  BY DEF ClaimInv, PhoneTypes
<1>6. StageInv'  BY DEF ClaimInv, StageInv
<1>7. KeyInv'  BY DEF ClaimInv, KeyInv
<1>8. PhoneInv'  BY DEF ClaimInv, PhoneInv
<1>9. FragmentInv'  BY DEF ClaimInv, FragmentInv
<1>10. OwnerInv'  BY DEF ClaimInv, OwnerInv
<1>11. CredentialsMatch'  BY DEF ClaimInv, CredentialsMatch
<1>12. ClaimDataOwned'  BY DEF ClaimInv, ClaimDataOwned
<1> QED  BY <1>1, <1>2, <1>3, <1>4, <1>5, <1>6, <1>7, <1>8, <1>9, <1>10, <1>11, <1>12 DEF ClaimInv

LEMMA AppNetworkStep ==
  ASSUME ClaimInv, AppNetwork
  PROVE  ClaimInv'
<1> USE DEF Csrs, AppNetwork, KeepCore, core, StoredNode
<1>1. NvsTypes'  BY DEF ClaimInv, NvsTypes
<1>2. PlaceTypes'  BY DEF ClaimInv, PlaceTypes
<1>3. FlagTypes'  BY DEF ClaimInv, FlagTypes
<1>4. ClaimTypes'  BY DEF ClaimInv, ClaimTypes
<1>5. PhoneTypes'  BY DEF ClaimInv, PhoneTypes
<1>6. StageInv'  BY DEF ClaimInv, StageInv
<1>7. KeyInv'  BY DEF ClaimInv, KeyInv
<1>8. PhoneInv'  BY DEF ClaimInv, PhoneInv
<1>9. FragmentInv'  BY DEF ClaimInv, FragmentInv
<1>10. OwnerInv'  BY DEF ClaimInv, OwnerInv
<1>11. CredentialsMatch'  BY DEF ClaimInv, CredentialsMatch
<1>12. ClaimDataOwned'  BY DEF ClaimInv, ClaimDataOwned
<1> QED  BY <1>1, <1>2, <1>3, <1>4, <1>5, <1>6, <1>7, <1>8, <1>9, <1>10, <1>11, <1>12 DEF ClaimInv

LEMMA DeinitStep ==
  ASSUME ClaimInv, Deinit
  PROVE  ClaimInv'
<1> USE DEF Csrs, Deinit, Free, KeepCore, core, StoredNode
<1>1. NvsTypes'  BY DEF ClaimInv, NvsTypes
<1>2. PlaceTypes'  BY DEF ClaimInv, PlaceTypes
<1>3. FlagTypes'  BY DEF ClaimInv, FlagTypes
<1>4. ClaimTypes'  BY DEF ClaimInv, ClaimTypes
<1>5. PhoneTypes'  BY DEF ClaimInv, PhoneTypes
<1>6. StageInv'  BY DEF ClaimInv, StageInv
<1>7. KeyInv'  BY DEF ClaimInv, KeyInv
<1>8. PhoneInv'  BY DEF ClaimInv, PhoneInv
<1>9. FragmentInv'  BY DEF ClaimInv, FragmentInv
<1>10. OwnerInv'  BY DEF ClaimInv, OwnerInv
<1>11. CredentialsMatch'  BY DEF ClaimInv, CredentialsMatch
<1>12. ClaimDataOwned'  BY DEF ClaimInv, OwnerInv, ClaimDataOwned
<1> QED  BY <1>1, <1>2, <1>3, <1>4, <1>5, <1>6, <1>7, <1>8, <1>9, <1>10, <1>11, <1>12 DEF ClaimInv

LEMMA RebootStep ==
  ASSUME ClaimInv, Reboot
  PROVE  ClaimInv'
<1> USE DEF Csrs, Reboot, StoredNode, NoPhone, NoClaim, NoCsr, Csr
<1>1. NvsTypes'  BY DEF ClaimInv, NvsTypes
<1>2. PlaceTypes'  BY DEF ClaimInv, PlaceTypes
<1>3. FlagTypes'  BY DEF ClaimInv, FlagTypes
<1>4. ClaimTypes'  BY DEF ClaimInv, ClaimTypes, ClaimRecs
<1>5. PhoneTypes'  BY DEF ClaimInv, PhoneTypes, PhoneRecs
<1>6. StageInv'  BY DEF ClaimInv, StageInv
<1>7. KeyInv'  BY DEF ClaimInv, KeyInv
<1>8. PhoneInv'  BY DEF ClaimInv, PhoneInv
<1>9. FragmentInv'  BY DEF ClaimInv, FragmentInv
<1>10. OwnerInv'  BY DEF ClaimInv, OwnerInv
<1>11. CredentialsMatch'  BY DEF ClaimInv, CredentialsMatch
<1>12. ClaimDataOwned'  BY DEF ClaimInv, ClaimDataOwned
<1> QED  BY <1>1, <1>2, <1>3, <1>4, <1>5, <1>6, <1>7, <1>8, <1>9, <1>10, <1>11, <1>12 DEF ClaimInv

LEMMA BeginStep ==
  ASSUME ClaimInv, Begin
  PROVE  ClaimInv'
<1> USE DEF Csrs, Begin, claimVars, StoredNode
<1>1. NvsTypes'  BY DEF ClaimInv, NvsTypes
<1>2. PlaceTypes'  BY DEF ClaimInv, PlaceTypes
<1>3. FlagTypes'  BY DEF ClaimInv, FlagTypes
<1>4. ClaimTypes'  BY DEF ClaimInv, ClaimTypes
<1>5. PhoneTypes'  BY DEF ClaimInv, PhoneTypes
<1>6. StageInv'  BY DEF ClaimInv, StageInv
<1>7. KeyInv'  BY DEF ClaimInv, KeyInv
<1>8. PhoneInv'  BY DEF ClaimInv, PhoneInv
<1>9. FragmentInv'  BY DEF ClaimInv, FragmentInv
<1>10. OwnerInv'  BY DEF ClaimInv, OwnerInv
<1>11. CredentialsMatch'  BY DEF ClaimInv, CredentialsMatch
<1>12. ClaimDataOwned'  BY DEF ClaimInv, ClaimDataOwned
<1> QED  BY <1>1, <1>2, <1>3, <1>4, <1>5, <1>6, <1>7, <1>8, <1>9, <1>10, <1>11, <1>12 DEF ClaimInv

LEMMA AssistedStep ==
  ASSUME ClaimInv, Assisted
  PROVE  ClaimInv'
<1> USE DEF Csrs, Assisted, claimVars, Goes, Fails, PerformBegin, StoredNode
<1>1. NvsTypes'  BY DEF ClaimInv, NvsTypes
<1>2. PlaceTypes'  BY DEF ClaimInv, PlaceTypes
<1>3. FlagTypes'  BY DEF ClaimInv, FlagTypes
<1>4. ClaimTypes'  BY DEF ClaimInv, ClaimTypes
<1>5. PhoneTypes'  BY DEF ClaimInv, PhoneTypes
<1>6. StageInv'  BY DEF ClaimInv, StageInv
<1>7. KeyInv'  BY DEF ClaimInv, KeyInv
<1>8. PhoneInv'  BY DEF ClaimInv, PhoneInv
<1>9. FragmentInv'  BY DEF ClaimInv, FragmentInv
<1>10. OwnerInv'  BY DEF ClaimInv, StageInv, OwnerInv
<1>11. CredentialsMatch'  BY DEF ClaimInv, CredentialsMatch
<1>12. ClaimDataOwned'  BY DEF ClaimInv, ClaimDataOwned
<1> QED  BY <1>1, <1>2, <1>3, <1>4, <1>5, <1>6, <1>7, <1>8, <1>9, <1>10, <1>11, <1>12 DEF ClaimInv

LEMMA ClaimedStep ==
  ASSUME ClaimInv, Claimed
  PROVE  ClaimInv'
<1> USE DEF Csrs, Claimed, PerformEnds, ForgetClaim, Free, Goes, Fails, StoredNode
<1>1. NvsTypes'  BY DEF ClaimInv, NvsTypes
<1>2. PlaceTypes'  BY DEF ClaimInv, PlaceTypes
<1>3. FlagTypes'  BY DEF ClaimInv, FlagTypes
<1>4. ClaimTypes'  BY DEF ClaimInv, ClaimTypes
<1>5. PhoneTypes'  BY DEF ClaimInv, PhoneTypes
<1>6. StageInv'  BY DEF ClaimInv, StageInv
<1>7. KeyInv'
  <2>1. UNCHANGED <<nvs, nodeId, parted, boot, method, claim>>  OBVIOUS
  <2>2. memory' = "freed" /\ (pointer' => pointer)  BY DEF ClaimInv, FlagTypes
  <2> QED  BY <2>1, <2>2 DEF ClaimInv, KeyInv
<1>8. PhoneInv'  BY DEF ClaimInv, PhoneInv
<1>9. FragmentInv'  BY DEF ClaimInv, FragmentInv
<1>10. OwnerInv'
  <2>1. CASE claim.state = VerifyDone
    <3>1. /\ ~pointer' /\ group' = "deleted"
          /\ UNCHANGED <<done, ble, again, faults, boot, method, nvs, early, claim>>
      BY <2>1 
    <3>2. done => ble = "idle" \/ again  BY <2>1 DEF ClaimInv, StageInv, OwnerInv
    <3> QED  BY <2>1, <3>1, <3>2 DEF ClaimInv, FlagTypes, StageInv, OwnerInv
  <2>2. CASE claim.state # VerifyDone
    BY <2>2 DEF ClaimInv, FlagTypes, PlaceTypes, StageInv, OwnerInv
  <2> QED  BY <2>1, <2>2
<1>11. CredentialsMatch'  BY DEF ClaimInv, StageInv, CredentialsMatch
<1>12. ClaimDataOwned'
  <2>1. memory = "live"  BY DEF ClaimInv, StageInv
  <2>2. UNCHANGED <<misuse, again, boot>> /\ faults \subseteq faults'  BY <2>1
  <2> QED  BY <2>2 DEF ClaimInv, ClaimDataOwned
<1> QED  BY <1>1, <1>2, <1>3, <1>4, <1>5, <1>6, <1>7, <1>8, <1>9, <1>10, <1>11, <1>12 DEF ClaimInv

LEMMA WifiStep ==
  ASSUME ClaimInv, CheckWifi \/ WaitWifi
  PROVE  ClaimInv'
<1> USE DEF Csrs, CheckWifi, WaitWifi, claimVars, StoredNode
<1>1. NvsTypes'  BY DEF ClaimInv, NvsTypes
<1>2. PlaceTypes'  BY DEF ClaimInv, PlaceTypes
<1>3. FlagTypes'  BY DEF ClaimInv, FlagTypes
<1>4. ClaimTypes'  BY DEF ClaimInv, ClaimTypes
<1>5. PhoneTypes'  BY DEF ClaimInv, PhoneTypes
<1>6. StageInv'  BY DEF ClaimInv, StageInv
<1>7. KeyInv'  BY DEF ClaimInv, KeyInv
<1>8. PhoneInv'  BY DEF ClaimInv, PhoneInv
<1>9. FragmentInv'  BY DEF ClaimInv, FragmentInv
<1>10. OwnerInv'  BY DEF ClaimInv, OwnerInv
<1>11. CredentialsMatch'  BY DEF ClaimInv, CredentialsMatch
<1>12. ClaimDataOwned'  BY DEF ClaimInv, ClaimDataOwned
<1> QED  BY <1>1, <1>2, <1>3, <1>4, <1>5, <1>6, <1>7, <1>8, <1>9, <1>10, <1>11, <1>12 DEF ClaimInv

LEMMA SelfStep ==
  ASSUME ClaimInv, Self
  PROVE  ClaimInv'
<1> USE DEF Csrs, Self, claimVars, Goes, Fails, SelfInit, Fault, StoredNode
<1>1. NvsTypes'  BY DEF ClaimInv, NvsTypes
<1>2. PlaceTypes'  BY DEF ClaimInv, PlaceTypes
<1>3. FlagTypes'  BY DEF ClaimInv, FlagTypes
<1>4. ClaimTypes'  BY DEF ClaimInv, ClaimTypes, ClaimRecs
<1>5. PhoneTypes'  BY DEF ClaimInv, PhoneTypes
<1>6. StageInv'  BY DEF ClaimInv, StageInv
<1>7. KeyInv'  BY DEF ClaimInv, ClaimTypes, ClaimRecs, KeyInv
<1>8. PhoneInv'  BY DEF ClaimInv, StageInv, PhoneInv
<1>9. FragmentInv'  BY DEF ClaimInv, ClaimTypes, ClaimRecs, StageInv, FragmentInv
<1>10. OwnerInv'  BY DEF ClaimInv, StageInv, OwnerInv
<1>11. CredentialsMatch'  BY DEF ClaimInv, CredentialsMatch
<1>12. ClaimDataOwned'  BY DEF ClaimInv, ClaimDataOwned
<1> QED  BY <1>1, <1>2, <1>3, <1>4, <1>5, <1>6, <1>7, <1>8, <1>9, <1>10, <1>11, <1>12 DEF ClaimInv

LEMMA SelfVerifiesStep ==
  ASSUME ClaimInv, SelfVerifies
  PROVE  ClaimInv'
<1> USE DEF Csrs, SelfVerifies, SelfVerify, Goes, Fails, Fault, Free, StoredNode
<1>1. NvsTypes'  BY DEF ClaimInv, NvsTypes
<1>2. PlaceTypes'  BY DEF ClaimInv, PlaceTypes
<1>3. FlagTypes'  BY DEF ClaimInv, FlagTypes
<1>4. ClaimTypes'  BY DEF ClaimInv, StageInv, ClaimTypes, ClaimRecs
<1>5. PhoneTypes'  BY DEF ClaimInv, PhoneTypes
<1>6. StageInv'  BY DEF ClaimInv, StageInv
<1>7. KeyInv'  BY DEF ClaimInv, ClaimTypes, ClaimRecs, StageInv, KeyInv
<1>8. PhoneInv'  BY DEF ClaimInv, StageInv, PhoneInv
<1>9. FragmentInv'  BY DEF ClaimInv, ClaimTypes, ClaimRecs, StageInv, FragmentInv
<1>10. OwnerInv'  BY DEF ClaimInv, StageInv, OwnerInv
<1>11. CredentialsMatch'  BY DEF ClaimInv, StageInv, CredentialsMatch
<1>12. ClaimDataOwned'
  <2>1. memory = "live"  BY DEF ClaimInv, StageInv
  <2>2. UNCHANGED <<misuse, again, boot>> /\ faults \subseteq faults'  BY <2>1
  <2> QED  BY <2>2 DEF ClaimInv, ClaimDataOwned
<1> QED  BY <1>1, <1>2, <1>3, <1>4, <1>5, <1>6, <1>7, <1>8, <1>9, <1>10, <1>11, <1>12 DEF ClaimInv

LEMMA SelfStoresHostStep ==
  ASSUME ClaimInv, SelfStoresHost
  PROVE  ClaimInv'
<1> USE DEF Csrs, SelfStoresHost, SelfHost, Goes, StoredNode
<1>1. NvsTypes'  BY DEF ClaimInv, NvsTypes, NvsRecs
<1>2. PlaceTypes'  BY DEF ClaimInv, PlaceTypes
<1>3. FlagTypes'  BY DEF ClaimInv, FlagTypes
<1>4. ClaimTypes'  BY DEF ClaimInv, ClaimTypes
<1>5. PhoneTypes'  BY DEF ClaimInv, PhoneTypes
<1>6. StageInv'  BY DEF ClaimInv, StageInv
<1>7. KeyInv'  BY DEF ClaimInv, NvsTypes, NvsRecs, KeyInv
<1>8. PhoneInv'  BY DEF ClaimInv, StageInv, PhoneInv
<1>9. FragmentInv'  BY DEF ClaimInv, FragmentInv
<1>10. OwnerInv'  BY DEF ClaimInv, StageInv, OwnerInv
<1>11. CredentialsMatch'  BY DEF ClaimInv, NvsTypes, NvsRecs, CredentialsMatch
<1>12. ClaimDataOwned'  BY DEF ClaimInv, ClaimDataOwned
<1> QED  BY <1>1, <1>2, <1>3, <1>4, <1>5, <1>6, <1>7, <1>8, <1>9, <1>10, <1>11, <1>12 DEF ClaimInv

LEMMA SelfStoresCertificateStep ==
  ASSUME ClaimInv, SelfStoresCertificate
  PROVE  ClaimInv'
<1> USE DEF Csrs, SelfStoresCertificate, SelfCertificate, ForgetClaim, Goes, Fails, Fault, Free,
            StoredNode, NoCsr, Csr
<1>1. NvsTypes'  BY DEF ClaimInv, NvsTypes, NvsRecs, ClaimTypes, ClaimRecs, StageInv
<1>2. PlaceTypes'  BY DEF ClaimInv, PlaceTypes
<1>3. FlagTypes'  BY DEF ClaimInv, FlagTypes
<1>4. ClaimTypes'  BY DEF ClaimInv, StageInv, ClaimTypes, ClaimRecs
<1>5. PhoneTypes'  BY DEF ClaimInv, PhoneTypes
<1>6. StageInv'  BY DEF ClaimInv, StageInv
<1>7. KeyInv'  BY DEF ClaimInv, NvsTypes, NvsRecs, StageInv, KeyInv
<1>8. PhoneInv'  BY DEF ClaimInv, PhoneInv
<1>9. FragmentInv'  BY DEF ClaimInv, ClaimTypes, ClaimRecs, StageInv, FragmentInv
<1>10. OwnerInv'  BY DEF ClaimInv, StageInv, OwnerInv
<1>11. CredentialsMatch'  BY DEF ClaimInv, NvsTypes, NvsRecs, StageInv, KeyInv, CredentialsMatch
<1>12. ClaimDataOwned'
  <2>1. memory = "live"  BY DEF ClaimInv, StageInv
  <2>2. UNCHANGED <<misuse, again, boot>> /\ faults \subseteq faults'  BY <2>1
  <2> QED  BY <2>2 DEF ClaimInv, ClaimDataOwned
<1> QED  BY <1>1, <1>2, <1>3, <1>4, <1>5, <1>6, <1>7, <1>8, <1>9, <1>10, <1>11, <1>12 DEF ClaimInv

LEMMA LaterTaskStep ==
  ASSUME ClaimInv, LoadParams \/ EnableLocal \/ LocalEnabled \/ Connected \/ Report
  PROVE  ClaimInv'
<1> USE DEF Csrs, LoadParams, EnableLocal, LocalEnabled, Connected, Report, claimVars, Goes, Fails,
            Fault, StoredNode
<1>1. NvsTypes'  BY DEF ClaimInv, NvsTypes
<1>2. PlaceTypes'  BY DEF ClaimInv, PlaceTypes
<1>3. FlagTypes'  BY DEF ClaimInv, FlagTypes
<1>4. ClaimTypes'  BY DEF ClaimInv, ClaimTypes
<1>5. PhoneTypes'  BY DEF ClaimInv, PhoneTypes
<1>6. StageInv'  BY DEF ClaimInv, StageInv
<1>7. KeyInv'  BY DEF ClaimInv, KeyInv
<1>8. PhoneInv'  BY DEF ClaimInv, PhoneInv
<1>9. FragmentInv'  BY DEF ClaimInv, FragmentInv
<1>10. OwnerInv'  BY DEF ClaimInv, OwnerInv
<1>11. CredentialsMatch'  BY DEF ClaimInv, CredentialsMatch
<1>12. ClaimDataOwned'  BY DEF ClaimInv, ClaimDataOwned
<1> QED  BY <1>1, <1>2, <1>3, <1>4, <1>5, <1>6, <1>7, <1>8, <1>9, <1>10, <1>11, <1>12 DEF ClaimInv

LEMMA PhoneStartsStep ==
  ASSUME ClaimInv, PhoneStarts, UNCHANGED task
  PROVE  ClaimInv'
<1>a. /\ UNCHANGED <<method, nvs, nodeId, parted, keys, boot, memory, pointer, endpoint, group, done,
                    faults, early, task>>
      /\ ble = "idle" /\ ble' = "idle" /\ endpoint
      /\ again' = (again \/ claim.state = VerifyDone \/ memory = "freed")
      /\ misuse' = misuse \/ (memory = "freed" /\ misuse' = misuse \cup {"used"})
  BY DEF PhoneStarts, CommandComes, HandleStart, UsesFreed, Valid, Others, outcome
<1>b. \/ claim' = claim /\ phone' = NoPhone
      \/ /\ claim' \in ClaimRecs
         /\ claim'.state = Started /\ claim'.sent = 0 /\ claim'.got = 0
         /\ claim'.key = claim.key /\ claim'.csr = claim.csr
         /\ phone'.at = "started" /\ phone' \in PhoneRecs
  <2>1. \/ claim' = claim /\ phone' = NoPhone
        \/ /\ claim' = [claim EXCEPT !.state = Started, !.sent = 0, !.got = 0]
           /\ phone' = [at |-> "started", csr |-> NoCsr]
    BY DEF PhoneStarts, HandleStart, UsesFreed
  <2>2. claim \in ClaimRecs  BY DEF ClaimInv, ClaimTypes
  <2>3. CASE claim' = claim /\ phone' = NoPhone  BY <2>3
  <2>4. CASE /\ claim' = [claim EXCEPT !.state = Started, !.sent = 0, !.got = 0]
             /\ phone' = [at |-> "started", csr |-> NoCsr]
    <3>1. phone'.at = "started" /\ phone' \in PhoneRecs  BY <2>4 DEF PhoneRecs, Csrs, NoCsr, Csr
    <3>2. /\ claim' \in ClaimRecs
          /\ claim'.state = Started /\ claim'.sent = 0 /\ claim'.got = 0
          /\ claim'.key = claim.key /\ claim'.csr = claim.csr
      BY <2>2, <2>4, Restarted
    <3> QED  BY <3>1, <3>2
  <2> QED  BY <2>1, <2>3, <2>4
<1> USE <1>a, <1>b, NoPhoneFields DEF StoredNode
<1>1. NvsTypes'  BY DEF ClaimInv, NvsTypes
<1>2. PlaceTypes'  BY DEF ClaimInv, PlaceTypes
<1>3. FlagTypes'  BY DEF ClaimInv, FlagTypes
<1>4. ClaimTypes'  BY DEF ClaimInv, ClaimTypes
<1>5. PhoneTypes'  BY DEF ClaimInv, PhoneTypes
<1>6. StageInv'  BY DEF ClaimInv, StageInv
<1>7. KeyInv'  BY DEF ClaimInv, KeyInv
<1>8. PhoneInv'
  <2>1. ~again' => ~again /\ claim.state # VerifyDone  BY DEF ClaimInv, FlagTypes
  <2>2. phone'.at \notin {"csr", "verify"}  OBVIOUS
  <2>3. claim'.state = InitDone => claim' = claim  OBVIOUS
  <2> QED  BY <2>1, <2>2, <2>3 DEF ClaimInv, PhoneInv
<1>9. FragmentInv'  BY DEF ClaimInv, FragmentInv
<1>10. OwnerInv'  BY DEF ClaimInv, OwnerInv
<1>11. CredentialsMatch'  BY DEF ClaimInv, CredentialsMatch
<1>12. ClaimDataOwned'  BY DEF ClaimInv, ClaimDataOwned
<1> QED  BY <1>1, <1>2, <1>3, <1>4, <1>5, <1>6, <1>7, <1>8, <1>9, <1>10, <1>11, <1>12 DEF ClaimInv

LEMMA PhoneInitsStep ==
  ASSUME ClaimInv, PhoneInits, UNCHANGED task
  PROVE  ClaimInv'
<1>a. /\ UNCHANGED <<method, keys, boot, memory, pointer, endpoint, group, done, early, task>>
      /\ "verify" \in faults => "verify" \in faults'
      /\ ble = "idle" /\ endpoint /\ phone.at \in {"started", "init"}
      /\ again' = (again \/ claim.state = VerifyDone \/ memory = "freed")
      /\ misuse' = misuse \/ (memory = "freed" /\ misuse' = misuse \cup {"used"})
  BY DEF PhoneInits, CommandComes, HandleInit, ChangeNodeId, Fault, UsesFreed, Valid, Others, outcome
<1>b. \/ UNCHANGED <<nvs, nodeId, parted, claim>> /\ phone' = NoPhone /\ ble' = "idle"
      \/ /\ claim.state # InitDone /\ memory = "live" /\ UNCHANGED <<claim, phone>> /\ ble' = "csr"
         /\ \E n \in Nodes :
              /\ nvs' \in {nvs, [nvs EXCEPT !.node = n]} /\ nodeId' \in {nodeId, n}
              /\ parted' \in BOOLEAN
              /\ parted' \/ (nvs'.node = n /\ nodeId' = n)
                 \/ (UNCHANGED <<nvs, nodeId, parted>>)
      \/ /\ claim.state = InitDone /\ memory = "live" /\ UNCHANGED <<nvs, nodeId, parted>> /\ ble' = "idle"
         /\ claim' \in ClaimRecs /\ claim'.sent = claim.sent + 1 /\ claim'.got = claim.got
         /\ claim'.key = claim.key /\ claim'.csr = claim.csr
         /\ claim'.state = (IF claim'.sent = Fragments THEN Verify ELSE InitDone)
         /\ phone'.at = (IF claim'.sent = Fragments THEN "csr" ELSE "init")
         /\ phone'.csr = claim'.csr /\ phone' \in PhoneRecs
  <2>1. CASE memory = "live" /\ claim.state = InitDone
    <3>1. /\ claim' = [claim EXCEPT !.sent = claim.sent + 1,
                                   !.state = IF claim.sent + 1 = Fragments THEN Verify ELSE @]
          /\ phone' = [at |-> IF claim.sent + 1 = Fragments THEN "csr" ELSE "init", csr |-> claim.csr]
          /\ UNCHANGED <<nvs, nodeId, parted, ble>>
      BY <2>1 DEF PhoneInits, HandleInit, UsesFreed, SendFragment
    <3>2. claim \in ClaimRecs /\ claim.sent < Fragments
      BY <1>a, <2>1 DEF ClaimInv, ClaimTypes, StageInv, FragmentInv
    <3>3. /\ claim' \in ClaimRecs /\ claim'.sent = claim.sent + 1 /\ claim'.got = claim.got
          /\ claim'.key = claim.key /\ claim'.csr = claim.csr
          /\ claim'.state = (IF claim'.sent = Fragments THEN Verify ELSE claim.state)
      BY <3>1, <3>2, SentOne
    <3> QED  BY <1>a, <2>1, <3>1, <3>3 DEF PhoneRecs, ClaimRecs
  <2>2. CASE memory = "live" /\ claim.state # InitDone
    <3>1. CASE claim.state < Started
      <4>1. claim.state \in Nat  BY DEF ClaimInv, ClaimTypes, ClaimRecs
      <4> QED  BY <1>a, <2>2, <3>1, <4>1 DEF PhoneInits, HandleInit, UsesFreed, Refuses
    <3>2. CASE ~(claim.state < Started)
      <4>1. nvs \in NvsRecs /\ parted \in BOOLEAN  BY DEF ClaimInv, NvsTypes, FlagTypes
      <4>2. UNCHANGED <<claim, phone>> /\ ble' = "csr" /\ \E n \in Nodes : ChangeNodeId(n)
        BY <2>2, <3>2 DEF PhoneInits, HandleInit, UsesFreed
      <4>3. PICK n \in Nodes : ChangeNodeId(n)  BY <4>2
      <4>4. /\ nvs' \in {nvs, [nvs EXCEPT !.node = n]} /\ nodeId' \in {nodeId, n}
            /\ parted' \in BOOLEAN
            /\ parted' \/ (nvs'.node = n /\ nodeId' = n)
               \/ (UNCHANGED <<nvs, nodeId, parted>>)
        BY <4>1, <4>3 DEF ChangeNodeId, NvsRecs
      <4> QED  BY <2>2, <4>2, <4>4
    <3> QED  BY <3>1, <3>2
  <2>3. CASE memory # "live"
    BY <1>a, <2>3 DEF PhoneInits, HandleInit, Valid, UsesFreed
  <2> QED  BY <2>1, <2>2, <2>3
<1> USE <1>a, <1>b, NoPhoneFields DEF StoredNode
<1>1. NvsTypes'  BY DEF ClaimInv, NvsTypes, NvsRecs
<1>2. PlaceTypes'  BY DEF ClaimInv, PlaceTypes
<1>3. FlagTypes'  BY DEF ClaimInv, FlagTypes
<1>4. ClaimTypes'  BY DEF ClaimInv, ClaimTypes
<1>5. PhoneTypes'  BY DEF ClaimInv, PhoneTypes
<1>6. StageInv'  BY DEF ClaimInv, StageInv
<1>7. KeyInv'  BY DEF ClaimInv, NvsTypes, NvsRecs, StageInv, KeyInv
<1>8. PhoneInv'  BY DEF ClaimInv, NvsTypes, NvsRecs, PhoneInv
<1>9. FragmentInv'  BY DEF ClaimInv, ClaimRecs, FragmentInv
<1>10. OwnerInv'  BY DEF ClaimInv, NvsTypes, NvsRecs, OwnerInv
<1>11. CredentialsMatch'  BY DEF ClaimInv, NvsTypes, NvsRecs, StageInv, PhoneInv, CredentialsMatch
<1>12. ClaimDataOwned'  BY DEF ClaimInv, ClaimDataOwned
<1> QED  BY <1>1, <1>2, <1>3, <1>4, <1>5, <1>6, <1>7, <1>8, <1>9, <1>10, <1>11, <1>12 DEF ClaimInv

LEMMA HandleCsrStep ==
  ASSUME ClaimInv, HandleCsr, UNCHANGED task
  PROVE  ClaimInv'
<1>a. /\ UNCHANGED <<method, nvs, nodeId, parted, keys, boot, memory, pointer, endpoint, group, done,
                    early, again, task>>
      /\ ble = "csr" /\ ble' = "idle" /\ ("verify" \in faults => "verify" \in faults')
      /\ misuse' = misuse \/ (memory = "freed" /\ misuse' = misuse \cup {"used"})
  BY DEF HandleCsr, UsesFreed, Valid, Fault, Others, outcome
<1>b. \/ claim' = claim /\ phone' = NoPhone
      \/ /\ memory = "live" /\ claim' \in ClaimRecs /\ claim'.sent = 1 /\ claim'.got = claim.got
         /\ claim'.key = claim.key /\ claim'.csr = Csr(claim.key, nodeId)
         /\ claim'.state = (IF claim'.sent = Fragments THEN Verify ELSE InitDone)
         /\ phone'.at = (IF claim'.sent = Fragments THEN "csr" ELSE "init")
         /\ phone'.csr = claim'.csr /\ phone' \in PhoneRecs
  <2> DEFINE c == Made
  <2>1. \/ claim' = claim /\ phone' = NoPhone
        \/ /\ memory = "live"
           /\ claim' = [c EXCEPT !.sent = c.sent + 1,
                                 !.state = IF c.sent + 1 = Fragments THEN Verify ELSE @]
           /\ phone' = [at |-> IF c.sent + 1 = Fragments THEN "csr" ELSE "init", csr |-> c.csr]
    BY DEF HandleCsr, UsesFreed, SendFragment, Valid, Made
  <2>2. Csr(claim.key, nodeId) \in Csrs /\ claim \in ClaimRecs
    BY DEF ClaimInv, NvsTypes, ClaimTypes, ClaimRecs, Csrs, Csr
  <2>3. /\ c \in ClaimRecs /\ c.state = InitDone /\ c.sent = 0 /\ c.got = claim.got
        /\ c.key = claim.key /\ c.csr = Csr(claim.key, nodeId)
    BY <2>2, CsrMade
  <2> HIDE DEF c
  <2>4. CASE claim' = claim /\ phone' = NoPhone  BY <2>4
  <2>5. CASE claim' # claim \/ phone' # NoPhone
    <3>1. /\ claim' \in ClaimRecs /\ claim'.sent = c.sent + 1 /\ claim'.got = c.got
          /\ claim'.key = c.key /\ claim'.csr = c.csr
          /\ claim'.state = (IF claim'.sent = Fragments THEN Verify ELSE c.state)
      <4>1. c.sent < Fragments  BY <2>3
      <4> QED  BY <2>1, <2>3, <2>5, <4>1, SentOne, Zenon
    <3> QED  BY <2>1, <2>3, <2>5, <3>1 DEF PhoneRecs, ClaimRecs
  <2> QED  BY <2>4, <2>5
<1> USE <1>a, <1>b, NoPhoneFields DEF StoredNode
<1>1. NvsTypes'  BY DEF ClaimInv, NvsTypes
<1>2. PlaceTypes'  BY DEF ClaimInv, PlaceTypes
<1>3. FlagTypes'  BY DEF ClaimInv, FlagTypes
<1>4. ClaimTypes'  BY DEF ClaimInv, ClaimTypes
<1>5. PhoneTypes'  BY DEF ClaimInv, PhoneTypes
<1>6. StageInv'  BY DEF ClaimInv, StageInv
<1>7. KeyInv'  BY DEF ClaimInv, StageInv, KeyInv
<1>8. PhoneInv'  BY DEF ClaimInv, StageInv, KeyInv, PhoneInv
<1>9. FragmentInv'  BY DEF ClaimInv, FragmentInv
<1>10. OwnerInv'  BY DEF ClaimInv, OwnerInv
<1>11. CredentialsMatch'  BY DEF ClaimInv, CredentialsMatch
<1>12. ClaimDataOwned'  BY DEF ClaimInv, OwnerInv, ClaimDataOwned
<1> QED  BY <1>1, <1>2, <1>3, <1>4, <1>5, <1>6, <1>7, <1>8, <1>9, <1>10, <1>11, <1>12 DEF ClaimInv

LEMMA PhoneVerifiesStep ==
  ASSUME ClaimInv, PhoneVerifies, UNCHANGED task
  PROVE  ClaimInv'
<1> USE DEF Csrs, PhoneVerifies, CommandComes, HandleVerify, Received, Refuses, Fault, UsesFreed,
            Valid, Others, StoredNode, NoPhone, NoCsr, Csr
<1>1. NvsTypes'  BY DEF ClaimInv, NvsTypes
<1>2. PlaceTypes'  BY DEF ClaimInv, PlaceTypes
<1>3. FlagTypes'  BY DEF ClaimInv, FlagTypes
<1>4. ClaimTypes'  BY DEF ClaimInv, ClaimTypes, ClaimRecs, FragmentInv
<1>5. PhoneTypes'  BY DEF ClaimInv, PhoneTypes, PhoneRecs
<1>6. StageInv'  BY DEF ClaimInv, StageInv
<1>7. KeyInv'  BY DEF ClaimInv, ClaimTypes, ClaimRecs, KeyInv
<1>8. PhoneInv'  BY DEF ClaimInv, FlagTypes, ClaimTypes, ClaimRecs, PhoneTypes, PhoneRecs, PhoneInv
<1>9. FragmentInv'  BY DEF ClaimInv, ClaimTypes, ClaimRecs, FragmentInv
<1>10. OwnerInv'  BY DEF ClaimInv, FlagTypes, OwnerInv
<1>11. CredentialsMatch'
  <2>1. UNCHANGED <<nvs, parted>>  OBVIOUS
  <2>2. again => again'  BY DEF ClaimInv, FlagTypes
  <2> QED  BY <2>1, <2>2 DEF ClaimInv, CredentialsMatch
<1>12. ClaimDataOwned'  BY DEF ClaimInv, ClaimDataOwned
<1> QED  BY <1>1, <1>2, <1>3, <1>4, <1>5, <1>6, <1>7, <1>8, <1>9, <1>10, <1>11, <1>12 DEF ClaimInv

LEMMA HandleHostStep ==
  ASSUME ClaimInv, HandleHost, UNCHANGED task
  PROVE  ClaimInv'
<1> USE DEF Csrs, HandleHost, UsesFreed, Valid, Others, StoredNode, NoPhone, NoCsr, Csr
<1>1. NvsTypes'  BY DEF ClaimInv, NvsTypes, NvsRecs
<1>2. PlaceTypes'  BY DEF ClaimInv, PlaceTypes
<1>3. FlagTypes'  BY DEF ClaimInv, FlagTypes
<1>4. ClaimTypes'  BY DEF ClaimInv, ClaimTypes
<1>5. PhoneTypes'  BY DEF ClaimInv, PhoneTypes, PhoneRecs
<1>6. StageInv'  BY DEF ClaimInv, StageInv
<1>7. KeyInv'  BY DEF ClaimInv, NvsTypes, NvsRecs, KeyInv
<1>8. PhoneInv'  BY DEF ClaimInv, NvsTypes, NvsRecs, PhoneInv
<1>9. FragmentInv'  BY DEF ClaimInv, FragmentInv
<1>10. OwnerInv'  BY DEF ClaimInv, NvsTypes, NvsRecs, OwnerInv
<1>11. CredentialsMatch'  BY DEF ClaimInv, NvsTypes, NvsRecs, CredentialsMatch
<1>12. ClaimDataOwned'  BY DEF ClaimInv, OwnerInv, ClaimDataOwned
<1> QED  BY <1>1, <1>2, <1>3, <1>4, <1>5, <1>6, <1>7, <1>8, <1>9, <1>10, <1>11, <1>12 DEF ClaimInv

LEMMA HandleCertificateStep ==
  ASSUME ClaimInv, HandleCertificate, UNCHANGED task
  PROVE  ClaimInv'
<1> USE DEF Csrs, HandleCertificate, Fault, UsesFreed, Valid, Others, StoredNode, NoPhone, NoCsr,
            Csr
<1>1. NvsTypes'  BY DEF ClaimInv, NvsTypes, NvsRecs, PhoneTypes, PhoneRecs
<1>2. PlaceTypes'  BY DEF ClaimInv, PlaceTypes
<1>3. FlagTypes'  BY DEF ClaimInv, FlagTypes
<1>4. ClaimTypes'  BY DEF ClaimInv, ClaimTypes, ClaimRecs
<1>5. PhoneTypes'  BY DEF ClaimInv, PhoneTypes, PhoneRecs
<1>6. StageInv'  BY DEF ClaimInv, StageInv
<1>7. KeyInv'  BY DEF ClaimInv, NvsTypes, NvsRecs, ClaimTypes, ClaimRecs, StageInv, KeyInv
<1>8. PhoneInv'
  BY DEF ClaimInv, NvsTypes, NvsRecs, ClaimTypes, ClaimRecs, PhoneTypes, PhoneRecs, PhoneInv
<1>9. FragmentInv'  BY DEF ClaimInv, ClaimTypes, ClaimRecs, PhoneTypes, PhoneRecs, FragmentInv
<1>10. OwnerInv'  BY DEF ClaimInv, PlaceTypes, FlagTypes, ClaimTypes, ClaimRecs, OwnerInv
<1>11. CredentialsMatch'
  BY DEF ClaimInv, NvsTypes, NvsRecs, StageInv, KeyInv, PhoneInv, CredentialsMatch
<1>12. ClaimDataOwned'  BY DEF ClaimInv, OwnerInv, ClaimDataOwned
<1> QED  BY <1>1, <1>2, <1>3, <1>4, <1>5, <1>6, <1>7, <1>8, <1>9, <1>10, <1>11, <1>12 DEF ClaimInv

LEMMA PhoneAbortsStep ==
  ASSUME ClaimInv, PhoneAborts, UNCHANGED task
  PROVE  ClaimInv'
<1>a. /\ UNCHANGED <<method, nvs, nodeId, parted, keys, boot, memory, pointer, endpoint, group, done,
                    faults, early, task>>
      /\ ble = "idle" /\ ble' = "idle" /\ endpoint /\ phone' = NoPhone
      /\ again' = (again \/ claim.state = VerifyDone \/ memory = "freed")
      /\ misuse' = misuse \/ (memory = "freed" /\ misuse' = misuse \cup {"used"})
  BY DEF PhoneAborts, CommandComes, UsesFreed, Valid, Others, outcome
<1>b. \/ claim' = claim
      \/ /\ claim' \in ClaimRecs
         /\ claim'.state = PkGenerated /\ claim'.sent = 0 /\ claim'.got = 0
         /\ claim'.key = claim.key /\ claim'.csr = claim.csr
  <2>1. claim' = claim \/ claim' = [claim EXCEPT !.state = PkGenerated, !.sent = 0, !.got = 0]
    BY DEF PhoneAborts, UsesFreed
  <2>2. claim \in ClaimRecs  BY DEF ClaimInv, ClaimTypes
  <2> QED  BY <2>1, <2>2, Aborted
<1> USE <1>a, <1>b, NoPhoneFields DEF StoredNode
<1>1. NvsTypes'  BY DEF ClaimInv, NvsTypes
<1>2. PlaceTypes'  BY DEF ClaimInv, PlaceTypes
<1>3. FlagTypes'  BY DEF ClaimInv, FlagTypes
<1>4. ClaimTypes'  BY DEF ClaimInv, ClaimTypes
<1>5. PhoneTypes'  BY DEF ClaimInv, PhoneTypes
<1>6. StageInv'  BY DEF ClaimInv, StageInv
<1>7. KeyInv'  BY DEF ClaimInv, KeyInv
<1>8. PhoneInv'
  <2>1. ~again' => ~again /\ claim.state # VerifyDone  BY DEF ClaimInv, FlagTypes
  <2>2. phone'.at \notin {"csr", "verify"}  OBVIOUS
  <2>3. claim'.state = InitDone => claim' = claim  OBVIOUS
  <2> QED  BY <2>1, <2>2, <2>3 DEF ClaimInv, PhoneInv
<1>9. FragmentInv'  BY DEF ClaimInv, FragmentInv
<1>10. OwnerInv'  BY DEF ClaimInv, OwnerInv
<1>11. CredentialsMatch'  BY DEF ClaimInv, CredentialsMatch
<1>12. ClaimDataOwned'  BY DEF ClaimInv, ClaimDataOwned
<1> QED  BY <1>1, <1>2, <1>3, <1>4, <1>5, <1>6, <1>7, <1>8, <1>9, <1>10, <1>11, <1>12 DEF ClaimInv

LEMMA PhoneLeavesStep ==
  ASSUME ClaimInv, PhoneLeaves, UNCHANGED task
  PROVE  ClaimInv'
<1> USE DEF Csrs, PhoneLeaves, StoredNode, NoPhone, NoCsr, Csr
<1>1. NvsTypes'  BY DEF ClaimInv, NvsTypes
<1>2. PlaceTypes'  BY DEF ClaimInv, PlaceTypes
<1>3. FlagTypes'  BY DEF ClaimInv, FlagTypes
<1>4. ClaimTypes'  BY DEF ClaimInv, ClaimTypes
<1>5. PhoneTypes'  BY DEF ClaimInv, PhoneTypes, PhoneRecs
<1>6. StageInv'  BY DEF ClaimInv, StageInv
<1>7. KeyInv'  BY DEF ClaimInv, KeyInv
<1>8. PhoneInv'  BY DEF ClaimInv, PhoneInv
<1>9. FragmentInv'  BY DEF ClaimInv, FragmentInv
<1>10. OwnerInv'  BY DEF ClaimInv, OwnerInv
<1>11. CredentialsMatch'  BY DEF ClaimInv, CredentialsMatch
<1>12. ClaimDataOwned'  BY DEF ClaimInv, ClaimDataOwned
<1> QED  BY <1>1, <1>2, <1>3, <1>4, <1>5, <1>6, <1>7, <1>8, <1>9, <1>10, <1>11, <1>12 DEF ClaimInv

LEMMA ProvisioningStopsStep ==
  ASSUME ClaimInv, ProvisioningStops
  PROVE  ClaimInv'
<1> USE DEF Csrs, ProvisioningStops, core, StoredNode, NoPhone, NoCsr, Csr
<1>1. NvsTypes'  BY DEF ClaimInv, NvsTypes
<1>2. PlaceTypes'  BY DEF ClaimInv, PlaceTypes
<1>3. FlagTypes'  BY DEF ClaimInv, FlagTypes
<1>4. ClaimTypes'  BY DEF ClaimInv, ClaimTypes
<1>5. PhoneTypes'  BY DEF ClaimInv, PhoneTypes, PhoneRecs
<1>6. StageInv'  BY DEF ClaimInv, StageInv
<1>7. KeyInv'  BY DEF ClaimInv, KeyInv
<1>8. PhoneInv'  BY DEF ClaimInv, PhoneInv
<1>9. FragmentInv'  BY DEF ClaimInv, FragmentInv
<1>10. OwnerInv'  BY DEF ClaimInv, OwnerInv
<1>11. CredentialsMatch'  BY DEF ClaimInv, CredentialsMatch
<1>12. ClaimDataOwned'  BY DEF ClaimInv, ClaimDataOwned
<1> QED  BY <1>1, <1>2, <1>3, <1>4, <1>5, <1>6, <1>7, <1>8, <1>9, <1>10, <1>11, <1>12 DEF ClaimInv

LEMMA HandleStep ==
  ASSUME ClaimInv, Handle
  PROVE  ClaimInv'
<1> USE DEF Csrs, Handle, EndpointAfter, StoredNode
<1>1. NvsTypes'  BY DEF ClaimInv, NvsTypes
<1>2. PlaceTypes'  BY DEF ClaimInv, PlaceTypes
<1>3. FlagTypes'  BY DEF ClaimInv, FlagTypes
<1>4. ClaimTypes'  BY DEF ClaimInv, ClaimTypes
<1>5. PhoneTypes'  BY DEF ClaimInv, PhoneTypes
<1>6. StageInv'  BY DEF ClaimInv, StageInv
<1>7. KeyInv'  BY DEF ClaimInv, KeyInv
<1>8. PhoneInv'  BY DEF ClaimInv, PhoneInv
<1>9. FragmentInv'  BY DEF ClaimInv, FragmentInv
<1>10. OwnerInv'  BY DEF ClaimInv, OwnerInv
<1>11. CredentialsMatch'  BY DEF ClaimInv, CredentialsMatch
<1>12. ClaimDataOwned'  BY DEF ClaimInv, ClaimDataOwned
<1> QED  BY <1>1, <1>2, <1>3, <1>4, <1>5, <1>6, <1>7, <1>8, <1>9, <1>10, <1>11, <1>12 DEF ClaimInv

LEMMA FrameStep ==
  ASSUME ClaimInv, UNCHANGED <<claimVars, task>>
  PROVE  ClaimInv'
<1> USE DEF Csrs, claimVars, StoredNode
<1>1. NvsTypes'  BY DEF ClaimInv, NvsTypes
<1>2. PlaceTypes'  BY DEF ClaimInv, PlaceTypes
<1>3. FlagTypes'  BY DEF ClaimInv, FlagTypes
<1>4. ClaimTypes'  BY DEF ClaimInv, ClaimTypes
<1>5. PhoneTypes'  BY DEF ClaimInv, PhoneTypes
<1>6. StageInv'  BY DEF ClaimInv, StageInv
<1>7. KeyInv'  BY DEF ClaimInv, KeyInv
<1>8. PhoneInv'  BY DEF ClaimInv, PhoneInv
<1>9. FragmentInv'  BY DEF ClaimInv, FragmentInv
<1>10. OwnerInv'  BY DEF ClaimInv, OwnerInv
<1>11. CredentialsMatch'  BY DEF ClaimInv, CredentialsMatch
<1>12. ClaimDataOwned'  BY DEF ClaimInv, ClaimDataOwned
<1> QED  BY <1>1, <1>2, <1>3, <1>4, <1>5, <1>6, <1>7, <1>8, <1>9, <1>10, <1>11, <1>12 DEF ClaimInv

-----------------------------------------------------------------------------
(* What an event added or handled changes *)

\* Nothing happens to the events.
LEMMA PendingSame ==
  ASSUME UNCHANGED events
  PROVE  events' = events /\ \A f \in EventNames : Pending(f)' <=> Pending(f)
  BY DEF Pending

\* A restart forgets them.
LEMMA PendingNone ==
  ASSUME events' = <<>>
  PROVE  events' \in Seq(EventNames) /\ \A f \in EventNames : ~Pending(f)'
  BY DEF Pending

\* A sequence has its elements and the one appended to it.
LEMMA Posted ==
  ASSUME NEW S, NEW s \in Seq(S), NEW e \in S
  PROVE  /\ Append(s, e) \in Seq(S)
         /\ \A f \in S : (\E i \in DOMAIN Append(s, e) : Append(s, e)[i] = f)
              <=> (\E i \in DOMAIN s : s[i] = f) \/ f = e
<1>1. /\ Append(s, e) \in Seq(S) /\ Len(s) \in Nat
      /\ DOMAIN Append(s, e) = 1..Len(s) + 1 /\ DOMAIN s = 1..Len(s)
      /\ Append(s, e)[Len(s) + 1] = e /\ \A i \in 1..Len(s) : Append(s, e)[i] = s[i]
  OBVIOUS
<1> QED  BY <1>1

\* A sequence has its head and the elements of its tail.
LEMMA Taken ==
  ASSUME NEW S, NEW s \in Seq(S), s # <<>>
  PROVE  /\ Tail(s) \in Seq(S) /\ Head(s) \in S
         /\ \E i \in DOMAIN s : s[i] = Head(s)
         /\ \A f \in S : (\E i \in DOMAIN Tail(s) : Tail(s)[i] = f) => \E i \in DOMAIN s : s[i] = f
         /\ \A f \in S : (\E i \in DOMAIN s : s[i] = f) =>
              f = Head(s) \/ \E i \in DOMAIN Tail(s) : Tail(s)[i] = f
<1>1. /\ Tail(s) \in Seq(S) /\ Head(s) \in S /\ Head(s) = s[1] /\ Len(s) \in Nat \ {0}
      /\ DOMAIN s = 1..Len(s) /\ DOMAIN Tail(s) = 1..Len(s) - 1
      /\ \A i \in 1..Len(s) - 1 : Tail(s)[i] = s[i + 1]
  OBVIOUS
<1>2. ASSUME NEW i \in 1..Len(s), i # 1  PROVE i - 1 \in 1..Len(s) - 1 /\ Tail(s)[i - 1] = s[i]
  BY <1>1, <1>2
<1>3. \A i \in 1..Len(s) - 1 : i + 1 \in 1..Len(s)  BY <1>1
<1>4. 1 \in DOMAIN s  BY <1>1
<1>5. ASSUME NEW f \in S, \E i \in DOMAIN Tail(s) : Tail(s)[i] = f
      PROVE  \E i \in DOMAIN s : s[i] = f
  BY <1>1, <1>3, <1>5
<1>6. ASSUME NEW f \in S, NEW i \in DOMAIN s, s[i] = f
      PROVE  f = Head(s) \/ \E j \in DOMAIN Tail(s) : Tail(s)[j] = f
  BY <1>1, <1>2, <1>6
<1> QED  BY <1>1, <1>4, <1>5, <1>6

\* An event is posted.
LEMMA PendingPost ==
  ASSUME NodeInv, NEW e \in EventNames, Post(e)
  PROVE  events' \in Seq(EventNames) /\ \A f \in EventNames : Pending(f)' <=> Pending(f) \/ f = e
<1>1. events \in Seq(EventNames) /\ events' = Append(events, e)  BY DEF NodeInv, NoticeInv, Post
<1>2. /\ Append(events, e) \in Seq(EventNames)
      /\ \A f \in EventNames : (\E i \in DOMAIN Append(events, e) : Append(events, e)[i] = f)
           <=> (\E i \in DOMAIN events : events[i] = f) \/ f = e
  BY <1>1, Posted
<1> QED  BY <1>1, <1>2 DEF Pending

\* The first event is handled.
LEMMA PendingTake ==
  ASSUME NodeInv, events # <<>>, events' = Tail(events)
  PROVE  /\ events' \in Seq(EventNames) /\ Head(events) \in EventNames /\ Pending(Head(events))
         /\ \A f \in EventNames : Pending(f)' => Pending(f)
         /\ \A f \in EventNames : Pending(f) => f = Head(events) \/ Pending(f)'
  BY Taken DEF NodeInv, NoticeInv, Pending

-----------------------------------------------------------------------------
(* Every action keeps the rest of the invariant *)

LEMMA AppInitRest ==
  ASSUME NodeInv, AppInit
  PROVE  CoreInv' /\ NoticeInv' /\ EarlyInv' /\ WatchInv' /\ LocalControlPursued'
<1> USE DEF EventNames, Early, AppInit, ClaimInit, NodeInit, ClaimKey, ClaimRandom, ClaimCsr,
            InitFails, Watch, local, core, network, KeepCore, KeepAll
<1> USE PendingSame
<1>1. CoreInv'  BY DEF NodeInv, CoreInv
<1>2. NoticeInv'  BY DEF NodeInv, NoticeInv
<1>3. EarlyInv'  BY DEF NodeInv, EarlyInv
<1>4. WatchInv'  BY DEF NodeInv, WatchInv
<1>5. LocalControlPursued'  BY DEF NodeInv, LocalControlPursued
<1> QED  BY <1>1, <1>2, <1>3, <1>4, <1>5

LEMMA AppStartRest ==
  ASSUME NodeInv, AppStart
  PROVE  CoreInv' /\ NoticeInv' /\ EarlyInv' /\ WatchInv' /\ LocalControlPursued'
<1> USE DEF EventNames, Early, AppStart, local, network, KeepAll
<1> USE PendingSame
<1>1. CoreInv'  BY DEF NodeInv, CoreInv
<1>2. NoticeInv'  BY DEF NodeInv, NoticeInv
<1>3. EarlyInv'  BY DEF NodeInv, EarlyInv
<1>4. WatchInv'  BY DEF NodeInv, WatchInv
<1>5. LocalControlPursued'  BY DEF NodeInv, LocalControlPursued
<1> QED  BY <1>1, <1>2, <1>3, <1>4, <1>5

LEMMA AppNetworkRest ==
  ASSUME NodeInv, AppNetwork
  PROVE  CoreInv' /\ NoticeInv' /\ EarlyInv' /\ WatchInv' /\ LocalControlPursued'
<1> USE DEF EventNames, Early, AppNetwork, Post, local, core, KeepCore
<1> USE PendingPost
<1>1. CoreInv'  BY DEF NodeInv, CoreInv
<1>2. NoticeInv'  BY DEF NodeInv, NoticeInv, EarlyInv
<1>3. EarlyInv'
  <2>1. CASE creds
    <3>1. UNCHANGED <<prov, events>>  BY <2>1
    <3> QED  BY <2>1, <3>1, PendingSame DEF NodeInv, EarlyInv, WatchInv, ClaimInv, StageInv
  <2>2. CASE ~creds
    <3>1. /\ prov' = "running" /\ Post("START")
          /\ \A f \in EventNames : Pending(f)' <=> Pending(f) \/ f = "START"
      BY <2>2, PendingPost
    <3> QED  BY <2>2, <3>1 DEF NodeInv, EarlyInv, WatchInv, ClaimInv, StageInv
  <2> QED  BY <2>1, <2>2
<1>4. WatchInv'
  <2>1. CASE creds
    <3>1. UNCHANGED <<prov, events>>  BY <2>1
    <3> QED  BY <2>1, <3>1, PendingSame DEF NodeInv, EarlyInv, WatchInv, ClaimInv, StageInv
  <2>2. CASE ~creds
    <3>1. /\ prov' = "running" /\ Post("START")
          /\ \A f \in EventNames : Pending(f)' <=> Pending(f) \/ f = "START"
      BY <2>2, PendingPost
    <3> QED  BY <2>2, <3>1 DEF NodeInv, EarlyInv, WatchInv, ClaimInv, StageInv
  <2> QED  BY <2>1, <2>2
<1>5. LocalControlPursued'  BY DEF NodeInv, EarlyInv, LocalControlPursued
<1> QED  BY <1>1, <1>2, <1>3, <1>4, <1>5

LEMMA DeinitRest ==
  ASSUME NodeInv, Deinit
  PROVE  CoreInv' /\ NoticeInv' /\ EarlyInv' /\ WatchInv' /\ LocalControlPursued'
<1> USE DEF EventNames, Early, Deinit, local, core, network, KeepCore, KeepAll
<1> USE PendingSame
<1>1. CoreInv'  BY DEF NodeInv, CoreInv
<1>2. NoticeInv'  BY DEF NodeInv, NoticeInv
<1>3. EarlyInv'  BY DEF NodeInv, EarlyInv
<1>4. WatchInv'  BY DEF NodeInv, WatchInv
<1>5. LocalControlPursued'  BY DEF NodeInv, LocalControlPursued
<1> QED  BY <1>1, <1>2, <1>3, <1>4, <1>5

LEMMA RebootRest ==
  ASSUME NodeInv, Reboot
  PROVE  CoreInv' /\ NoticeInv' /\ EarlyInv' /\ WatchInv' /\ LocalControlPursued'
<1> USE DEF EventNames, Early, Reboot, LocalReset
<1> USE PendingNone
<1>1. CoreInv'  BY DEF NodeInv, CoreInv
<1>2. NoticeInv'  BY DEF NodeInv, NoticeInv
<1>3. EarlyInv'  BY DEF NodeInv, EarlyInv
<1>4. WatchInv'  BY DEF NodeInv, WatchInv
<1>5. LocalControlPursued'  BY DEF NodeInv, LocalControlPursued
<1> QED  BY <1>1, <1>2, <1>3, <1>4, <1>5

LEMMA BeginRest ==
  ASSUME NodeInv, Begin
  PROVE  CoreInv' /\ NoticeInv' /\ EarlyInv' /\ WatchInv' /\ LocalControlPursued'
<1> USE DEF EventNames, Early, Begin, claimVars, local
<1> USE PendingSame
<1>1. CoreInv'  BY DEF NodeInv, CoreInv
<1>2. NoticeInv'  BY DEF NodeInv, NoticeInv
<1>3. EarlyInv'  BY DEF NodeInv, EarlyInv
<1>4. WatchInv'  BY DEF NodeInv, WatchInv
<1>5. LocalControlPursued'  BY DEF NodeInv, LocalControlPursued
<1> QED  BY <1>1, <1>2, <1>3, <1>4, <1>5

LEMMA AssistedRest ==
  ASSUME NodeInv, Assisted
  PROVE  CoreInv' /\ NoticeInv' /\ EarlyInv' /\ WatchInv' /\ LocalControlPursued'
<1> USE DEF EventNames, Early, Assisted, PerformBegin, Goes, Fails, claimVars, local, network,
            KeepAll
<1> USE PendingSame
<1>1. CoreInv'  BY DEF NodeInv, CoreInv
<1>2. NoticeInv'  BY DEF NodeInv, NoticeInv
<1>3. EarlyInv'  BY DEF NodeInv, EarlyInv
<1>4. WatchInv'  BY DEF NodeInv, WatchInv
<1>5. LocalControlPursued'  BY DEF NodeInv, LocalControlPursued
<1> QED  BY <1>1, <1>2, <1>3, <1>4, <1>5

LEMMA ClaimedRest ==
  ASSUME NodeInv, Claimed
  PROVE  CoreInv' /\ NoticeInv' /\ EarlyInv' /\ WatchInv' /\ LocalControlPursued'
<1> USE DEF EventNames, Early, Claimed, PerformEnds, Goes, Fails, local, network, KeepAll
<1> USE PendingSame
<1>1. CoreInv'  BY DEF NodeInv, CoreInv
<1>2. NoticeInv'  BY DEF NodeInv, NoticeInv
<1>3. EarlyInv'  BY DEF NodeInv, EarlyInv
<1>4. WatchInv'  BY DEF NodeInv, WatchInv
<1>5. LocalControlPursued'  BY DEF NodeInv, LocalControlPursued
<1> QED  BY <1>1, <1>2, <1>3, <1>4, <1>5

LEMMA CheckWifiRest ==
  ASSUME NodeInv, CheckWifi
  PROVE  CoreInv' /\ NoticeInv' /\ EarlyInv' /\ WatchInv' /\ LocalControlPursued'
<1> USE DEF EventNames, Early, CheckWifi, claimVars, local, network, KeepAll
<1> USE PendingSame
<1>1. CoreInv'  BY DEF NodeInv, CoreInv
<1>2. NoticeInv'  BY DEF NodeInv, NoticeInv
<1>3. EarlyInv'  BY DEF NodeInv, EarlyInv
<1>4. WatchInv'  BY DEF NodeInv, WatchInv
<1>5. LocalControlPursued'  BY DEF NodeInv, LocalControlPursued
<1> QED  BY <1>1, <1>2, <1>3, <1>4, <1>5

LEMMA WaitWifiRest ==
  ASSUME NodeInv, WaitWifi
  PROVE  CoreInv' /\ NoticeInv' /\ EarlyInv' /\ WatchInv' /\ LocalControlPursued'
<1> USE DEF EventNames, Early, WaitWifi, claimVars, local, network, KeepAll
<1> USE PendingSame
<1>1. CoreInv'  BY DEF NodeInv, CoreInv
<1>2. NoticeInv'  BY DEF NodeInv, NoticeInv
<1>3. EarlyInv'  BY DEF NodeInv, EarlyInv
<1>4. WatchInv'  BY DEF NodeInv, WatchInv
<1>5. LocalControlPursued'  BY DEF NodeInv, LocalControlPursued
<1> QED  BY <1>1, <1>2, <1>3, <1>4, <1>5

LEMMA SelfRest ==
  ASSUME NodeInv, Self
  PROVE  CoreInv' /\ NoticeInv' /\ EarlyInv' /\ WatchInv' /\ LocalControlPursued'
<1> USE DEF EventNames, Early, Self, SelfInit, Goes, Fails, claimVars, local, network, KeepAll
<1> USE PendingSame
<1>1. CoreInv'  BY DEF NodeInv, CoreInv
<1>2. NoticeInv'  BY DEF NodeInv, NoticeInv
<1>3. EarlyInv'  BY DEF NodeInv, EarlyInv
<1>4. WatchInv'  BY DEF NodeInv, WatchInv
<1>5. LocalControlPursued'  BY DEF NodeInv, LocalControlPursued
<1> QED  BY <1>1, <1>2, <1>3, <1>4, <1>5

LEMMA SelfLaterRest ==
  ASSUME NodeInv, SelfVerifies \/ SelfStoresHost \/ SelfStoresCertificate
  PROVE  CoreInv' /\ NoticeInv' /\ EarlyInv' /\ WatchInv' /\ LocalControlPursued'
<1> USE DEF EventNames, Early, SelfVerifies, SelfVerify, SelfStoresHost, SelfHost,
            SelfStoresCertificate, SelfCertificate, Goes, Fails, local, network, KeepAll
<1> USE PendingSame
<1>1. CoreInv'  BY DEF NodeInv, CoreInv
<1>2. NoticeInv'  BY DEF NodeInv, NoticeInv
<1>3. EarlyInv'  BY DEF NodeInv, EarlyInv
<1>4. WatchInv'  BY DEF NodeInv, WatchInv
<1>5. LocalControlPursued'  BY DEF NodeInv, LocalControlPursued
<1> QED  BY <1>1, <1>2, <1>3, <1>4, <1>5

LEMMA LoadParamsRest ==
  ASSUME NodeInv, LoadParams
  PROVE  CoreInv' /\ NoticeInv' /\ EarlyInv' /\ WatchInv' /\ LocalControlPursued'
<1> USE DEF EventNames, Early, LoadParams, Fails, local
<1> USE PendingSame
<1>1. CoreInv'  BY DEF NodeInv, CoreInv
<1>2. NoticeInv'  BY DEF NodeInv, NoticeInv
<1>3. EarlyInv'  BY DEF NodeInv, EarlyInv
<1>4. WatchInv'  BY DEF NodeInv, WatchInv
<1>5. LocalControlPursued'  BY DEF NodeInv, LocalControlPursued
<1> QED  BY <1>1, <1>2, <1>3, <1>4, <1>5

LEMMA EnableLocalRest ==
  ASSUME NodeInv, EnableLocal
  PROVE  CoreInv' /\ NoticeInv' /\ EarlyInv' /\ WatchInv' /\ LocalControlPursued'
<1> USE DEF EventNames, Early, EnableLocal, Enable, Goes, claimVars, network, KeepAll
<1> USE PendingSame
<1>1. CoreInv'  BY DEF NodeInv, CoreInv
<1>2. NoticeInv'  BY DEF NodeInv, NoticeInv
<1>3. EarlyInv'  BY DEF NodeInv, EarlyInv
<1>4. WatchInv'  BY DEF NodeInv, WatchInv
<1>5. LocalControlPursued'  BY DEF NodeInv, LocalControlPursued
<1> QED  BY <1>1, <1>2, <1>3, <1>4, <1>5

LEMMA LocalEnabledRest ==
  ASSUME NodeInv, LocalEnabled
  PROVE  CoreInv' /\ NoticeInv' /\ EarlyInv' /\ WatchInv' /\ LocalControlPursued'
<1> USE DEF EventNames, Early, LocalEnabled, Fails, local
<1> USE PendingSame
<1>1. CoreInv'  BY DEF NodeInv, CoreInv
<1>2. NoticeInv'  BY DEF NodeInv, NoticeInv
<1>3. EarlyInv'  BY DEF NodeInv, EarlyInv
<1>4. WatchInv'  BY DEF NodeInv, WatchInv
<1>5. LocalControlPursued'  BY DEF NodeInv, LocalControlPursued
<1> QED  BY <1>1, <1>2, <1>3, <1>4, <1>5

LEMMA ConnectedRest ==
  ASSUME NodeInv, Connected
  PROVE  CoreInv' /\ NoticeInv' /\ EarlyInv' /\ WatchInv' /\ LocalControlPursued'
<1> USE DEF EventNames, Early, Connected, claimVars, local, network, KeepAll
<1> USE PendingSame
<1>1. CoreInv'  BY DEF NodeInv, CoreInv
<1>2. NoticeInv'  BY DEF NodeInv, NoticeInv
<1>3. EarlyInv'  BY DEF NodeInv, EarlyInv
<1>4. WatchInv'  BY DEF NodeInv, WatchInv
<1>5. LocalControlPursued'  BY DEF NodeInv, LocalControlPursued
<1> QED  BY <1>1, <1>2, <1>3, <1>4, <1>5

LEMMA ReportRest ==
  ASSUME NodeInv, Report
  PROVE  CoreInv' /\ NoticeInv' /\ EarlyInv' /\ WatchInv' /\ LocalControlPursued'
<1> USE DEF EventNames, Early, Report, Fails, local, network, KeepAll
<1> USE PendingSame
<1>1. CoreInv'  BY DEF NodeInv, CoreInv
<1>2. NoticeInv'  BY DEF NodeInv, NoticeInv
<1>3. EarlyInv'  BY DEF NodeInv, EarlyInv
<1>4. WatchInv'  BY DEF NodeInv, WatchInv
<1>5. LocalControlPursued'  BY DEF NodeInv, LocalControlPursued
<1> QED  BY <1>1, <1>2, <1>3, <1>4, <1>5

LEMMA PhoneRest ==
  ASSUME NodeInv, PhoneStep, UNCHANGED <<local, core, network, boots>>
  PROVE  CoreInv' /\ NoticeInv' /\ EarlyInv' /\ WatchInv' /\ LocalControlPursued'
<1> USE DEF EventNames, Early, PhoneStep, PhoneStarts, PhoneInits, HandleCsr, PhoneVerifies,
            HandleHost, HandleCertificate, PhoneAborts, PhoneLeaves, Others, local, core, network
<1> USE PendingSame
<1>1. CoreInv'  BY DEF NodeInv, CoreInv
<1>2. NoticeInv'  BY DEF NodeInv, NoticeInv
<1>3. EarlyInv'  BY DEF NodeInv, EarlyInv
<1>4. WatchInv'  BY DEF NodeInv, WatchInv
<1>5. LocalControlPursued'  BY DEF NodeInv, LocalControlPursued
<1> QED  BY <1>1, <1>2, <1>3, <1>4, <1>5

LEMMA LocalRest ==
  ASSUME NodeInv, LocalStep, UNCHANGED <<claimVars, core, network, boots>>
  PROVE  CoreInv' /\ NoticeInv' /\ EarlyInv' /\ WatchInv' /\ LocalControlPursued'
<1> USE DEF EventNames, Early, LocalStep, CheckWaiting, KeepName, StartServer, claimVars, core,
            network
<1> USE PendingSame
<1>1. CoreInv'  BY DEF NodeInv, CoreInv
<1>2. NoticeInv'  BY DEF NodeInv, NoticeInv
<1>3. EarlyInv'  BY DEF NodeInv, EarlyInv
<1>4. WatchInv'  BY DEF NodeInv, WatchInv
<1>5. LocalControlPursued'  BY DEF NodeInv, EarlyInv, WatchInv, LocalControlPursued
<1> QED  BY <1>1, <1>2, <1>3, <1>4, <1>5

LEMMA AppCallsRest ==
  ASSUME NodeInv, task \in {"connecting", "report", "ended"}, AppCalls,
         UNCHANGED <<claimVars, core, network, boots>>
  PROVE  CoreInv' /\ NoticeInv' /\ EarlyInv' /\ WatchInv' /\ LocalControlPursued'
<1> USE DEF EventNames, Early, AppCalls, Disable, Enable, claimVars, core, network
<1> USE PendingSame
<1>1. CoreInv'  BY DEF NodeInv, CoreInv
<1>2. NoticeInv'  BY DEF NodeInv, NoticeInv
<1>3. EarlyInv'  BY DEF NodeInv, EarlyInv
<1>4. WatchInv'  BY DEF NodeInv, EarlyInv, WatchInv
<1>5. LocalControlPursued'  BY DEF NodeInv, LocalControlPursued
<1> QED  BY <1>1, <1>2, <1>3, <1>4, <1>5

LEMMA ProvisionRest ==
  ASSUME NodeInv, Provision \/ Associates
  PROVE  CoreInv' /\ NoticeInv' /\ EarlyInv' /\ WatchInv' /\ LocalControlPursued'
<1> USE DEF EventNames, Early, Provision, Associates, claimVars, local, core
<1> USE PendingSame
<1>1. CoreInv'  BY DEF NodeInv, CoreInv
<1>2. NoticeInv'  BY DEF NodeInv, NoticeInv
<1>3. EarlyInv'  BY DEF NodeInv, EarlyInv
<1>4. WatchInv'
  <2>1. CASE Provision
    <3>1. ~Pending("START")  BY <2>1 DEF Pending
    <3> QED  BY <2>1, <3>1 DEF NodeInv, WatchInv
  <2>2. CASE Associates  BY <2>2 DEF NodeInv, WatchInv
  <2> QED  BY <2>1, <2>2
<1>5. LocalControlPursued'  BY DEF NodeInv, LocalControlPursued
<1> QED  BY <1>1, <1>2, <1>3, <1>4, <1>5

LEMMA GetsIpRest ==
  ASSUME NodeInv, GetsIp
  PROVE  CoreInv' /\ NoticeInv' /\ EarlyInv' /\ WatchInv' /\ LocalControlPursued'
<1> USE DEF EventNames, Early, GetsIp, Post, claimVars, local, core
<1> USE PendingPost
<1>1. CoreInv'  BY DEF NodeInv, CoreInv
<1>2. NoticeInv'  BY DEF NodeInv, NoticeInv
<1>3. EarlyInv'  BY DEF NodeInv, EarlyInv
<1>4. WatchInv'  BY DEF NodeInv, WatchInv
<1>5. LocalControlPursued'  BY DEF NodeInv, LocalControlPursued
<1> QED  BY <1>1, <1>2, <1>3, <1>4, <1>5

LEMMA ProvisioningStopsRest ==
  ASSUME NodeInv, ProvisioningStops
  PROVE  CoreInv' /\ NoticeInv' /\ EarlyInv' /\ WatchInv' /\ LocalControlPursued'
<1> USE DEF EventNames, Early, ProvisioningStops, Post, local, core
<1> USE PendingPost
<1>1. CoreInv'  BY DEF NodeInv, CoreInv
<1>2. NoticeInv'  BY DEF NodeInv, NoticeInv
<1>3. EarlyInv'  BY DEF NodeInv, EarlyInv
<1>4. WatchInv'  BY DEF NodeInv, EarlyInv, WatchInv
<1>5. LocalControlPursued'  BY DEF NodeInv, LocalControlPursued
<1> QED  BY <1>1, <1>2, <1>3, <1>4, <1>5

LEMMA LinkRest ==
  ASSUME NodeInv, ClientConnects \/ LinkLost
  PROVE  CoreInv' /\ NoticeInv' /\ EarlyInv' /\ WatchInv' /\ LocalControlPursued'
<1> USE DEF EventNames, Early, ClientConnects, LinkLost, Post, claimVars, local, core
<1> USE PendingPost
<1>1. CoreInv'  BY DEF NodeInv, CoreInv
<1>2. NoticeInv'  BY DEF NodeInv, NoticeInv
<1>3. EarlyInv'
  <2>1. PICK e \in {"CONNECTED", "DISCONNECTED"} : Post(e)  OBVIOUS
  <2>2. \A f \in EventNames : Pending(f)' <=> Pending(f) \/ f = e  BY <2>1
  <2>3. UNCHANGED <<boot, creds, wifi, prov, task, bits, local>>  BY DEF local
  <2>4. boot \in {"up", "deinit"}  BY DEF NodeInv, EarlyInv, ClaimInv, StageInv
  <2> QED  BY <2>1, <2>2, <2>3, <2>4 DEF NodeInv, EarlyInv
<1>4. WatchInv'  BY DEF NodeInv, WatchInv
<1>5. LocalControlPursued'  BY DEF NodeInv, LocalControlPursued
<1> QED  BY <1>1, <1>2, <1>3, <1>4, <1>5

LEMMA HandleRest ==
  ASSUME NodeInv, Handle
  PROVE  CoreInv' /\ NoticeInv' /\ EarlyInv' /\ WatchInv' /\ LocalControlPursued'
<1> USE DEF EventNames, Early, Handle, ProvStarts, ProvEnds, local
<1> USE PendingTake
<1>1. CoreInv'  BY DEF NodeInv, CoreInv
<1>2. NoticeInv'  BY DEF NodeInv, CoreInv, NoticeInv
<1>3. EarlyInv'  BY DEF NodeInv, EarlyInv
<1>4. WatchInv'  BY DEF NodeInv, EarlyInv, WatchInv
<1>5. LocalControlPursued'  BY DEF NodeInv, LocalControlPursued
<1> QED  BY <1>1, <1>2, <1>3, <1>4, <1>5

LEMMA LoopServesRest ==
  ASSUME NodeInv, LoopServes
  PROVE  CoreInv' /\ NoticeInv' /\ EarlyInv' /\ WatchInv' /\ LocalControlPursued'
<1> USE DEF EventNames, Early, LoopServes, ServeNamed, StartServer, claimVars, core, network,
            KeepAll
<1> USE PendingSame
<1>1. CoreInv'  BY DEF NodeInv, CoreInv
<1>2. NoticeInv'  BY DEF NodeInv, NoticeInv
<1>3. EarlyInv'  BY DEF NodeInv, EarlyInv
<1>4. WatchInv'  BY DEF NodeInv, EarlyInv, WatchInv
<1>5. LocalControlPursued'  BY DEF NodeInv, WatchInv, LocalControlPursued
<1> QED  BY <1>1, <1>2, <1>3, <1>4, <1>5

-----------------------------------------------------------------------------
(* The invariant is inductive *)

\* It holds when the node is powered on.
LEMMA InitInv == Init => NodeInv
<1> SUFFICES ASSUME Init  PROVE NodeInv
  OBVIOUS
<1> USE DEF Init, NodeInv, Csrs, NoClaim, NoPhone, NoCsr, Csr, StoredNode, EventNames, Early
<1>0. nvs \in NvsRecs /\ nvs.key <= keys
  <2>1. CASE nvs = [key |-> NoKey, random |-> FALSE, node |-> None, cert |-> NoCsr, host |-> FALSE]
    BY <2>1 DEF NvsRecs
  <2>2. ASSUME NEW n \in Nodes,
               nvs = [key |-> 1, random |-> TRUE, node |-> n, cert |-> Csr(1, n), host |-> TRUE]
        PROVE  nvs \in NvsRecs /\ nvs.key <= keys
    BY <2>2 DEF NvsRecs
  <2> QED  BY <2>1, <2>2
<1>1. NvsTypes /\ PlaceTypes /\ FlagTypes
  <2>1. nodeId = None /\ keys = 1  OBVIOUS
  <2>2. NvsTypes  BY <1>0, <2>1 DEF NvsTypes
  <2>3. PlaceTypes  BY DEF PlaceTypes
  <2>4. FlagTypes  BY DEF FlagTypes
  <2> QED  BY <2>2, <2>3, <2>4
<1>2. ClaimTypes /\ PhoneTypes  BY DEF ClaimTypes, ClaimRecs, PhoneTypes, PhoneRecs
<1>3. StageInv /\ KeyInv  BY DEF StageInv, KeyInv
<1>4. PhoneInv /\ FragmentInv /\ OwnerInv  BY DEF PhoneInv, FragmentInv, OwnerInv
<1>5. CredentialsMatch /\ ClaimDataOwned  BY DEF CredentialsMatch, ClaimDataOwned
<1>6. events \in Seq(EventNames) /\ \A f \in EventNames : ~Pending(f)  BY DEF Pending
<1>7. CoreInv /\ NoticeInv  BY <1>6 DEF CoreInv, NoticeInv
<1>8. EarlyInv /\ WatchInv  BY <1>6 DEF EarlyInv, WatchInv
<1>9. LocalControlPursued  BY DEF LocalControlPursued
<1> QED  BY <1>1, <1>2, <1>3, <1>4, <1>5, <1>7, <1>8, <1>9 DEF ClaimInv

\* Every step keeps the half about claiming ...
LEMMA ClaimKept == NodeInv /\ [Next]_vars => ClaimInv'
<1> SUFFICES ASSUME NodeInv, [Next]_vars  PROVE ClaimInv'
  OBVIOUS
<1> USE DEF NodeInv
<1>1. CASE AppInit
  <2>1. UNCHANGED task  BY <1>1 DEF AppInit, KeepCore, core
  <2> QED  BY <1>1, <2>1, NodeInitStep, ClaimKeyStep, ClaimRandomStep, ClaimCsrStep DEF AppInit, ClaimInit
<1>2. CASE AppStart \/ AppNetwork \/ Deinit \/ Reboot
  BY <1>2, AppStartStep, AppNetworkStep, DeinitStep, RebootStep
<1>3. CASE TaskStep
  BY <1>3, BeginStep, AssistedStep, ClaimedStep, WifiStep, SelfStep, SelfVerifiesStep,
     SelfStoresHostStep, SelfStoresCertificateStep, LaterTaskStep DEF TaskStep
<1>4. CASE PhoneStep /\ UNCHANGED <<local, core, network, boots>>
  <2>1. UNCHANGED task  BY <1>4 DEF core
  <2> QED  BY <1>4, <2>1, PhoneStartsStep, PhoneInitsStep, HandleCsrStep, PhoneVerifiesStep,
              HandleHostStep, HandleCertificateStep, PhoneAbortsStep, PhoneLeavesStep DEF PhoneStep
<1>5. CASE UNCHANGED <<claimVars, core>>
  <2>1. UNCHANGED <<claimVars, task>>  BY <1>5 DEF core
  <2> QED  BY <2>1, FrameStep
<1>6. CASE Environment
  <2>1. CASE ProvisioningStops \/ Handle  BY <2>1, ProvisioningStopsStep, HandleStep
  <2>2. CASE Provision \/ Associates \/ GetsIp \/ ClientConnects \/ LinkLost \/ LoopServes
    BY <1>5, <2>2 DEF Provision, Associates, GetsIp, ClientConnects, LinkLost, LoopServes
  <2> QED  BY <1>6, <2>1, <2>2 DEF Environment
<1> QED  BY <1>1, <1>2, <1>3, <1>4, <1>5, <1>6 DEF Next, vars

\* ... and the other half.
LEMMA RestKept ==
  NodeInv /\ [Next]_vars => CoreInv' /\ NoticeInv' /\ EarlyInv' /\ WatchInv' /\ LocalControlPursued'
<1> SUFFICES ASSUME NodeInv, [Next]_vars
             PROVE  CoreInv' /\ NoticeInv' /\ EarlyInv' /\ WatchInv' /\ LocalControlPursued'
  OBVIOUS
<1>1. CASE AppInit \/ AppStart \/ AppNetwork \/ Deinit \/ Reboot
  BY <1>1, AppInitRest, AppStartRest, AppNetworkRest, DeinitRest, RebootRest
<1>2. CASE TaskStep
  BY <1>2, BeginRest, AssistedRest, ClaimedRest, CheckWifiRest, WaitWifiRest, SelfRest, SelfLaterRest,
     LoadParamsRest, EnableLocalRest, LocalEnabledRest, ConnectedRest, ReportRest DEF TaskStep
<1>3. CASE PhoneStep /\ UNCHANGED <<local, core, network, boots>>  BY <1>3, PhoneRest
<1>4. CASE LocalStep /\ UNCHANGED <<claimVars, core, network, boots>>  BY <1>4, LocalRest
<1>5. CASE /\ task \in {"connecting", "report", "ended"} /\ AppCalls
           /\ UNCHANGED <<claimVars, core, network, boots>>
  BY <1>5, AppCallsRest
<1>6. CASE Environment
  BY <1>6, ProvisionRest, GetsIpRest, ProvisioningStopsRest, LinkRest, HandleRest, LoopServesRest
  DEF Environment
<1>7. CASE UNCHANGED vars
  <2>1. UNCHANGED <<local, core, network, boot>>  BY <1>7 DEF vars, claimVars
  <2>2. /\ events' = events
        /\ \A f \in EventNames : Pending(f)' <=> Pending(f)
    BY <2>1, PendingSame DEF network
  <2> USE <2>1, <2>2 DEF NodeInv, local, core, network
  <2>3. CoreInv' /\ NoticeInv'  BY DEF EventNames, CoreInv, NoticeInv
  <2>4. EarlyInv' /\ WatchInv'  BY DEF EventNames, Early, EarlyInv, WatchInv
  <2>5. LocalControlPursued'  BY DEF LocalControlPursued
  <2> QED  BY <2>3, <2>4, <2>5
<1> QED  BY <1>1, <1>2, <1>3, <1>4, <1>5, <1>6, <1>7 DEF Next

\* It holds in every behaviour.
LEMMA Inductive == Spec => []NodeInv
<1>1. NodeInv /\ [Next]_vars => NodeInv'
  BY ClaimKept, RestKept DEF NodeInv
<1> QED  BY InitInv, <1>1, PTL DEF Spec

\* The properties follow from it.
LEMMA InvSuffices ==
  ASSUME NodeInv
  PROVE  TypeOK /\ CredentialsMatch /\ ClaimDataOwned /\ NeverStranded /\ LocalControlPursued
<1> USE DEF NodeInv, ClaimInv
<1>1. TypeOK
  BY DEF TypeOK, NvsTypes, NvsRecs, PlaceTypes, FlagTypes, ClaimTypes, ClaimRecs, StageInv, CoreInv
<1>2. NeverStranded
  BY DEF NeverStranded, NoticeInv, CoreInv, Pending, StageInv, OwnerInv, PlaceTypes, FlagTypes
<1> QED  BY <1>1, <1>2

-----------------------------------------------------------------------------
(* The theorems *)

\* The variables hold what the code can put there: no fragment is counted past
\* the last one, claim data that esp_rmaker_priv_data points to have been
\* allocated, and the state is STARTED only once esp_rmaker_task has connected.
THEOREM NodeTypeOK == Spec => []TypeOK
  BY Inductive, InvSuffices, PTL

\* A certificate in NVS was issued for the key in NVS, and for the node id the node
\* uses unless only one of NVS and memory had taken the id when it was made:
\* wherever the power is cut and whichever step of claiming fails, as long as no
\* phone sends commands after its certificate was stored.
THEOREM NodeCredentials == Spec => []CredentialsMatch
  BY Inductive, InvSuffices, PTL

\* esp_rmaker_claim_data_free is called twice, and freed claim data are used, only
\* in the cases that ClaimDataOwned names.
THEOREM NodeClaimData == Spec => []ClaimDataOwned
  BY Inductive, InvSuffices, PTL

\* esp_rmaker_task never waits for an IP address or a connection that it has
\* missed, nor for a certificate unless that was stored before the wait began.
THEOREM NodeNotices == Spec => []NeverStranded
  BY Inductive, InvSuffices, PTL

\* Local control never runs beside the server of provisioning, and is not
\* forgotten except in the two ways that missed records.
THEOREM NodeLocalControl == Spec => []LocalControlPursued
  BY Inductive, InvSuffices, PTL
=============================================================================
