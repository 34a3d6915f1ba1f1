------------------------------ MODULE MqttOta -------------------------------
(***************************************************************************)
(* The download of a firmware image over MQTT: the node asks for a window  *)
(* of blocks, the cloud answers with one message per block, and whatever   *)
(* is missing after a timeout is asked for again.  A failed download is    *)
(* attempted again from the start.                                         *)
(*                                                                         *)
(*   src/components/esp_rainmaker/src/ota/esp_rmaker_mqtt_ota.c            *)
(*   src/components/esp_rainmaker/src/ota/esp_rmaker_ota.c                 *)
(*                                                                         *)
(* The work queue task asks and waits; the MQTT client's task runs the     *)
(* callbacks.  They share the handle without a lock, and a callback tells  *)
(* the task what happened through the bits of an event group, which do not *)
(* count.  An answer may be lost, repeated, or so late that it meets a     *)
(* later request, or a later attempt: the topics are the same.             *)
(***************************************************************************)
EXTENDS Naturals, FiniteSets

CONSTANTS
  NumBlocks,    \* blocks of the image
  PerRequest,   \* CONFIG_ESP_RMAKER_MQTT_OTA_NO_OF_BLOCKS
  BlockLen,     \* CONFIG_ESP_RMAKER_MQTT_OTA_BLOCK_SIZE
  LastLen,      \* length of the last block
  HeaderLen,    \* IMAGE_HEADER_SIZE
  BitsPerByte,  \* BITS_PER_BYTE: the bitmap holds a multiple of it
  MaxRetries,   \* CONFIG_ESP_RMAKER_MQTT_OTA_MAX_RETRIES
  MaxAttempts,  \* CONFIG_ESP_RMAKER_OTA_MAX_RETRIES
  MaxRepeats    \* bound: answers the network repeats

ASSUME MqttOtaAssumption ==
  /\ NumBlocks \in Nat \ {0} /\ PerRequest \in Nat \ {0}
  /\ BlockLen \in Nat \ {0} /\ LastLen \in 1..BlockLen
  /\ HeaderLen \in Nat \ {0} /\ BitsPerByte \in Nat \ {0}
  /\ MaxRetries \in Nat /\ MaxAttempts \in Nat \ {0}
  /\ MaxRepeats \in Nat

VARIABLES
  pc,         \* where the work queue task is
  attempt,    \* attempts begun
  err,        \* outcome of the attempt, err of esp_rmaker_ota_use_mqtt
  state,      \* state of the handle
  header,     \* image_header_buf: not allocated, zeroed or filled
  offset,     \* current_offset
  noOfBlocks, \* current_no_of_blocks
  missing,    \* block_bitmap: the blocks whose bit is set
  remaining,  \* blocks_remaining
  binLen,     \* binary_file_len
  retries,    \* retry_count
  received,   \* blocks_received, a local of esp_rmaker_mqtt_fetch_file
  bits,       \* mqtt_ota_event_group
  cb,         \* where the block callback is, and with which block
  stored,     \* bytes of every block in the update partition
  boot,       \* the update partition is the boot partition
  net,        \* answers on their way to the node
  repeats     \* history: answers repeated

task     == <<pc, attempt, err, received, retries, boot>>
window   == <<offset, noOfBlocks>>
progress == <<missing, remaining, binLen, stored>>
vars == <<task, state, header, window, progress, bits, cb, net, repeats>>

-----------------------------------------------------------------------------
Blocks == 0..(NumBlocks - 1)
LengthOf(b) == IF b = NumBlocks - 1 THEN LastLen ELSE BlockLen
ImageLen == (NumBlocks - 1) * BlockLen + LastLen

(* What the cloud sends: the first bytes of the image, a block, a refusal. *)
Header   == [kind |-> "header", number |-> 0]
Block(b) == [kind |-> "block", number |-> b]
Refusal  == [kind |-> "refusal", number |-> 0]
Answers  == {Header, Refusal} \cup {Block(b) : b \in Blocks}

Smaller(a, b) == IF a < b THEN a ELSE b

(* The bytes of an answer; an image shorter than a header is sent whole.   *)
PayloadLen(m) == IF m.kind = "header" THEN Smaller(HeaderLen, ImageLen)
                                      ELSE LengthOf(m.number)

Idle == [step |-> "idle", block |-> 0, len |-> 0]

(* The bitmap ends at a whole byte; the bits past the last block are clear. *)
BitmapLen == ((NumBlocks + BitsPerByte - 1) \div BitsPerByte) * BitsPerByte
Window == offset..(offset + noOfBlocks - 1)

(* _received_complete_response; past the bitmap it reads memory that is    *)
(* not its own.                                                            *)
ReceivedComplete == {c \in BOOLEAN :
  /\ c => Window \cap missing = {}
  /\ ~c => Window \cap missing # {} \/ offset + noOfBlocks > BitmapLen}

Init ==
  /\ pc = "begin" /\ attempt = 0 /\ err = "none" /\ received = 0 /\ retries = 0
  /\ boot = FALSE /\ state = "begin" /\ header = "none"
  /\ offset = 0 /\ noOfBlocks = PerRequest
  /\ missing = Blocks /\ remaining = NumBlocks /\ binLen = 0
  /\ stored = [b \in Blocks |-> 0]
  /\ bits = {} /\ cb = Idle
  /\ net = {} /\ repeats = 0

-----------------------------------------------------------------------------
(* The work queue task.                                                    *)

(* The cloud answers a request with the blocks or with a refusal.          *)
Publish(answer) ==
  \E sent \in {answer, {Refusal}} : net' = net \cup sent

(* esp_mqtt_ota_begin: subscribe and set up the handle.                    *)
Begin ==
  /\ pc = "begin" /\ pc' = "header"
  /\ attempt' = attempt + 1 /\ err' = "none" /\ retries' = 0
  /\ state' = "begin" /\ header' = "none"
  /\ offset' = 0 /\ noOfBlocks' = PerRequest
  /\ missing' = Blocks /\ remaining' = NumBlocks /\ binLen' = 0
  /\ bits' = {}
  /\ UNCHANGED <<received, boot, cb, stored, net, repeats>>

(* Out of memory or not subscribed: the attempt fails without a handle.    *)
BeginFails ==
  /\ pc = "begin" /\ attempt' = attempt + 1
  /\ IF attempt + 1 < MaxAttempts THEN pc' = pc /\ err' = err
                                  ELSE pc' = "done" /\ err' = "failed"
  /\ UNCHANGED <<received, retries, boot, state, header, window, progress,
                 bits, cb, net, repeats>>

(* read_header: ask for the first bytes of the image.                      *)
AskHeader ==
  /\ pc = "header" /\ pc' = "waitHeader"
  /\ header' = "zeroed"
  /\ Publish({Header})
  /\ UNCHANGED <<attempt, err, received, retries, boot, state, window,
                 progress, bits, cb, repeats>>

Abort(outcome) == pc' = "end" /\ err' = outcome

(* The header has arrived, or so the event bit says; validate_image_header *)
(* rejects an image of another project.                                    *)
TakeHeader ==
  /\ pc = "waitHeader" /\ "fetched" \in bits
  /\ IF header = "filled" THEN pc' = "start" /\ err' = err
                          ELSE Abort("rejected")
  /\ bits' = {}
  /\ UNCHANGED <<attempt, received, retries, boot, state, header, window,
                 progress, cb, net, repeats>>

(* A refusal, or no answer in WAIT_FOR_DATA_SEC.                           *)
NoHeader ==
  /\ pc = "waitHeader" /\ "fetched" \notin bits
  /\ Abort("failed") /\ bits' = {}
  /\ UNCHANGED <<attempt, received, retries, boot, state, header, window,
                 progress, cb, net, repeats>>

(* esp_mqtt_ota_perform in ESP_MQTT_OTA_BEGIN: erase, drop the header.     *)
StartTransfer ==
  /\ pc = "start" /\ pc' = "ask"
  /\ state' = "in_progress" /\ header' = "none" /\ binLen' = 0
  /\ stored' = [b \in Blocks |-> 0]
  /\ UNCHANGED <<attempt, err, received, retries, boot, window, missing,
                 remaining, bits, cb, net, repeats>>

EraseFails ==
  /\ pc = "start" /\ Abort("failed") /\ state' = "failed"
  /\ UNCHANGED <<attempt, received, retries, boot, header, window, progress,
                 bits, cb, net, repeats>>

(* esp_rmaker_mqtt_fetch_file: ask for the blocks of the window.  Nothing  *)
(* is waited for when the window is empty.                                 *)
AskBlocks ==
  /\ pc = "ask" /\ pc' = IF noOfBlocks = 0 THEN "check" ELSE "wait"
  /\ received' = 0
  /\ Publish({Block(b) : b \in Window \cap Blocks})
  /\ UNCHANGED <<attempt, err, retries, boot, state, header, window, progress,
                 bits, cb, repeats>>

(* esp_rmaker_mqtt_publish fails: the budget is spent, or out of memory.   *)
PublishFails ==
  /\ \/ pc = "header" /\ state' = state /\ header' = "zeroed"
     \/ pc = "ask" /\ state' = "failed" /\ header' = header
  /\ Abort("failed")
  /\ UNCHANGED <<attempt, received, retries, boot, window, progress, bits, cb,
                 net, repeats>>

(* A bit for blocks that were stored or were known.  The wait clears all   *)
(* the bits, an error's too.                                               *)
CountBlock ==
  /\ pc = "wait" /\ bits \cap {"fetched", "duplicate"} # {}
  /\ received' = received + 1
  /\ retries' = IF "fetched" \in bits THEN 0 ELSE retries
  /\ pc' = IF received' < noOfBlocks THEN "wait" ELSE "check"
  /\ bits' = {}
  /\ UNCHANGED <<attempt, err, boot, state, header, window, progress, cb, net,
                 repeats>>

FetchFails ==
  /\ pc = "wait" /\ bits = {"error"}
  /\ Abort("failed") /\ state' = "failed" /\ bits' = {}
  /\ UNCHANGED <<attempt, received, retries, boot, header, window, progress,
                 cb, net, repeats>>

\* Mutant: timeouts are not counted.
TimeoutForever ==
  /\ pc = "wait" /\ bits = {} /\ pc' = "check"
  /\ UNCHANGED <<attempt, err, received, retries, boot, state, header, window,
                 progress, bits, cb, net, repeats>>

Timeout ==
  /\ pc = "wait" /\ bits = {} /\ retries < MaxRetries
  /\ retries' = retries + 1 /\ pc' = "check"
  /\ UNCHANGED <<attempt, err, received, boot, state, header, window, progress,
                 bits, cb, net, repeats>>

OutOfRetries ==
  /\ pc = "wait" /\ bits = {} /\ retries >= MaxRetries
  /\ Abort("failed") /\ state' = "failed"
  /\ UNCHANGED <<attempt, received, retries, boot, header, window, progress,
                 bits, cb, net, repeats>>

\* Mutant: the window moves on whatever has arrived.
CheckNothing ==
  /\ pc = "check" /\ pc' = "length"
  /\ offset' = offset + noOfBlocks
  /\ noOfBlocks' = Smaller(remaining, noOfBlocks)
  /\ UNCHANGED <<attempt, err, received, retries, boot, state, header, progress,
                 bits, cb, net, repeats>>

(* Move the window on when all of it has arrived.                          *)
CheckWindow ==
  /\ pc = "check" /\ pc' = "length"
  /\ \E complete \in ReceivedComplete :
       IF complete
         THEN /\ offset' = offset + noOfBlocks
              /\ noOfBlocks' = Smaller(remaining, noOfBlocks)
         ELSE UNCHANGED window
  /\ UNCHANGED <<attempt, err, received, retries, boot, state, header, progress,
                 bits, cb, net, repeats>>

\* Mutant: the download is over when no block is missing.
CheckRemaining ==
  /\ pc = "length"
  /\ IF remaining = 0
       THEN pc' = "end" /\ err' = "ok" /\ state' = "success"
       ELSE pc' = "ask" /\ UNCHANGED <<err, state>>
  /\ UNCHANGED <<attempt, received, retries, boot, header, window, progress,
                 bits, cb, net, repeats>>

(* Has the whole image been written?                                       *)
CheckLength ==
  /\ pc = "length"
  /\ IF binLen = ImageLen THEN pc' = "end" /\ err' = "ok" /\ state' = "success"
                          ELSE pc' = "ask" /\ UNCHANGED <<err, state>>
  /\ UNCHANGED <<attempt, received, retries, boot, header, window, progress,
                 bits, cb, net, repeats>>

(* esp_mqtt_ota_end: unsubscribe, close the partition, free the handle;    *)
(* boot from it if the download succeeded and the image is accepted.  Then *)
(* esp_rmaker_ota_retry_loop: the next attempt, if there is one.           *)
End ==
  /\ pc = "end" /\ cb = Idle
  /\ \E accepted \in BOOLEAN :
       LET done == err = "ok" /\ state = "success" /\ accepted
       IN  /\ boot' = (boot \/ done)
           /\ IF done \/ err = "rejected" \/ attempt = MaxAttempts
                THEN pc' = "done"
                ELSE pc' = "begin"
           /\ err' = IF err = "ok" /\ ~done THEN "failed" ELSE err
  /\ UNCHANGED <<attempt, received, retries, state, header, window, progress,
                 bits, cb, net, repeats>>

-----------------------------------------------------------------------------
(* The MQTT client's task: stream_data_cb and error_cb.                    *)

Subscribed == pc \notin {"begin", "done"}

(* An answer arrives; the network may bring it once more later.            *)
Arrives(m) ==
  /\ Subscribed /\ cb = Idle /\ m \in net
  /\ \/ net' = net \ {m} /\ repeats' = repeats
     \/ net' = net /\ repeats < MaxRepeats /\ repeats' = repeats + 1

(* A block the callback looks at: it fits the buffer and is in the window. *)
Wanted(m) ==
  /\ state \in {"begin", "in_progress"}
  /\ PayloadLen(m) =< BlockLen
  /\ m.number \in Window

IgnoreBlock(m) ==
  /\ m # Refusal /\ ~Wanted(m) /\ Arrives(m)
  /\ UNCHANGED <<task, state, header, window, progress, bits, cb>>

(* While the header is awaited any block of the first window is one.       *)
HeaderArrives(m) ==
  /\ m # Refusal /\ Wanted(m) /\ state = "begin" /\ Arrives(m)
  /\ header' = IF /\ header # "none" /\ m.number = 0
                  /\ PayloadLen(m) >= HeaderLen
                 THEN "filled" ELSE header
  /\ bits' = bits \cup {"fetched"}
  /\ UNCHANGED <<task, state, window, progress, cb>>

DuplicateArrives(m) ==
  /\ m # Refusal /\ Wanted(m) /\ state = "in_progress"
  /\ m.number \notin missing /\ Arrives(m)
  /\ bits' = bits \cup {"duplicate"}
  /\ UNCHANGED <<task, state, header, window, progress, cb>>

\* Mutant: the bitmap is not looked at.
AnyBlockArrives(m) ==
  /\ m # Refusal /\ Wanted(m) /\ state = "in_progress" /\ Arrives(m)
  /\ missing' = missing \ {m.number}
  /\ cb' = [step |-> "account", block |-> m.number, len |-> PayloadLen(m)]
  /\ UNCHANGED <<task, state, header, window, remaining, binLen, stored, bits>>

(* A block that was missing: clear its bit, count it, write it.            *)
BlockArrives(m) ==
  /\ m # Refusal /\ Wanted(m) /\ state = "in_progress"
  /\ m.number \in missing /\ Arrives(m)
  /\ missing' = missing \ {m.number}
  /\ cb' = [step |-> "account", block |-> m.number, len |-> PayloadLen(m)]
  /\ UNCHANGED <<task, state, header, window, remaining, binLen, stored, bits>>

AccountBlock ==
  /\ cb.step = "account"
  /\ cb' = [cb EXCEPT !.step = "write"]
  /\ remaining' = remaining - 1
  /\ UNCHANGED <<task, state, header, window, missing, binLen, stored, bits,
                 net, repeats>>

WriteBlock ==
  /\ cb.step = "write" /\ cb' = Idle
  /\ stored' = [stored EXCEPT ![cb.block] = cb.len]
  /\ binLen' = binLen + cb.len
  /\ bits' = bits \cup {"fetched"}
  /\ UNCHANGED <<task, state, header, window, missing, remaining, net, repeats>>

WriteFails ==
  /\ cb.step = "write" /\ cb' = Idle
  /\ bits' = bits \cup {"error"}
  /\ UNCHANGED <<task, state, header, window, progress, net, repeats>>

RefusalArrives ==
  /\ Arrives(Refusal)
  /\ bits' = bits \cup {"error"}
  /\ UNCHANGED <<task, state, header, window, progress, cb>>

(* The network loses an answer, before or after the node unsubscribed.     *)
Lose(m) ==
  /\ m \in net /\ net' = net \ {m}
  /\ UNCHANGED <<task, state, header, window, progress, bits, cb, repeats>>

-----------------------------------------------------------------------------
Task ==
  \/ Begin \/ BeginFails
  \/ AskHeader \/ TakeHeader \/ NoHeader \/ StartTransfer \/ EraseFails
  \/ AskBlocks \/ PublishFails
  \/ CountBlock \/ FetchFails \/ Timeout \/ OutOfRetries
  \/ CheckWindow \/ CheckLength \/ End

Callback ==
  \/ \E m \in Answers :
       \/ IgnoreBlock(m) \/ HeaderArrives(m)
       \/ DuplicateArrives(m) \/ BlockArrives(m)
  \/ AccountBlock \/ WriteBlock \/ WriteFails \/ RefusalArrives

Network == \E m \in Answers : Lose(m)

(* The workflow ends with a reboot or with a later fetch: see OtaFetch.    *)
Done == pc = "done" /\ UNCHANGED vars

Next == Task \/ Callback \/ Network \/ Done

(* The task runs, and a callback that has begun ends.  Nothing obliges the *)
(* network to deliver.  A task that keeps asking for nothing spends the    *)
(* message budget: its publish fails in the end.                           *)
Fairness ==
  /\ WF_vars(Task)
  /\ WF_vars(AccountBlock \/ WriteBlock \/ WriteFails)
  /\ SF_vars(noOfBlocks = 0 /\ PublishFails)

Spec == Init /\ [][Next]_vars /\ Fairness

-----------------------------------------------------------------------------
TypeOK ==
  /\ pc \in {"begin", "header", "waitHeader", "start", "ask", "wait", "check",
             "length", "end", "done"}
  /\ attempt \in 0..MaxAttempts /\ err \in {"none", "ok", "failed", "rejected"}
  /\ state \in {"begin", "in_progress", "success", "failed"}
  /\ header \in {"none", "zeroed", "filled"}
  /\ offset \in Nat /\ noOfBlocks \in 0..PerRequest
  /\ missing \subseteq Blocks /\ remaining \in 0..NumBlocks
  /\ binLen \in Nat /\ retries \in 0..MaxRetries
  /\ received \in 0..PerRequest
  /\ bits \subseteq {"fetched", "duplicate", "error"}
  /\ cb \in [step : {"idle", "account", "write"}, block : Blocks,
             len : 0..BlockLen]
  /\ stored \in [Blocks -> 0..BlockLen] /\ boot \in BOOLEAN
  /\ net \subseteq Answers /\ repeats \in 0..MaxRepeats

(* The node only ever boots an image of which every block is in flash at   *)
(* its full length, although the download is judged by the sum of the      *)
(* lengths alone, and although answers of all kinds, of this request, of   *)
(* an earlier one or of an earlier attempt, may have been stored for it    *)
(* (esp_mqtt_ota_perform, stream_data_cb).                                 *)
BootsWholeImage == boot => \A b \in Blocks : stored[b] = LengthOf(b)

(* The window moves over a block only when it has arrived, and no block    *)
(* beyond it is ever taken: the blocks below the window are all there, the *)
(* ones above it all missing (stream_data_cb, esp_rmaker_mqtt_fetch_file). *)
NothingSkipped ==
  \A b \in Blocks :
    /\ b < offset => b \notin missing
    /\ b >= offset + noOfBlocks => b \in missing

(* Between two erasures no block is written twice, which flash would not   *)
(* bear, however often and in whatever form it arrives (stream_data_cb).   *)
FlashWrittenOnce == cb.step # "idle" => stored[cb.block] = 0

(* Every download ends, with a new image, a rejection or a failure,        *)
(* whatever the network loses: no wait is without a timeout, and timeouts  *)
(* without progress run out (esp_rmaker_mqtt_fetch_file,                   *)
(* esp_rmaker_ota_retry_loop).                                             *)
DownloadEnds == <>(pc = "done")
=============================================================================
