---------------------------- MODULE MqttOtaProofs ---------------------------
(***************************************************************************)
(* What holds of the download for every image, request size and number of  *)
(* retries: the state is well typed, no block is skipped, no block is      *)
(* written twice into erased flash, and only a whole image is booted.      *)
(***************************************************************************)
EXTENDS MqttOta, FiniteSetTheorems, TLAPS

\* blocks_remaining is the size of the bitmap, but for the block just taken.
Counted ==
  remaining = Cardinality(missing) + (IF cb.step = "account" THEN 1 ELSE 0)

\* A block the callback works on is out of the bitmap and not yet in flash.
CallbackInv ==
  cb.step # "idle" => cb.block \notin missing /\ stored[cb.block] = 0

\* A block of a running transfer that is missing has not been written.
FlashInv == state = "in_progress" => \A b \in missing : stored[b] = 0

\* The callback has nothing to do before the transfer starts.
QuietInv == state = "begin" => cb.step = "idle"

-----------------------------------------------------------------------------
(* Constants and operators *)

LEMMA BlockTypes ==
  /\ NumBlocks \in Nat /\ PerRequest \in Nat /\ BlockLen \in Nat
  /\ MaxRetries \in Nat /\ MaxAttempts \in Nat /\ MaxRepeats \in Nat
  /\ 0 \in Blocks /\ Blocks \subseteq Nat
  /\ IsFiniteSet(Blocks) /\ Cardinality(Blocks) = NumBlocks
<1>1. NumBlocks \in Nat \ {0}
  BY MqttOtaAssumption
<1>2. IsFiniteSet(Blocks) /\ Cardinality(Blocks) = NumBlocks
  BY <1>1, FS_Interval DEF Blocks
<1>3. QED
  BY <1>1, <1>2, MqttOtaAssumption DEF Blocks

\* An answer other than a refusal carries a block number of the image.
LEMMA AnswerTypes ==
  ASSUME NEW m \in Answers, m # Refusal
  PROVE  m.number \in Blocks /\ PayloadLen(m) \in Nat
<1>1. CASE m = Header
  <2>1. HeaderLen \in Nat /\ ImageLen \in Nat
    BY MqttOtaAssumption DEF ImageLen
  <2>2. QED
    BY <1>1, <2>1, BlockTypes DEF Header, PayloadLen, Smaller
<1>2. CASE \E b \in Blocks : m = Block(b)
  BY <1>2, MqttOtaAssumption DEF Block, PayloadLen, LengthOf
<1>3. QED
  BY <1>1, <1>2 DEF Answers

\* Any set of blocks is finite and no larger than the image.
LEMMA MissingFinite ==
  ASSUME NEW S \in SUBSET Blocks
  PROVE  IsFiniteSet(S) /\ Cardinality(S) \in 0..NumBlocks
<1>1. IsFiniteSet(S) /\ Cardinality(S) <= Cardinality(Blocks)
  BY BlockTypes, FS_Subset
<1>2. QED
  BY <1>1, BlockTypes, FS_CardinalityType

\* Taking one block out makes the set one smaller.
LEMMA TakeOne ==
  ASSUME NEW S \in SUBSET Blocks, NEW x \in S
  PROVE  Cardinality(S) = Cardinality(S \ {x}) + 1
<1>1. Cardinality(S \ {x}) = Cardinality(S) - 1
  BY MissingFinite, FS_RemoveElement
<1>2. QED
  BY <1>1, MissingFinite

-----------------------------------------------------------------------------
(* Type correctness, with the counts it rests on *)

\* An attempt is begun only if there is one left, a wait goes on only while
\* blocks of the request are outstanding, and the callback works only between
\* the subscription and the end of an attempt.
StepInv ==
  /\ pc = "begin" => attempt < MaxAttempts
  /\ pc = "wait" => received < noOfBlocks
  /\ cb.step # "idle" => pc \notin {"begin", "done"}

TypeInv == TypeOK /\ StepInv /\ Counted

LEMMA TypeInit == Init => TypeInv
<1> SUFFICES ASSUME Init PROVE TypeInv
  OBVIOUS
<1>1. TypeOK
  <2>1. /\ Idle \in [step : {"idle", "account", "write"}, block : Blocks,
                     len : 0..BlockLen]
        /\ [b \in Blocks |-> 0] \in [Blocks -> 0..BlockLen]
    BY BlockTypes DEF Idle
  <2>2. /\ PerRequest \in 0..PerRequest /\ NumBlocks \in 0..NumBlocks
        /\ 0 \in 0..MaxAttempts /\ 0 \in 0..MaxRetries /\ 0 \in 0..PerRequest
        /\ 0 \in 0..MaxRepeats /\ 0 \in Nat
    BY BlockTypes
  <2>3. QED
    BY <2>1, <2>2, Zenon DEF Init, TypeOK
<1>2. StepInv
  BY MqttOtaAssumption DEF Init, StepInv, Idle
<1>3. Counted
  BY BlockTypes DEF Init, Counted, Idle
<1>4. QED
  BY <1>1, <1>2, <1>3 DEF TypeInv

\* The steps of the work queue task.
LEMMA TaskTypes == TypeInv /\ Task => TypeInv'
<1> SUFFICES ASSUME TypeInv, Task PROVE TypeInv'
  OBVIOUS
<1> USE BlockTypes DEF TypeInv, TypeOK, StepInv, Counted, task, window, progress
<1>0. /\ MaxAttempts \in Nat \ {0}
      /\ Header \in Answers /\ Refusal \in Answers
      /\ \A b \in Blocks : Block(b) \in Answers
  BY MqttOtaAssumption DEF Answers
<1>1. CASE Begin
  BY <1>1 DEF Begin
<1>2. CASE BeginFails
  BY <1>2 DEF BeginFails
<1>3. CASE AskHeader
  BY <1>0, <1>3 DEF AskHeader, Publish
<1>4. CASE TakeHeader
  BY <1>4 DEF TakeHeader, Abort
<1>5. CASE NoHeader
  BY <1>5 DEF NoHeader, Abort
<1>6. CASE StartTransfer
  BY <1>6 DEF StartTransfer
<1>7. CASE EraseFails
  BY <1>7 DEF EraseFails, Abort
<1>8. CASE AskBlocks
  <2>1. {Block(b) : b \in Window \cap Blocks} \subseteq Answers
    BY DEF Answers
  <2>2. net' \subseteq Answers
    BY <1>0, <1>8, <2>1 DEF AskBlocks, Publish
  <2>3. pc' \in {"check", "wait"} /\ (pc' = "wait" => noOfBlocks # 0)
    BY <1>8 DEF AskBlocks
  <2>4. QED
    BY <1>8, <2>2, <2>3 DEF AskBlocks
<1>9. CASE PublishFails
  BY <1>9 DEF PublishFails, Abort
<1>10. CASE CountBlock
  <2>1. /\ pc' \in {"check", "wait"}
        /\ pc' = "wait" => received' < noOfBlocks
        /\ retries' \in {0, retries}
    BY <1>10 DEF CountBlock
  <2>2. received' \in 0..PerRequest
    BY <1>10 DEF CountBlock
  <2>3. QED
    BY <1>10, <2>1, <2>2 DEF CountBlock
<1>11. CASE FetchFails
  BY <1>11 DEF FetchFails, Abort
<1>12. CASE Timeout
  BY <1>12 DEF Timeout
<1>13. CASE OutOfRetries
  BY <1>13 DEF OutOfRetries, Abort
<1>14. CASE CheckWindow
  <2>1. offset' \in Nat /\ noOfBlocks' \in 0..PerRequest
    <3>1. \/ offset' = offset + noOfBlocks
             /\ noOfBlocks' = Smaller(remaining, noOfBlocks)
          \/ offset' = offset /\ noOfBlocks' = noOfBlocks
      BY <1>14 DEF CheckWindow
    <3>2. Smaller(remaining, noOfBlocks) \in 0..PerRequest
      BY DEF Smaller
    <3>3. QED
      BY <3>1, <3>2
  <2>2. QED
    BY <1>14, <2>1 DEF CheckWindow
<1>15. CASE CheckLength
  BY <1>15 DEF CheckLength
<1>16. CASE End
  BY <1>16 DEF End, Idle
<1>17. QED
  BY <1>1, <1>2, <1>3, <1>4, <1>5, <1>6, <1>7, <1>8, <1>9, <1>10, <1>11,
     <1>12, <1>13, <1>14, <1>15, <1>16 DEF Task

\* The steps of the MQTT client's task.
LEMMA CallbackTypes == TypeInv /\ Callback => TypeInv'
<1> SUFFICES ASSUME TypeInv, Callback PROVE TypeInv'
  OBVIOUS
<1> USE BlockTypes DEF TypeInv, TypeOK, StepInv, Counted, task, window, progress
<1>1. ASSUME NEW m \in Answers, IgnoreBlock(m) PROVE TypeInv'
  BY <1>1 DEF IgnoreBlock, Arrives
<1>2. ASSUME NEW m \in Answers, HeaderArrives(m) PROVE TypeInv'
  BY <1>2 DEF HeaderArrives, Arrives
<1>3. ASSUME NEW m \in Answers, DuplicateArrives(m) PROVE TypeInv'
  BY <1>3 DEF DuplicateArrives, Arrives
<1>4. ASSUME NEW m \in Answers, BlockArrives(m) PROVE TypeInv'
  <2>1. m.number \in Blocks /\ PayloadLen(m) \in 0..BlockLen
    BY <1>4, AnswerTypes DEF BlockArrives, Wanted
  <2>2. /\ cb' = [step |-> "account", block |-> m.number, len |-> PayloadLen(m)]
        /\ cb' \in [step : {"idle", "account", "write"}, block : Blocks,
                    len : 0..BlockLen]
    BY <1>4, <2>1 DEF BlockArrives
  <2>3. /\ cb.step = "idle" /\ pc \notin {"begin", "done"} /\ repeats' \in 0..MaxRepeats
        /\ net' \subseteq Answers
    BY <1>4 DEF BlockArrives, Arrives, Subscribed, Idle
  <2>4. Cardinality(missing) = Cardinality(missing') + 1
    BY <1>4, TakeOne DEF BlockArrives
  <2>5. Cardinality(missing') \in Nat
    BY <1>4, MissingFinite DEF BlockArrives
  <2>6. Counted'
    BY <1>4, <2>2, <2>3, <2>4, <2>5 DEF BlockArrives
  <2>7. QED
    BY <1>4, <2>2, <2>3, <2>6 DEF BlockArrives
<1>5. CASE AccountBlock
  <2>1. Cardinality(missing) \in Nat
    BY MissingFinite
  <2>2. cb' = [cb EXCEPT !.step = "write"] /\ cb.step = "account"
    BY <1>5 DEF AccountBlock
  <2>3. remaining' \in 0..NumBlocks /\ remaining' = Cardinality(missing)
    BY <1>5, <2>1 DEF AccountBlock
  <2>4. QED
    BY <1>5, <2>2, <2>3 DEF AccountBlock
<1>6. CASE WriteBlock
  BY <1>6 DEF WriteBlock, Idle
<1>7. CASE WriteFails
  BY <1>7 DEF WriteFails, Idle
<1>8. CASE RefusalArrives
  BY <1>8 DEF RefusalArrives, Arrives
<1>9. QED
  BY <1>1, <1>2, <1>3, <1>4, <1>5, <1>6, <1>7, <1>8 DEF Callback

LEMMA TypeStep == TypeInv /\ [Next]_vars => TypeInv'
<1> SUFFICES ASSUME TypeInv, [Next]_vars PROVE TypeInv'
  OBVIOUS
<1>1. CASE Task
  BY <1>1, TaskTypes
<1>2. CASE Callback
  BY <1>2, CallbackTypes
<1>3. ASSUME NEW m \in Answers, Lose(m) PROVE TypeInv'
  BY <1>3 DEF Lose, TypeInv, TypeOK, StepInv, Counted, task, window, progress
<1>4. CASE UNCHANGED vars
  BY <1>4 DEF vars, TypeInv, TypeOK, StepInv, Counted, task, window, progress
<1>5. QED
  BY <1>1, <1>2, <1>3, <1>4 DEF Next, Network, Done

\* The state of a download is well typed in every reachable state, whatever the
\* image, the size of a request, the bitmap and the number of retries.
THEOREM MqttOtaTypeOK == Spec => []TypeOK
<1>1. Spec => []TypeInv
  BY TypeInit, TypeStep, PTL DEF Spec
<1>2. TypeInv => TypeOK
  BY DEF TypeInv
<1>3. QED
  BY <1>1, <1>2, PTL

-----------------------------------------------------------------------------
(* The window *)

\* Only the start of an attempt, the task's check and the arrival of a block
\* touch the window or the bitmap.
LEMMA SkipStep == TypeInv /\ NothingSkipped /\ [Next]_vars => NothingSkipped'
<1> SUFFICES ASSUME TypeInv, NothingSkipped, [Next]_vars PROVE NothingSkipped'
  OBVIOUS
<1> USE BlockTypes DEF NothingSkipped
<1>1. /\ offset \in Nat /\ noOfBlocks \in Nat /\ missing \subseteq Blocks
      /\ noOfBlocks \in 0..PerRequest /\ remaining \in Nat
  BY DEF TypeInv, TypeOK
<1>2. CASE Begin
  BY <1>2, MqttOtaAssumption DEF Begin
<1>3. CASE CheckWindow
  <2>1. CASE UNCHANGED window
    BY <1>3, <2>1 DEF CheckWindow, window, progress
  <2>2. CASE /\ TRUE \in ReceivedComplete
             /\ offset' = offset + noOfBlocks
             /\ noOfBlocks' = Smaller(remaining, noOfBlocks)
    <3>1. \A b \in Blocks : b \in Window => b \notin missing
      BY <2>2 DEF ReceivedComplete
    <3>2. \A b \in Blocks : offset <= b /\ b < offset + noOfBlocks => b \in Window
      BY <1>1 DEF Window
    <3>3. missing' = missing /\ offset' \in Nat /\ noOfBlocks' \in Nat
      BY <1>1, <1>3, <2>2 DEF CheckWindow, progress, Smaller
    <3>4. ASSUME NEW b \in Blocks, b < offset' PROVE b \notin missing'
      BY <1>1, <2>2, <3>1, <3>2, <3>3, <3>4
    <3>5. ASSUME NEW b \in Blocks, b >= offset' + noOfBlocks' PROVE b \in missing'
      BY <1>1, <2>2, <3>3, <3>5
    <3>6. QED
      BY <3>4, <3>5
  <2>3. QED
    BY <1>3, <2>1, <2>2 DEF CheckWindow, ReceivedComplete
<1>4. ASSUME NEW m \in Answers, BlockArrives(m) PROVE NothingSkipped'
  <2>1. /\ m.number >= offset /\ m.number < offset + noOfBlocks
        /\ missing' = missing \ {m.number} /\ UNCHANGED <<offset, noOfBlocks>>
    BY <1>1, <1>4 DEF BlockArrives, Wanted, Window, window
  <2>2. QED
    BY <1>1, <2>1
<1>5. CASE UNCHANGED <<offset, noOfBlocks, missing>>
  BY <1>5
<1>6. QED
  BY <1>2, <1>3, <1>4, <1>5
  DEF Next, Task, Callback, Network, Done, vars, window, progress, BeginFails,
      AskHeader, TakeHeader, NoHeader, StartTransfer, EraseFails, AskBlocks,
      PublishFails, CountBlock, FetchFails, Timeout, OutOfRetries, CheckLength,
      End, IgnoreBlock, HeaderArrives, DuplicateArrives, AccountBlock,
      WriteBlock, WriteFails, RefusalArrives, Lose

\* The window never moves over a block that has not arrived, and never takes one
\* beyond it: whatever the network loses, repeats or delays, and wherever the
\* callback interrupts the task.
THEOREM MqttOtaNothingSkipped == Spec => []NothingSkipped
<1>1. Init => NothingSkipped
  BY BlockTypes, MqttOtaAssumption DEF Init, NothingSkipped
<1>2. Spec => [](TypeInv /\ NothingSkipped)
  BY <1>1, TypeInit, TypeStep, SkipStep, PTL DEF Spec
<1>3. QED
  BY <1>2, PTL

-----------------------------------------------------------------------------
(* The flash *)

FlashAll == CallbackInv /\ FlashInv /\ QuietInv

LEMMA FlashStep == TypeInv /\ FlashAll /\ [Next]_vars => FlashAll'
<1> SUFFICES ASSUME TypeInv, FlashAll, [Next]_vars PROVE FlashAll'
  OBVIOUS
<1> USE DEF FlashAll, CallbackInv, FlashInv, QuietInv
<1>1. /\ stored \in [Blocks -> 0..BlockLen] /\ missing \subseteq Blocks
      /\ cb.block \in Blocks
      /\ cb \in [step : {"idle", "account", "write"}, block : Blocks,
                 len : 0..BlockLen]
      /\ pc \in {"begin", "done"} => cb.step = "idle"
  BY DEF TypeInv, TypeOK, StepInv
<1>2. CASE Begin
  BY <1>1, <1>2 DEF Begin
<1>3. CASE StartTransfer
  <2>1. \A b \in Blocks : stored'[b] = 0
    BY <1>3 DEF StartTransfer
  <2>2. cb' = cb /\ missing' = missing /\ state' = "in_progress"
    BY <1>3 DEF StartTransfer
  <2>3. QED
    BY <1>1, <2>1, <2>2
<1>4. ASSUME NEW m \in Answers, BlockArrives(m) PROVE FlashAll'
  <2>1. /\ m.number \in missing /\ missing' = missing \ {m.number}
        /\ cb' = [step |-> "account", block |-> m.number, len |-> PayloadLen(m)]
        /\ stored' = stored /\ state' = state /\ state = "in_progress"
    BY <1>4 DEF BlockArrives
  <2>2. QED
    BY <1>1, <2>1
<1>5. CASE AccountBlock
  <2>1. cb'.step = "write" /\ cb'.block = cb.block
    BY <1>1, <1>5 DEF AccountBlock
  <2>2. UNCHANGED <<missing, stored, state>> /\ cb.step = "account"
    BY <1>5 DEF AccountBlock
  <2>3. QED
    BY <2>1, <2>2
<1>6. CASE WriteBlock
  <2>1. /\ cb'.step = "idle" /\ cb.block \notin missing
        /\ UNCHANGED <<missing, state>>
    BY <1>6 DEF WriteBlock, Idle
  <2>2. \A b \in missing : stored'[b] = stored[b]
    BY <1>1, <1>6, <2>1 DEF WriteBlock
  <2>3. QED
    BY <2>1, <2>2
<1>7. CASE WriteFails
  BY <1>7 DEF WriteFails, Idle, progress
<1>8. CASE UNCHANGED <<cb, missing, stored>> /\ state' \in {state, "failed", "success"}
  BY <1>8
<1>9. QED
  BY <1>2, <1>3, <1>4, <1>5, <1>6, <1>7, <1>8
  DEF Next, Task, Callback, Network, Done, vars, window, progress, BeginFails,
      AskHeader, TakeHeader, NoHeader, EraseFails, AskBlocks, PublishFails,
      CountBlock, FetchFails, Timeout, OutOfRetries, CheckWindow, CheckLength,
      End, IgnoreBlock, HeaderArrives, DuplicateArrives, RefusalArrives, Lose

\* No block is written again into flash that has not been erased since, however
\* often and in whatever form it arrives.
THEOREM MqttOtaFlashWrittenOnce == Spec => []FlashWrittenOnce
<1>1. Init => FlashAll
  BY DEF Init, FlashAll, CallbackInv, FlashInv, QuietInv, Idle
<1>2. FlashAll => FlashWrittenOnce
  BY DEF FlashAll, CallbackInv, FlashWrittenOnce
<1>3. Spec => [](TypeInv /\ FlashAll)
  BY <1>1, TypeInit, TypeStep, FlashStep, PTL DEF Spec
<1>4. QED
  BY <1>2, <1>3, PTL
-----------------------------------------------------------------------------
(* The image *)

Last == NumBlocks - 1

\* Every byte of the image is in flash.
Whole == \A b \in Blocks : stored[b] = LengthOf(b)

\* The bytes of the blocks that have not been written.
Unwritten == {b \in Blocks : stored[b] = 0}
Owed == BlockLen * Cardinality(Unwritten \ {Last})
          + (IF Last \in Unwritten THEN LastLen ELSE 0)

\* A block that was cut short when it was written.
CutShort == \E b \in Blocks : stored[b] \notin {0, LengthOf(b)}

\* What has been written and what is owed never exceed the image, and do not
\* reach it again once a block was cut short: the sum of the lengths is right
\* only for the whole image.
LengthInv == state = "in_progress" =>
  /\ binLen + Owed <= ImageLen
  /\ CutShort => binLen + Owed < ImageLen

\* No answer brings more than the bytes of its block.
CallbackLen == cb.step # "idle" => cb.len <= LengthOf(cb.block)

\* A transfer is judged only while it runs, and what it was judged to be is
\* still true when the partition is selected and afterwards.
JudgeInv ==
  /\ pc \in {"ask", "wait", "check", "length"} => state = "in_progress"
  /\ state = "success" => Whole
  /\ boot => pc = "done" /\ Whole

ImageInv == LengthInv /\ CallbackLen /\ JudgeInv

LEMMA LengthTypes ==
  /\ Last \in Blocks /\ BlockLen \in Nat /\ LastLen \in Nat \ {0}
  /\ ImageLen \in Nat /\ ImageLen = BlockLen * Last + LastLen
  /\ \A b \in Blocks : LengthOf(b) \in Nat \ {0}
<1>1. NumBlocks \in Nat \ {0} /\ BlockLen \in Nat \ {0} /\ LastLen \in 1..BlockLen
  BY MqttOtaAssumption
<1>2. (NumBlocks - 1) * BlockLen = BlockLen * (NumBlocks - 1)
      /\ BlockLen * (NumBlocks - 1) \in Nat
  BY <1>1
<1>3. QED
  BY <1>1, <1>2 DEF Last, Blocks, ImageLen, LengthOf

\* An answer the callback takes is no longer than the block it is taken for.
LEMMA PayloadFits ==
  ASSUME NEW m \in Answers, m # Refusal, PayloadLen(m) <= BlockLen
  PROVE  PayloadLen(m) <= LengthOf(m.number)
<1>1. CASE m = Header
  <2>1. m.number = 0 /\ PayloadLen(m) = Smaller(HeaderLen, ImageLen)
    BY <1>1 DEF Header, PayloadLen
  <2>2. CASE NumBlocks = 1
    <3>1. ImageLen = LastLen /\ LengthOf(0) = LastLen
      BY <2>2, MqttOtaAssumption DEF ImageLen, LengthOf
    <3>2. QED
      BY <2>1, <3>1, MqttOtaAssumption DEF Smaller
  <2>3. CASE NumBlocks # 1
    BY <2>1, <2>3, MqttOtaAssumption DEF LengthOf
  <2>4. QED
    BY <2>2, <2>3
<1>2. CASE \E b \in Blocks : m = Block(b)
  <2>1. PayloadLen(m) = LengthOf(m.number)
    BY <1>2 DEF Block, PayloadLen
  <2>2. QED
    BY <1>2, <2>1, LengthTypes DEF Block
<1>3. QED
  BY <1>1, <1>2 DEF Answers

\* Nothing is owed only of the whole image.
LEMMA OwedNothing ==
  ASSUME stored \in [Blocks -> Nat], binLen = ImageLen, LengthInv,
         state = "in_progress"
  PROVE  Whole
<1> DEFINE n == Cardinality(Unwritten \ {Last})
<1>1. Unwritten \ {Last} \in SUBSET Blocks
  BY DEF Unwritten
<1>2. IsFiniteSet(Unwritten \ {Last}) /\ n \in Nat
  BY <1>1, MissingFinite
<1>3. BlockLen * n \in Nat
  BY <1>2, LengthTypes
<1>4. Owed = BlockLen * n + (IF Last \in Unwritten THEN LastLen ELSE 0)
  BY DEF Owed
<1>5. binLen + Owed <= ImageLen /\ (CutShort => binLen + Owed < ImageLen)
  BY DEF LengthInv
<1> HIDE DEF n
<1>6. /\ Last \notin Unwritten /\ BlockLen * n = 0 /\ ~CutShort
  BY <1>3, <1>4, <1>5, LengthTypes
<1>7. n = 0
  BY <1>2, <1>6, MqttOtaAssumption
<1>8. Unwritten \ {Last} = {}
  BY <1>2, <1>7, FS_EmptySet DEF n
<1>9. Unwritten = {}
  BY <1>6, <1>8
<1>10. QED
  BY <1>6, <1>9 DEF Whole, CutShort, Unwritten

\* Writing a block into erased flash takes its length off what is owed, unless
\* nothing was in the answer.
LEMMA OwedWrite ==
  ASSUME stored \in [Blocks -> Nat], binLen \in Nat, NEW b \in Blocks, NEW len \in Nat,
         stored[b] = 0, len <= LengthOf(b),
         stored' = [stored EXCEPT ![b] = len], binLen' = binLen + len,
         state = "in_progress", LengthInv, state' = state
  PROVE  LengthInv'
<1> DEFINE S == Unwritten \ {Last}
           T == Unwritten' \ {Last}
<1>1. /\ stored'[b] = len /\ \A c \in Blocks : c # b => stored'[c] = stored[c]
      /\ b \in Unwritten
  BY DEF Unwritten
<1>2. /\ S \in SUBSET Blocks /\ IsFiniteSet(S) /\ Cardinality(S) \in Nat
      /\ BlockLen * Cardinality(S) \in Nat
  <2>1. S \in SUBSET Blocks
    BY DEF Unwritten
  <2>2. QED
    BY <2>1, MissingFinite, LengthTypes
<1>3. /\ Owed = BlockLen * Cardinality(S) + (IF Last \in Unwritten THEN LastLen ELSE 0)
      /\ Owed' = BlockLen * Cardinality(T) + (IF Last \in Unwritten' THEN LastLen ELSE 0)
  BY DEF Owed, Last
<1>4. Owed \in Nat
  BY <1>2, <1>3, LengthTypes
<1>5. CASE len = 0
  <2>1. Unwritten' = Unwritten /\ CutShort' = CutShort
    BY <1>1, <1>5 DEF Unwritten, CutShort
  <2>2. Owed' = Owed
    BY <1>3, <2>1
  <2>3. binLen' = binLen
    BY <1>5
  <2>4. QED
    BY <2>1, <2>2, <2>3 DEF LengthInv
<1>6. CASE len # 0
  <2>1. Unwritten' = Unwritten \ {b}
    BY <1>1, <1>6 DEF Unwritten
  <2>2. Owed' = Owed - LengthOf(b)
    <3>1. CASE b = Last
      <4>1. T = S /\ Last \in Unwritten /\ Last \notin Unwritten'
        BY <1>1, <2>1, <3>1
      <4>2. LengthOf(b) = LastLen
        BY <3>1 DEF LengthOf, Last
      <4>3. Owed = BlockLen * Cardinality(S) + LastLen
        BY <1>3, <4>1
      <4>4. Owed' = BlockLen * Cardinality(S)
        BY <1>2, <1>3, <4>1
      <4>5. QED
        BY <1>2, <4>2, <4>3, <4>4, LengthTypes
    <3>2. CASE b # Last
      <4>1. T = S \ {b} /\ b \in S
        BY <1>1, <2>1, <3>2
      <4>2. Cardinality(S) = Cardinality(T) + 1 /\ Cardinality(T) \in Nat
        <5>1. T \in SUBSET Blocks
          BY <1>2, <4>1
        <5>2. Cardinality(T) \in Nat
          BY <5>1, MissingFinite
        <5>3. Cardinality(S) = Cardinality(S \ {b}) + 1
          BY <1>2, <4>1, TakeOne
        <5>4. QED
          BY <4>1, <5>2, <5>3
      <4>3. (Last \in Unwritten) <=> (Last \in Unwritten')
        BY <2>1, <3>2
      <4>4. LengthOf(b) = BlockLen
        BY <3>2 DEF LengthOf, Last
      <4>5. ASSUME NEW k \in Nat
            PROVE  BlockLen * (k + 1) = BlockLen * k + BlockLen /\ BlockLen * k \in Nat
        BY LengthTypes
      <4> HIDE DEF S, T
      <4>6. BlockLen * Cardinality(S) = BlockLen * Cardinality(T) + BlockLen
            /\ BlockLen * Cardinality(T) \in Nat
        BY <4>2, <4>5
      <4>7. QED
        BY <1>3, <4>3, <4>4, <4>6, LengthTypes
    <3>3. QED
      BY <3>1, <3>2
  <2>3. CutShort' => CutShort \/ len < LengthOf(b)
    BY <1>1, LengthTypes DEF CutShort
  <2>4. /\ LengthOf(b) \in Nat /\ ImageLen \in Nat
        /\ binLen + Owed <= ImageLen
        /\ CutShort => binLen + Owed < ImageLen
    BY LengthTypes DEF LengthInv
  <2>5. /\ binLen' + Owed' <= ImageLen
        /\ CutShort' => binLen' + Owed' < ImageLen
    <3>1. binLen' + Owed' = (binLen + Owed) - (LengthOf(b) - len)
      BY <1>4, <2>2, <2>4
    <3>2. LengthOf(b) - len \in Nat /\ (len < LengthOf(b) => LengthOf(b) - len > 0)
      BY <2>4
    <3>3. binLen + Owed \in Nat
      BY <1>4
    <3>4. QED
      BY <2>3, <2>4, <3>1, <3>2, <3>3
  <2>6. QED
    BY <2>5 DEF LengthInv, ImageLen
<1>7. QED
  BY <1>5, <1>6

LEMMA LengthFrame ==
  ASSUME LengthInv, UNCHANGED <<stored, binLen>>,
         state' = "in_progress" => state = "in_progress"
  PROVE  LengthInv'
<1>1. Unwritten' = Unwritten /\ CutShort' = CutShort
  BY DEF Unwritten, CutShort
<1>2. Owed' = Owed
  BY <1>1 DEF Owed, Last
<1>3. QED
  BY <1>1, <1>2 DEF LengthInv, ImageLen

LEMMA ImageInit == Init => ImageInv
  BY DEF Init, ImageInv, LengthInv, CallbackLen, JudgeInv, Idle

LEMMA ImageStep == TypeInv /\ FlashAll /\ ImageInv /\ [Next]_vars => ImageInv'
<1> SUFFICES ASSUME TypeInv, FlashAll, ImageInv, [Next]_vars PROVE ImageInv'
  OBVIOUS
<1>1. /\ stored \in [Blocks -> Nat] /\ binLen \in Nat /\ cb.block \in Blocks
      /\ cb \in [step : {"idle", "account", "write"}, block : Blocks,
                 len : 0..BlockLen]
      /\ cb.len \in Nat
      /\ pc \in {"begin", "done"} => cb.step = "idle"
  BY BlockTypes DEF TypeInv, TypeOK, StepInv
<1>2. Whole => cb.step = "idle"
  BY <1>1, LengthTypes DEF FlashAll, CallbackInv, Whole
<1>3. CASE StartTransfer
  <2>1. /\ stored' = [b \in Blocks |-> 0] /\ binLen' = 0 /\ cb' = cb
        /\ pc = "start" /\ pc' = "ask" /\ state' = "in_progress" /\ boot' = boot
    BY <1>3 DEF StartTransfer, task
  <2>2. Unwritten' = Blocks /\ ~CutShort'
    BY <2>1 DEF Unwritten, CutShort
  <2>3. Owed' = ImageLen
    <3>1. Cardinality(Blocks \ {Last}) = Last
      BY BlockTypes, LengthTypes, FS_RemoveElement DEF Last
    <3>2. Owed' = BlockLen * Cardinality(Blocks \ {Last})
                    + (IF Last \in Blocks THEN LastLen ELSE 0)
      BY <2>2 DEF Owed, Last
    <3>3. QED
      BY <3>1, <3>2, LengthTypes
  <2>4. LengthInv'
    BY <2>1, <2>2, <2>3, LengthTypes DEF LengthInv, ImageLen
  <2>5. QED
    BY <2>1, <2>4 DEF ImageInv, CallbackLen, JudgeInv
<1>4. ASSUME NEW m \in Answers, BlockArrives(m) PROVE ImageInv'
  <2>1. /\ cb' = [step |-> "account", block |-> m.number, len |-> PayloadLen(m)]
        /\ UNCHANGED <<stored, binLen, state, pc, boot>>
        /\ m # Refusal /\ PayloadLen(m) <= BlockLen
    BY <1>4 DEF BlockArrives, Wanted, task
  <2>2. CallbackLen'
    BY <2>1, PayloadFits DEF CallbackLen
  <2>3. LengthInv'
    BY <2>1, LengthFrame DEF ImageInv
  <2>4. QED
    BY <2>1, <2>2, <2>3 DEF ImageInv, JudgeInv, Whole
<1>5. CASE AccountBlock
  <2>1. /\ cb' = [cb EXCEPT !.step = "write"] /\ cb.step = "account"
        /\ UNCHANGED <<stored, binLen, state, pc, boot>>
    BY <1>5 DEF AccountBlock, task
  <2>2. CallbackLen'
    BY <1>1, <2>1 DEF ImageInv, CallbackLen
  <2>3. LengthInv'
    BY <2>1, LengthFrame DEF ImageInv
  <2>4. QED
    BY <2>1, <2>2, <2>3 DEF ImageInv, JudgeInv, Whole
<1>6. CASE WriteBlock
  <2>1. /\ cb.step = "write" /\ cb' = Idle
        /\ stored' = [stored EXCEPT ![cb.block] = cb.len]
        /\ binLen' = binLen + cb.len /\ UNCHANGED <<state, pc, boot>>
    BY <1>6 DEF WriteBlock, task
  <2>2. stored[cb.block] = 0 /\ cb.len <= LengthOf(cb.block)
    BY <2>1 DEF FlashAll, CallbackInv, ImageInv, CallbackLen
  <2>3. LengthInv'
    <3>1. CASE state = "in_progress"
      BY <1>1, <2>1, <2>2, <3>1, OwedWrite DEF ImageInv
    <3>2. CASE state # "in_progress"
      BY <2>1, <3>2 DEF LengthInv
    <3>3. QED
      BY <3>1, <3>2
  <2>4. ~Whole
    BY <1>2, <2>1
  <2>5. QED
    BY <2>1, <2>3, <2>4 DEF ImageInv, CallbackLen, JudgeInv, Idle
<1>7. CASE CheckLength
  <2>1. /\ pc = "length" /\ state = "in_progress" /\ ~boot
        /\ UNCHANGED <<stored, binLen, boot, cb>>
    BY <1>7 DEF CheckLength, progress, ImageInv, JudgeInv
  <2>2. LengthInv'
    BY <2>1, LengthFrame DEF ImageInv
  <2>3. CASE binLen = ImageLen
    <3>1. Whole
      BY <1>1, <2>1, <2>3, OwedNothing DEF ImageInv
    <3>2. pc' = "end" /\ state' = "success"
      BY <1>7, <2>3 DEF CheckLength
    <3>3. QED
      BY <2>1, <2>2, <3>1, <3>2 DEF ImageInv, CallbackLen, JudgeInv, Whole
  <2>4. CASE binLen # ImageLen
    <3>1. pc' = "ask" /\ state' = state
      BY <1>7, <2>4 DEF CheckLength
    <3>2. QED
      BY <2>1, <2>2, <3>1 DEF ImageInv, CallbackLen, JudgeInv
  <2>5. QED
    BY <2>3, <2>4
<1>8. CASE End
  <2>0. boot \in BOOLEAN
    BY DEF TypeInv, TypeOK
  <2>1. /\ pc = "end" /\ UNCHANGED <<stored, binLen, state, cb>>
        /\ \/ pc' = "done" /\ boot' = boot
           \/ pc' = "begin" /\ boot' = boot
           \/ pc' = "done" /\ state = "success"
    BY <1>8, <2>0 DEF End, progress
  <2>2. LengthInv'
    BY <2>1, LengthFrame DEF ImageInv
  <2>3. QED
    BY <2>1, <2>2 DEF ImageInv, CallbackLen, JudgeInv, Whole
<1>9. CASE /\ UNCHANGED <<stored, binLen, boot>> /\ cb' \in {cb, Idle}
           /\ state' \in {state, "begin", "failed"}
           /\ boot => pc' = pc
           /\ pc' \in {"ask", "wait", "check", "length"} =>
                pc \in {"ask", "wait", "check", "length"} /\ state' = state
  <2>1. LengthInv'
    BY <1>9, LengthFrame DEF ImageInv
  <2>2. CallbackLen'
    BY <1>9 DEF ImageInv, CallbackLen, Idle
  <2>3. JudgeInv'
    BY <1>9 DEF ImageInv, JudgeInv, Whole
  <2>4. QED
    BY <2>1, <2>2, <2>3 DEF ImageInv
<1>10. CASE Begin
  <2>1. /\ UNCHANGED <<stored, boot, cb>> /\ state' = "begin" /\ pc' = "header"
        /\ pc = "begin"
    BY <1>10 DEF Begin
  <2>2. QED
    BY <2>1 DEF ImageInv, LengthInv, CallbackLen, JudgeInv
<1>11. CASE Task /\ ~StartTransfer /\ ~CheckLength /\ ~End /\ ~Begin
  <2>1. boot => pc = "done"
    BY DEF ImageInv, JudgeInv
  <2>2. QED
    BY <1>9, <1>11, <2>1
    DEF Task, task, window, progress, Abort, BeginFails, AskHeader, TakeHeader,
        NoHeader, EraseFails, AskBlocks, PublishFails, CountBlock, FetchFails,
        Timeout, OutOfRetries, CheckWindow
<1>12. QED
  BY <1>3, <1>4, <1>5, <1>6, <1>7, <1>8, <1>9, <1>10, <1>11
  DEF Next, Callback, Network, Done, vars, task, window, progress, IgnoreBlock,
      HeaderArrives, DuplicateArrives, WriteFails, RefusalArrives, Lose

\* The node boots only an image of which every block is in flash at its full
\* length, whatever the length of the image, of a block and of the header, and
\* although answers to another request or of another attempt may be stored.
THEOREM MqttOtaBootsWholeImage == Spec => []BootsWholeImage
<1>1. Init => FlashAll
  BY DEF Init, FlashAll, CallbackInv, FlashInv, QuietInv, Idle
<1>2. Spec => [](TypeInv /\ FlashAll /\ ImageInv)
  BY <1>1, TypeInit, TypeStep, FlashStep, ImageInit, ImageStep, PTL DEF Spec
<1>3. ImageInv => BootsWholeImage
  BY DEF ImageInv, JudgeInv, BootsWholeImage, Whole
<1>4. QED
  BY <1>2, <1>3, PTL
=============================================================================
