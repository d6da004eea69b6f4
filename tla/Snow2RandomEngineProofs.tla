---------------------- MODULE Snow2RandomEngineProofs ----------------------
(***************************************************************************)
(* What holds of fillBytes of the SNOW 2 engine for every keystream, every *)
(* size of batches and every sequence of requests; and of its cipher       *)
(* (Snow2Registers) for every table, seed and size of bytes.               *)
(***************************************************************************)
EXTENDS Snow2RandomEngine, Snow2Registers, KeystreamsProofs

\* The bytes of the keystream that were copied to callers.
Given == IF pc = "idle" THEN position ELSE position + Len(output)

\* What a batch may hold.
BatchBytes == BytesOf(Keystream) \cup {NoByte}

\* The batch is the last one the cipher was clocked for, and what is left of
\* it comes after what was given.
BatchInv ==
  /\ batch \in Seq(BatchBytes) /\ Len(batch) = BatchSize
  /\ batches > 0 => batch = Segment(Keystream, BatchSize * (batches - 1), BatchSize)
  /\ Given + haveData = BatchSize * batches

\* Where fillBytes is, what is left of the batch and of the request.
PhaseInv ==
  /\ pc \in {"idle", "empty"} => size = 0
  /\ pc \in {"idle", "empty", "leftover"} => haveData < BatchSize
  /\ pc \in {"empty", "leftover"} => output = <<>>
  /\ pc \in {"leftover", "chunks"} => size > 0
  /\ pc = "chunks" => haveData = BatchSize

\* What the caller's memory holds.
OutputInv ==
  /\ pc = "idle" => /\ Len(output) <= position
                    /\ position <= MaxBytes
                    /\ output = Segment(Keystream, position - Len(output), Len(output))
  /\ pc # "idle" => /\ position + Len(output) + size <= MaxBytes
                    /\ output = Segment(Keystream, position, Len(output))

IInv == TypeOK /\ BatchInv /\ PhaseInv /\ OutputInv

-----------------------------------------------------------------------------
(* The constructor establishes the invariant.                              *)
LEMMA InitInv == Init => IInv
<1> SUFFICES ASSUME Init PROVE IInv OBVIOUS
<1> USE Snow2Assumption DEF Init
<1>1. TypeOK BY DEF TypeOK
<1>2. BatchInv
  <2>1. batch \in [1..BatchSize -> BatchBytes] BY DEF BatchBytes
  <2>2. batch \in Seq(BatchBytes) /\ Len(batch) = BatchSize BY <2>1
  <2>3. Given = 0 /\ BatchSize * 0 = 0 BY DEF Given
  <2> QED BY <2>2, <2>3 DEF BatchInv
<1>3. PhaseInv BY DEF PhaseInv
<1>4. OutputInv BY SegmentEmpty DEF OutputInv
<1> QED BY <1>1, <1>2, <1>3, <1>4 DEF IInv

(* What the invariant says of the numbers.                                 *)
LEMMA Numbers ==
  ASSUME IInv
  PROVE  /\ BatchSize \in Nat \ {0} /\ MaxBytes \in Nat
         /\ batches \in Nat /\ haveData \in Nat /\ haveData <= BatchSize
         /\ size \in Nat /\ position \in Nat /\ Len(output) \in Nat /\ Given \in Nat
BY Snow2Assumption DEF IInv, TypeOK, Given

(* A segment of the keystream that ends before MaxBytes has the type of    *)
(* output.                                                                 *)
LEMMA OutputType ==
  ASSUME NEW from \in Nat, NEW n \in Nat, from + n <= MaxBytes
  PROVE  /\ Segment(Keystream, from, n) \in Seq({Keystream[i] : i \in 0..MaxBytes})
         /\ Len(Segment(Keystream, from, n)) = n
<1>1. MaxBytes \in Nat BY Snow2Assumption
<1>2. \A i \in from..(from + n - 1) : Keystream[i] \in {Keystream[j] : j \in 0..MaxBytes}
  BY <1>1
<1> QED BY <1>2, SegmentIsSeq

(* What is left of the batch, from its start on, is what comes next.       *)
LEMMA LeftOfBatch ==
  ASSUME IInv, NEW n \in 0..haveData
  PROVE  SubSeq(batch, BatchSize - haveData + 1, BatchSize - haveData + n)
           = Segment(Keystream, Given, n)
<1>1. /\ BatchSize \in Nat \ {0} /\ batches \in Nat /\ haveData \in Nat
      /\ haveData <= BatchSize /\ Given \in Nat /\ n \in Nat /\ n <= haveData
      /\ Given + haveData = BatchSize * batches
  BY Numbers DEF IInv, BatchInv
<1>2. CASE batches = 0
  <2>1. haveData = 0 /\ n = 0 BY <1>1, <1>2
  <2>2. /\ SubSeq(batch, BatchSize + 1, BatchSize) \in Seq(BatchBytes)
        /\ Len(SubSeq(batch, BatchSize + 1, BatchSize)) = 0
    <3>1. \A i \in (BatchSize + 1)..BatchSize : batch[i] \in BatchBytes BY <1>1
    <3>2. BatchSize + 1 \in Int /\ BatchSize \in Int
          /\ BatchSize - (BatchSize + 1) + 1 = 0
      BY <1>1
    <3> QED BY <3>1, <3>2, SubSeqProperties, Z3 DEF IInv, BatchInv
  <2>3. SubSeq(batch, BatchSize + 1, BatchSize) = <<>> BY <2>2, EmptySeq
  <2>4. BatchSize - 0 + 1 = BatchSize + 1 /\ BatchSize - 0 + 0 = BatchSize
    BY <1>1
  <2> QED BY <2>1, <2>3, <2>4, <1>1, SegmentEmpty
<1>3. CASE batches # 0
  <2> DEFINE from == BatchSize * (batches - 1)
             k == BatchSize - haveData
  <2>1. batch = Segment(Keystream, from, BatchSize)
    BY <1>1, <1>3 DEF IInv, BatchInv
  <2>2. BatchSize * (batches - 1) = BatchSize * batches - BatchSize
    BY <1>1, <1>3
  <2>3. /\ from \in Nat /\ BatchSize \in Nat /\ k \in 0..BatchSize
        /\ n \in 0..(BatchSize - k) /\ from + k = Given
    BY <1>1, <1>3, <2>2
  <2> HIDE DEF from, k
  <2>4. SubSeq(Segment(Keystream, from, BatchSize), k + 1, k + n)
          = Segment(Keystream, from + k, n)
    BY ONLY <2>3, SegmentPart
  <2> QED BY <2>1, <2>3, <2>4 DEF k
<1> QED BY <1>2, <1>3

(* Giving n bytes of the batch continues the output.                       *)
LEMMA GiveLemma ==
  ASSUME IInv, pc # "idle", NEW n \in 0..haveData, n <= size,
         Give(BatchSize - haveData, n)
  PROVE  /\ output' = Segment(Keystream, position, Len(output) + n)
         /\ output' \in Seq({Keystream[i] : i \in 0..MaxBytes})
         /\ Len(output') = Len(output) + n
<1>1. /\ position \in Nat /\ Len(output) \in Nat /\ n \in Nat /\ size \in Nat
      /\ Given = position + Len(output) /\ MaxBytes \in Nat
      /\ position + Len(output) + size <= MaxBytes
  BY Numbers DEF Given, IInv, OutputInv
<1>2. output = Segment(Keystream, position, Len(output))
  BY DEF IInv, OutputInv
<1>3. output' = output \o Segment(Keystream, Given, n)
  BY LeftOfBatch DEF Give
<1> DEFINE m == Len(output)
<1>4. m \in Nat /\ Given = position + m BY <1>1
<1>5. output' = Segment(Keystream, position, m)
                  \o Segment(Keystream, position + m, n)
  BY <1>2, <1>3, <1>4
<1> HIDE DEF m
<1>6. Segment(Keystream, position, m) \o Segment(Keystream, position + m, n)
        = Segment(Keystream, position, m + n)
  BY ONLY <1>1, <1>4, SegmentConcat, ZenonT(30)
<1>7. m + n \in Nat /\ position + (m + n) <= MaxBytes BY <1>1, <1>4 DEF m
<1> QED BY <1>1, <1>5, <1>6, <1>7, OutputType DEF m

(* The next batch continues where the last one was used up.                *)
LEMMA GenerateLemma ==
  ASSUME IInv, Generate, Given' = Given + haveData
  PROVE  BatchInv' /\ batches' \in Nat /\ haveData' = BatchSize
                   /\ DOMAIN batch' = 1..BatchSize
<1>1. /\ BatchSize \in Nat \ {0} /\ batches \in Nat /\ haveData \in Nat
      /\ Given \in Nat /\ Given + haveData = BatchSize * batches
      /\ BatchSize * batches \in Nat
  BY Numbers DEF IInv, BatchInv
<1>2. /\ batch' = Segment(Keystream, BatchSize * batches, BatchSize)
      /\ batches' = batches + 1 /\ haveData' = BatchSize
  BY DEF Generate
<1>3. /\ batch' \in Seq(BytesOf(Keystream)) /\ Len(batch') = BatchSize
  BY <1>1, <1>2, SegmentProperties
<1>4. batch' \in Seq(BatchBytes)
  <2>1. \A i \in 1..BatchSize : batch'[i] \in BatchBytes BY <1>3 DEF BatchBytes
  <2> QED BY <1>3, <2>1
<1>5. BatchSize * (batches + 1) = BatchSize * batches + BatchSize BY <1>1
<1>6. (batches + 1) - 1 = batches BY <1>1
<1>7. Given' + haveData' = BatchSize * batches' BY <1>1, <1>2, <1>5
<1>8. batch' = Segment(Keystream, BatchSize * (batches' - 1), BatchSize)
  BY <1>2, <1>6
<1>9. BatchInv' BY <1>3, <1>4, <1>7, <1>8 DEF BatchInv, BatchBytes, BytesOf
<1> QED BY <1>1, <1>2, <1>3, <1>9

(* Steps that leave the batch where it is.                                 *)
LEMMA BatchKept ==
  ASSUME IInv, UNCHANGED <<batches, batch>>,
         Given' + haveData' = Given + haveData
  PROVE  BatchInv'
BY DEF IInv, BatchInv, BatchBytes, BytesOf

-----------------------------------------------------------------------------
(* A call starts with nothing copied.                                      *)
LEMMA FillBytesInv ==
  ASSUME IInv, NEW n \in 0..MaxRequest, FillBytes(n)
  PROVE  IInv'
<1>1. /\ pc = "idle" /\ pc' = IF n = 0 THEN "empty" ELSE "leftover"
      /\ position + n <= MaxBytes /\ size' = n /\ output' = <<>>
      /\ UNCHANGED <<batches, batch, haveData, position>>
  BY DEF FillBytes
<1>2. n \in Nat /\ position \in Nat /\ haveData \in Nat
  BY Snow2Assumption, Numbers
<1>3. TypeOK' BY <1>1, <1>2 DEF IInv, TypeOK
<1>4. Given' = Given BY <1>1, <1>2 DEF Given
<1>5. BatchInv' BY <1>1, <1>4, BatchKept
<1>6. PhaseInv' BY <1>1, <1>2 DEF IInv, PhaseInv
<1>7. OutputInv'
  <2>1. Segment(Keystream, position, 0) = <<>> BY <1>2, SegmentEmpty
  <2> QED BY <1>1, <1>2, <2>1 DEF OutputInv
<1> QED BY <1>3, <1>5, <1>6, <1>7 DEF IInv

(* The early return has nothing to give.                                   *)
LEMMA ReturnEmptyInv == IInv /\ ReturnEmpty => IInv'
<1> SUFFICES ASSUME IInv, ReturnEmpty PROVE IInv' OBVIOUS
<1>1. /\ pc = "empty" /\ pc' = "idle" /\ position' = position + Len(output)
      /\ UNCHANGED <<batches, batch, haveData, size, output>>
  BY DEF ReturnEmpty, Return
<1>2. size = 0 /\ output = <<>> /\ position \in Nat /\ position <= MaxBytes
      /\ MaxBytes \in Nat
  BY <1>1, Numbers DEF IInv, PhaseInv, OutputInv
<1>3. position' = position BY <1>1, <1>2
<1>4. TypeOK' BY <1>1, <1>3 DEF IInv, TypeOK
<1>5. Given' = Given BY <1>1, <1>2, <1>3 DEF Given
<1>6. BatchInv' BY <1>1, <1>5, BatchKept
<1>7. PhaseInv' BY <1>1 DEF IInv, PhaseInv
<1>8. OutputInv'
  <2>1. Segment(Keystream, position, 0) = <<>> BY <1>2, SegmentEmpty
  <2>2. position - 0 = position BY <1>2
  <2> QED BY <1>1, <1>2, <1>3, <2>1, <2>2 DEF OutputInv
<1> QED BY <1>4, <1>6, <1>7, <1>8 DEF IInv

(* A return from a step that gave the rest of the request from the batch.  *)
LEMMA LastGiveInv ==
  ASSUME IInv, pc # "idle", size <= haveData, size > 0,
         Give(BatchSize - haveData, size),
         haveData' = haveData - size, size' = 0, Return,
         UNCHANGED <<batches, batch>>
  PROVE  IInv'
<1>1. /\ size \in Nat /\ haveData \in Nat /\ haveData <= BatchSize
      /\ BatchSize \in Nat /\ position \in Nat /\ Len(output) \in Nat
      /\ Given = position + Len(output) /\ MaxBytes \in Nat
      /\ position + Len(output) + size <= MaxBytes
  BY Numbers DEF Given, IInv, OutputInv
<1>2. /\ output' = Segment(Keystream, position, Len(output) + size)
      /\ output' \in Seq({Keystream[i] : i \in 0..MaxBytes})
      /\ Len(output') = Len(output) + size
  <2>1. size \in 0..haveData /\ size <= size BY <1>1
  <2> QED BY <2>1, GiveLemma
<1>3. pc' = "idle" /\ position' = position + (Len(output) + size)
  BY <1>2 DEF Return
<1>4. TypeOK' BY <1>1, <1>2, <1>3 DEF IInv, TypeOK
<1>5. Given' + haveData' = Given + haveData BY <1>1, <1>3 DEF Given
<1>6. BatchInv' BY <1>5, BatchKept
<1>7. PhaseInv' BY <1>1, <1>3 DEF PhaseInv
<1>8. OutputInv'
  <2>1. position' - Len(output') = position BY <1>1, <1>2, <1>3
  <2>2. /\ Len(output') <= position' /\ position' <= MaxBytes
    BY <1>1, <1>2, <1>3
  <2>3. output' = Segment(Keystream, position' - Len(output'), Len(output'))
    BY <2>1, <1>2
  <2> QED BY <2>2, <2>3, <1>3 DEF OutputInv
<1> QED BY <1>4, <1>6, <1>7, <1>8 DEF IInv

(* A step that gives all of the batch and makes the next one.              *)
LEMMA NextBatchInv ==
  ASSUME IInv, pc # "idle", pc' = "chunks", size > haveData,
         Give(BatchSize - haveData, haveData),
         size' = size - haveData, Generate, UNCHANGED position
  PROVE  IInv'
<1>1. /\ size \in Nat /\ haveData \in Nat /\ haveData <= BatchSize
      /\ BatchSize \in Nat /\ position \in Nat /\ Len(output) \in Nat
      /\ Given = position + Len(output) /\ MaxBytes \in Nat
      /\ position + Len(output) + size <= MaxBytes
  BY Numbers DEF Given, IInv, OutputInv
<1>2. /\ output' = Segment(Keystream, position, Len(output) + haveData)
      /\ output' \in Seq({Keystream[i] : i \in 0..MaxBytes})
      /\ Len(output') = Len(output) + haveData
  <2>1. haveData \in 0..haveData /\ haveData <= size BY <1>1
  <2> QED BY <2>1, GiveLemma
<1>3. Given' = Given + haveData BY <1>1, <1>2 DEF Given
<1>4. /\ BatchInv' /\ batches' \in Nat /\ haveData' = BatchSize
      /\ DOMAIN batch' = 1..BatchSize
  BY <1>3, GenerateLemma
<1>5. size' \in Nat /\ size' > 0 BY <1>1
<1>6. TypeOK' BY <1>1, <1>2, <1>4, <1>5 DEF IInv, TypeOK
<1>7. PhaseInv' BY <1>4, <1>5 DEF PhaseInv
<1>8. OutputInv'
  <2>1. position' + Len(output') + size' <= MaxBytes BY <1>1, <1>2
  <2> QED BY <2>1, <1>2 DEF OutputInv
<1> QED BY <1>4, <1>6, <1>7, <1>8 DEF IInv

-----------------------------------------------------------------------------
(* The actions, each by one of the two lemmas.                             *)
LEMMA ServeFromLeftoverInv == IInv /\ ServeFromLeftover => IInv'
<1> SUFFICES ASSUME IInv, ServeFromLeftover PROVE IInv' OBVIOUS
<1>1. /\ pc # "idle" /\ size <= haveData /\ size > 0
      /\ Give(BatchSize - haveData, size) /\ Return
      /\ haveData' = haveData - size /\ size' = 0 /\ UNCHANGED <<batches, batch>>
  BY DEF ServeFromLeftover, IInv, PhaseInv
<1> QED BY <1>1, LastGiveInv

(* A leftover request finds a batch that was begun or used up, so the full *)
(* batch the code provides for is never met.                               *)
LEMMA DrainLeftoverInv == IInv /\ DrainLeftover => IInv'
<1> SUFFICES ASSUME IInv, DrainLeftover PROVE IInv' OBVIOUS
<1>1. pc = "leftover" /\ haveData < BatchSize
  BY DEF DrainLeftover, IInv, PhaseInv
<1>2. /\ pc # "idle" /\ pc' = "chunks" /\ size > haveData
      /\ Give(BatchSize - haveData, haveData) /\ size' = size - haveData
      /\ Generate /\ UNCHANGED position
  BY <1>1 DEF DrainLeftover
<1> QED BY <1>2, NextBatchInv

(* In the last phase the batch is given from its start.                    *)
LEMMA ServeBatchInv == IInv /\ ServeBatch => IInv'
<1> SUFFICES ASSUME IInv, ServeBatch PROVE IInv' OBVIOUS
<1>1. pc = "chunks" /\ haveData = BatchSize /\ BatchSize \in Nat
  BY Numbers DEF ServeBatch, IInv, PhaseInv
<1>2. BatchSize - haveData = 0 BY <1>1
<1>3. /\ pc # "idle" /\ pc' = "chunks" /\ size > haveData
      /\ Give(BatchSize - haveData, haveData) /\ size' = size - haveData
      /\ Generate /\ UNCHANGED position
  BY <1>1, <1>2 DEF ServeBatch
<1> QED BY <1>3, NextBatchInv

LEMMA ServeRestInv == IInv /\ ServeRest => IInv'
<1> SUFFICES ASSUME IInv, ServeRest PROVE IInv' OBVIOUS
<1>1. /\ pc = "chunks" /\ haveData = BatchSize /\ BatchSize \in Nat /\ size > 0
  BY Numbers DEF ServeRest, IInv, PhaseInv
<1>2. BatchSize - haveData = 0 BY <1>1
<1>3. /\ pc # "idle" /\ size <= haveData
      /\ Give(BatchSize - haveData, size) /\ Return
      /\ haveData' = haveData - size /\ size' = 0 /\ UNCHANGED <<batches, batch>>
  BY <1>1, <1>2 DEF ServeRest
<1> QED BY <1>1, <1>3, LastGiveInv

LEMMA StutterInv == IInv /\ UNCHANGED vars => IInv'
BY DEF vars, IInv, TypeOK, BatchInv, PhaseInv, OutputInv, BatchBytes, BytesOf, Given

LEMMA NextInv == IInv /\ [Next]_vars => IInv'
<1> SUFFICES ASSUME IInv, [Next]_vars PROVE IInv' OBVIOUS
<1>1. ASSUME NEW n \in 0..MaxRequest, FillBytes(n) PROVE IInv'
  BY <1>1, FillBytesInv
<1>2. CASE ReturnEmpty BY <1>2, ReturnEmptyInv
<1>3. CASE ServeFromLeftover BY <1>3, ServeFromLeftoverInv
<1>4. CASE DrainLeftover BY <1>4, DrainLeftoverInv
<1>5. CASE ServeBatch BY <1>5, ServeBatchInv
<1>6. CASE ServeRest BY <1>6, ServeRestInv
<1>7. CASE UNCHANGED vars BY <1>7, StutterInv
<1> QED BY <1>1, <1>2, <1>3, <1>4, <1>5, <1>6, <1>7 DEF Next

LEMMA Invariance == Spec => []IInv
<1>1. Init => IInv BY InitInv
<1>2. IInv /\ [Next]_vars => IInv' BY NextInv
<1> QED BY <1>1, <1>2, PTL DEF Spec

-----------------------------------------------------------------------------
(* The variables of the engine have their types: haveData never leaves the *)
(* batch.                                                                  *)
THEOREM TypeCorrect == Spec => []TypeOK
<1>1. IInv => TypeOK BY DEF IInv
<1> QED BY <1>1, Invariance, PTL

(* The assertions between the phases of fillBytes: its last phase finds a  *)
(* full batch and something to give.                                       *)
THEOREM LastPhaseFindsFullBatch == Spec => []BatchIsFull
<1>1. IInv => BatchIsFull BY DEF IInv, PhaseInv, BatchIsFull
<1> QED BY <1>1, Invariance, PTL

(* The cipher is clocked only for bytes that are wanted.                   *)
THEOREM NoBatchTooEarly == Spec => []MadeOnDemand
<1>1. IInv => MadeOnDemand
  BY DEF IInv, PhaseInv, BatchInv, Given, MadeOnDemand
<1> QED BY <1>1, Invariance, PTL

-----------------------------------------------------------------------------
(* A step that ends the call has handed out what the call asked for.       *)
LEMMA ReturnStep ==
  ASSUME IInv, IInv', pc # "idle", pc' = "idle",
         Len(output') = Len(output) + size, size' = 0,
         position' = position + Len(output')
  PROVE  Engine!Return
<1> DEFINE n == Len(output) + size
<1>1. /\ position \in Nat /\ Len(output) \in Nat /\ size \in Nat BY Numbers
<1>2. output' = Segment(Keystream, position' - Len(output'), Len(output'))
  BY DEF IInv, OutputInv
<1>3. position' - Len(output') = position BY <1>1
<1>4. output' = Segment(Keystream, position, n) BY <1>2, <1>3
<1>5. Len(output') + size' = n BY <1>1
<1>6. position' = position + n OBVIOUS
<1> QED BY <1>4, <1>5, <1>6 DEF Engine!Return, Engine!Segment, Segment

(* Every step of fillBytes is a step of a RandomEngine or leaves it alone. *)
LEMMA EngineStep == IInv /\ [Next]_vars => [Engine!Next]_(Engine!vars)
<1> SUFFICES ASSUME IInv, [Next]_vars
             PROVE  Engine!Next \/ UNCHANGED Engine!vars
  OBVIOUS
<1>0. /\ IInv' /\ size \in Nat /\ haveData \in Nat /\ Len(output) \in Nat
      /\ BatchSize \in Nat
  BY NextInv, Numbers
<1>1. ASSUME NEW n \in 0..MaxRequest, FillBytes(n) PROVE Engine!Call(n)
  <2>1. /\ pc = "idle" /\ pc' # "idle" /\ size' = n /\ output' = <<>>
        /\ UNCHANGED position
    BY <1>1 DEF FillBytes
  <2>2. n \in Nat BY Snow2Assumption
  <2>3. Len(output') + size' = n BY <2>1, <2>2
  <2> QED BY <2>1, <2>3 DEF Engine!Call
<1>2. CASE ReturnEmpty
  <2>1. /\ pc = "empty" /\ pc' = "idle" /\ position' = position + Len(output')
        /\ UNCHANGED <<size, output>> /\ size = 0
    BY <1>2 DEF ReturnEmpty, Return, IInv, PhaseInv
  <2>2. Len(output') = Len(output) + size BY <1>0, <2>1
  <2> QED BY <1>0, <2>1, <2>2, ReturnStep DEF Engine!Next
<1>3. CASE ServeFromLeftover
  <2>1. /\ pc = "leftover" /\ pc' = "idle" /\ position' = position + Len(output')
        /\ Give(BatchSize - haveData, size) /\ size' = 0 /\ size <= haveData
    BY <1>3 DEF ServeFromLeftover, Return
  <2>2. size \in 0..haveData /\ size <= size BY <1>0, <2>1
  <2>3. Len(output') = Len(output) + size BY <2>1, <2>2, GiveLemma
  <2> QED BY <1>0, <2>1, <2>3, ReturnStep DEF Engine!Next
<1>4. CASE DrainLeftover
  <2>1. pc = "leftover" /\ haveData < BatchSize
    BY <1>4 DEF DrainLeftover, IInv, PhaseInv
  <2>2. /\ pc' = "chunks" /\ size > haveData
        /\ Give(BatchSize - haveData, haveData) /\ size' = size - haveData
        /\ UNCHANGED position
    BY <1>4, <2>1 DEF DrainLeftover
  <2>3. haveData \in 0..haveData /\ haveData <= size BY <1>0, <2>2
  <2>4. Len(output') = Len(output) + haveData BY <2>1, <2>2, <2>3, GiveLemma
  <2>5. Len(output') + size' = Len(output) + size BY <1>0, <2>2, <2>4
  <2> QED BY <2>1, <2>2, <2>5 DEF Engine!vars
<1>5. CASE ServeBatch
  <2>1. pc = "chunks" /\ haveData = BatchSize
    BY <1>5 DEF ServeBatch, IInv, PhaseInv
  <2>2. BatchSize - haveData = 0 BY <1>0, <2>1
  <2>3. /\ pc' = "chunks" /\ size > haveData
        /\ Give(BatchSize - haveData, haveData) /\ size' = size - haveData
        /\ UNCHANGED position
    BY <1>5, <2>1, <2>2 DEF ServeBatch
  <2>4. haveData \in 0..haveData /\ haveData <= size BY <1>0, <2>3
  <2>5. Len(output') = Len(output) + haveData BY <2>1, <2>3, <2>4, GiveLemma
  <2>6. Len(output') + size' = Len(output) + size BY <1>0, <2>3, <2>5
  <2> QED BY <2>1, <2>3, <2>6 DEF Engine!vars
<1>6. CASE ServeRest
  <2>1. pc = "chunks" /\ haveData = BatchSize
    BY <1>6 DEF ServeRest, IInv, PhaseInv
  <2>2. BatchSize - haveData = 0 BY <1>0, <2>1
  <2>3. /\ pc' = "idle" /\ position' = position + Len(output')
        /\ Give(BatchSize - haveData, size) /\ size' = 0 /\ size <= haveData
    BY <1>6, <2>1, <2>2 DEF ServeRest, Return
  <2>4. size \in 0..haveData /\ size <= size BY <1>0, <2>3
  <2>5. Len(output') = Len(output) + size BY <2>1, <2>3, <2>4, GiveLemma
  <2> QED BY <1>0, <2>1, <2>3, <2>5, ReturnStep DEF Engine!Next
<1>7. CASE UNCHANGED vars BY <1>7 DEF vars, Engine!vars
<1> QED BY <1>1, <1>2, <1>3, <1>4, <1>5, <1>6, <1>7 DEF Next, Engine!Next

(* fillBytes of the SNOW 2 engine hands out the bytes of the cipher, each  *)
(* once and in order, however the requests fall on the batches.            *)
THEOREM ImplementsRandomEngine == Spec => EngineSpec
<1>1. Init => Engine!Init
  <2> SUFFICES ASSUME Init PROVE Engine!Init OBVIOUS
  <2>1. Len(output) + size = 0 BY DEF Init
  <2> QED BY <2>1 DEF Init, Engine!Init
<1>2. IInv /\ [Next]_vars => [Engine!Next]_(Engine!vars) BY EngineStep
<1> QED BY <1>1, <1>2, Invariance, PTL DEF Spec, EngineSpec, Engine!Spec

-----------------------------------------------------------------------------
(* The clocking of the registers.                                          *)

\* Where the loops are, and that s and keystream have 16 words; keystream has
\* none before the first batch.
LoopInv ==
  /\ stage \in {"mix", "clock", "idle"}
  /\ word \in 0..15
  /\ loopCounter \in Nat
  /\ stage = "mix" => loopCounter < 2
  /\ stage = "idle" => word = 0
  /\ s = [k \in 0..15 |-> s[k]]
  /\ keystream = [k \in 0..15 |-> keystream[k]]
  /\ stage = "mix" => keystream = [k \in 0..15 |-> NoWord]

LEMMA LoopInitInv == RegistersInit => LoopInv
BY DEF RegistersInit, LoopInv, Load

LEMMA LoopNextInv == LoopInv /\ [RegistersNext]_registersVars => LoopInv'
<1> SUFFICES ASSUME LoopInv, [RegistersNext]_registersVars PROVE LoopInv' OBVIOUS
<1> USE DEF LoopInv
<1>1. CASE MixClock
  <2>1. (word + 1) % 16 \in 0..15 /\ (word = 15 => (word + 1) % 16 = 0) OBVIOUS
  <2>2. s' = [k \in 0..15 |-> s'[k]] BY <1>1 DEF MixClock
  <2> QED BY <1>1, <2>1, <2>2 DEF MixClock
<1>2. CASE StartBatch BY <1>2 DEF StartBatch, registers
<1>3. CASE KeystreamClock
  <2>1. (word + 1) % 16 \in 0..15 /\ (word = 15 => (word + 1) % 16 = 0) OBVIOUS
  <2>2. s' = [k \in 0..15 |-> s'[k]] BY <1>3 DEF KeystreamClock
  <2>3. keystream' = [k \in 0..15 |-> keystream'[k]] BY <1>3 DEF KeystreamClock
  <2> QED BY <1>3, <2>1, <2>2, <2>3 DEF KeystreamClock
<1>4. CASE UNCHANGED registersVars BY <1>4 DEF registersVars, registers
<1> QED BY <1>1, <1>2, <1>3, <1>4 DEF RegistersNext

\* Counting from the word after w instead of from w.
LEMMA RingSuccessor ==
  ASSUME NEW w \in 0..15
  PROVE  /\ \A k \in 0..14 : (((w + 1) % 16) + k) % 16 = (w + (k + 1)) % 16
         /\ \A k \in 0..14 : (w + (k + 1)) % 16 # w
         /\ (((w + 1) % 16) + 15) % 16 = w
         /\ (w + 0) % 16 = w
         /\ \A k \in 0..15 : (w + k) % 16 \in 0..15
OBVIOUS

\* Overwriting the oldest word shifts the register.
LEMMA OverwriteShifts ==
  ASSUME LoopInv, NEW v, s' = [s EXCEPT ![word] = v], word' = (word + 1) % 16
  PROVE  /\ [k \in 0..15 |-> Tap(k)]' =
              [k \in 0..15 |-> IF k = 15 THEN v
                                         ELSE [j \in 0..15 |-> Tap(j)][k + 1]]
         /\ s'[word] = v
         /\ \A k \in 0..14 : s'[(word + (k + 1)) % 16] = s[(word + (k + 1)) % 16]
<1>1. word \in 0..15 /\ s = [k \in 0..15 |-> s[k]] BY DEF LoopInv
<1>2. s'[word] = v BY <1>1
<1>3. ASSUME NEW k \in 0..14
      PROVE  s'[(word + (k + 1)) % 16] = s[(word + (k + 1)) % 16]
  BY <1>1, RingSuccessor
<1>4. ASSUME NEW k \in 0..15
      PROVE  s'[(word' + k) % 16] =
               IF k = 15 THEN v ELSE [j \in 0..15 |-> Tap(j)][k + 1]
  <2>1. CASE k = 15 BY <1>1, <1>2, <2>1, RingSuccessor
  <2>2. CASE k \in 0..14
    <3>1. k + 1 \in 0..15 /\ k # 15 BY <2>2
    <3>2. [j \in 0..15 |-> Tap(j)][k + 1] = s[(word + (k + 1)) % 16] BY <3>1 DEF Tap
    <3>3. (word' + k) % 16 = (word + (k + 1)) % 16 BY <1>1, <2>2, RingSuccessor
    <3> QED BY <1>3, <2>2, <3>1, <3>2, <3>3
  <2> QED BY <2>1, <2>2
<1> QED BY <1>2, <1>3, <1>4 DEF Tap

LEMMA CipherInit == RegistersInit => Cipher!Init
<1> SUFFICES ASSUME RegistersInit PROVE Cipher!Init OBVIOUS
<1>1. \A k \in 0..15 : (0 + k) % 16 = k OBVIOUS
<1>2. [k \in 0..15 |-> Tap(k)] = Load(seed) BY <1>1 DEF RegistersInit, Tap, Load
<1>3. keystream[(0 + 15) % 16] = NoWord BY DEF RegistersInit
<1> QED BY <1>2, <1>3 DEF RegistersInit, Cipher!Init

LEMMA TapsOfShiftRegister ==
  ASSUME LoopInv
  PROVE  /\ \A k \in 0..15 : [j \in 0..15 |-> Tap(j)][k] = Tap(k)
         /\ Tap(0) = s[word]
         /\ Cipher!Feedback = Feedback
<1>1. Tap(0) = s[word] BY DEF LoopInv, Tap
<1> QED BY <1>1 DEF Cipher!Feedback, Feedback

LEMMA MixClockMixes ==
  ASSUME LoopInv, MixClock
  PROVE  Cipher!Mix
<1> DEFINE v == BitXor(BitXor(Feedback, Plus(r1, Tap(15))), r2)
<1>1. /\ s' = [s EXCEPT ![word] = v] /\ word' = (word + 1) % 16 /\ word \in 0..15
      /\ stage = "mix" /\ loopCounter \in 0..1 /\ keystream' = keystream
      /\ keystream = [k \in 0..15 |-> NoWord]
      /\ r1' = Plus(r2, Tap(5)) /\ r2' = Substitute(r1)
  BY DEF LoopInv, MixClock, NEWRS
<1> HIDE DEF v
<1>2. [k \in 0..15 |-> Tap(k)]' =
        [k \in 0..15 |-> IF k = 15 THEN v ELSE [j \in 0..15 |-> Tap(j)][k + 1]]
  BY <1>1, OverwriteShifts
<1>3. v = BitXor(BitXor(Cipher!Feedback, Plus(r1, [j \in 0..15 |-> Tap(j)][15])), r2)
  BY TapsOfShiftRegister DEF v
<1>4. Cipher!Shift(v)
  BY <1>1, <1>2, TapsOfShiftRegister DEF Cipher!Shift
<1>5. /\ (IF stage = "mix" THEN 16 * loopCounter + word ELSE 32) < 32
      /\ (IF stage = "mix" THEN 16 * loopCounter + word ELSE 32)' =
           (IF stage = "mix" THEN 16 * loopCounter + word ELSE 32) + 1
  BY <1>1 DEF MixClock
<1>6. (keystream[(word + 15) % 16])' = keystream[(word + 15) % 16]
  <2>1. (word + 15) % 16 \in 0..15 /\ (word' + 15) % 16 \in 0..15 BY <1>1
  <2> QED BY <1>1, <2>1
<1> QED BY <1>3, <1>4, <1>5, <1>6 DEF Cipher!Mix

LEMMA KeystreamClockGenerates ==
  ASSUME LoopInv, KeystreamClock
  PROVE  Cipher!Generate
<1>1. /\ s' = [s EXCEPT ![word] = Feedback] /\ word' = (word + 1) % 16 /\ word \in 0..15
      /\ stage = "clock" /\ stage' # "mix"
      /\ keystream = [k \in 0..15 |-> keystream[k]]
      /\ keystream' = [keystream EXCEPT ![word] =
                         BitXor(BitXor(Plus(r1', s'[word]), r2'), Tap(1))]
      /\ r1' = Plus(r2, Tap(5)) /\ r2' = Substitute(r1)
  BY DEF LoopInv, KeystreamClock, NEWRS
<1>2. /\ [k \in 0..15 |-> Tap(k)]' =
           [k \in 0..15 |-> IF k = 15 THEN Feedback ELSE [j \in 0..15 |-> Tap(j)][k + 1]]
      /\ s'[word] = Feedback
  BY <1>1, OverwriteShifts
<1>3. Cipher!Shift(Cipher!Feedback)
  BY <1>1, <1>2, TapsOfShiftRegister DEF Cipher!Shift
<1>4. [k \in 0..15 |-> Tap(k)]'[15] = s'[word] /\ [k \in 0..15 |-> Tap(k)]'[0] = Tap(1)
  <2>1. [j \in 0..15 |-> Tap(j)][0 + 1] = Tap(1) OBVIOUS
  <2> QED BY <1>2, <2>1
<1>5. (keystream[(word + 15) % 16])' = BitXor(BitXor(Plus(r1', s'[word]), r2'), Tap(1))
  <2>1. (word' + 15) % 16 = word BY <1>1, RingSuccessor
  <2> QED BY <1>1, <2>1
<1> QED BY <1>1, <1>3, <1>4, <1>5 DEF Cipher!Generate

LEMMA CipherNext ==
  ASSUME LoopInv, [RegistersNext]_registersVars
  PROVE  [Cipher!Next]_(Cipher!vars)
<1>1. CASE MixClock BY <1>1, MixClockMixes DEF Cipher!Next
<1>2. CASE StartBatch
  <2>1. word' = word /\ UNCHANGED <<s, r1, r2, keystream>> /\ stage # "mix" /\ stage' # "mix"
    BY <1>2 DEF LoopInv, StartBatch, registers
  <2>2. [k \in 0..15 |-> Tap(k)]' = [k \in 0..15 |-> Tap(k)] BY <2>1 DEF Tap
  <2> QED BY <2>1, <2>2 DEF Cipher!vars
<1>3. CASE KeystreamClock BY <1>3, KeystreamClockGenerates DEF Cipher!Next
<1>4. CASE UNCHANGED registersVars
  <2>1. UNCHANGED <<stage, s, r1, r2, loopCounter, word, keystream>>
    BY <1>4 DEF registersVars, registers
  <2>2. [k \in 0..15 |-> Tap(k)]' = [k \in 0..15 |-> Tap(k)] BY <2>1 DEF Tap
  <2> QED BY <2>1, <2>2 DEF Cipher!vars
<1> QED BY <1>1, <1>2, <1>3, <1>4 DEF RegistersNext

\* The engine's registers implement the shift register of SNOW 2, whatever the
\* tables, the seeds and the size of bytes.
THEOREM ImplementsCipher == RegistersSpec => CipherSpec
<1>1. RegistersInit => LoopInv /\ Cipher!Init BY LoopInitInv, CipherInit
<1>2. LoopInv /\ [RegistersNext]_registersVars => LoopInv' BY LoopNextInv
<1>3. LoopInv /\ [RegistersNext]_registersVars => [Cipher!Next]_(Cipher!vars)
  BY CipherNext
<1> QED BY <1>1, <1>2, <1>3, PTL DEF RegistersSpec, CipherSpec, Cipher!Spec
-----------------------------------------------------------------------------
(* The loading of seeds.                                                   *)

(* A byte behind a number is in the range of one more byte.                *)
LEMMA AppendByteType ==
  ASSUME NEW n \in Nat \ {0}, NEW p \in 0..(n - 1), NEW x \in Byte
  PROVE  /\ AppendByte(p, x) \in 0..(n * ByteValues - 1)
         /\ n * ByteValues \in Nat \ {0}
<1>1. ByteValues \in Nat \ {0} /\ x \in 0..(ByteValues - 1)
  BY Snow2RegistersAssumption DEF Byte
<1>2. p \in Nat /\ n \in Nat /\ p + 1 <= n OBVIOUS
<1>3. (p + 1) * ByteValues <= n * ByteValues BY ONLY <1>1, <1>2
<1>4. (p + 1) * ByteValues = p * ByteValues + ByteValues BY ONLY <1>1, <1>2
<1>5. p * ByteValues \in Nat /\ n * ByteValues \in Nat BY ONLY <1>1, <1>2
<1>6. n * ByteValues # 0 BY ONLY <1>1, n \in Nat \ {0}
<1> QED BY ONLY <1>1, <1>3, <1>4, <1>5, <1>6 DEF AppendByte

(* The number and the byte behind it are its quotient and remainder.       *)
LEMMA AppendByteParts ==
  ASSUME NEW p \in Nat, NEW x \in Byte
  PROVE  AppendByte(p, x) \div ByteValues = p /\ AppendByte(p, x) % ByteValues = x
<1>1. ByteValues \in Nat \ {0} /\ x \in 0..(ByteValues - 1)
  BY Snow2RegistersAssumption DEF Byte
<1>2. p * ByteValues = ByteValues * p BY ONLY <1>1
<1>3. (ByteValues * p + x) \div ByteValues = p /\ (ByteValues * p + x) % ByteValues = x
  BY ONLY <1>1, DivisionUnique, p \in Nat
<1> QED BY <1>2, <1>3 DEF AppendByte

(* The bytes of a word.                                                    *)
Front(v) == v \div ByteValues
Last(v) == v % ByteValues

(* Four bytes make a word, which has these bytes.                          *)
LEMMA WordOfBytes ==
  ASSUME NEW a \in Byte, NEW b \in Byte, NEW c \in Byte, NEW d \in Byte
  PROVE  /\ WordOf(a, b, c, d) \in Word
         /\ d = Last(WordOf(a, b, c, d))
         /\ c = Last(Front(WordOf(a, b, c, d)))
         /\ b = Last(Front(Front(WordOf(a, b, c, d))))
         /\ a = Front(Front(Front(WordOf(a, b, c, d))))
<1> DEFINE B2 == ByteValues * ByteValues  B3 == B2 * ByteValues
<1>1. ByteValues \in Nat \ {0} /\ \A x \in Byte : x \in 0..(ByteValues - 1)
  BY Snow2RegistersAssumption DEF Byte
<1>2. \A x, y \in Byte : AppendByte(x, y) \in 0..(B2 - 1) /\ B2 \in Nat \ {0}
  BY <1>1, AppendByteType
<1>3. \A x, y, z \in Byte : /\ AppendByte(AppendByte(x, y), z) \in 0..(B3 - 1)
                            /\ B3 \in Nat \ {0}
  <2> HIDE DEF B2
  <2> QED BY <1>2, AppendByteType
<1>4. /\ a \in Nat /\ AppendByte(a, b) \in Nat
      /\ AppendByte(AppendByte(a, b), c) \in Nat
  <2> HIDE DEF B2, B3
  <2> QED BY <1>1, <1>2, <1>3
<1>5. WordOf(a, b, c, d) \in 0..(B3 * ByteValues - 1)
  <2> HIDE DEF B3
  <2> QED BY <1>3, AppendByteType DEF WordOf
<1>6. /\ Last(WordOf(a, b, c, d)) = d
      /\ Front(WordOf(a, b, c, d)) = AppendByte(AppendByte(a, b), c)
  BY <1>4, AppendByteParts DEF WordOf, Front, Last
<1>7. /\ Last(AppendByte(AppendByte(a, b), c)) = c
      /\ Front(AppendByte(AppendByte(a, b), c)) = AppendByte(a, b)
  BY <1>4, AppendByteParts DEF Front, Last
<1>8. Last(AppendByte(a, b)) = b /\ Front(AppendByte(a, b)) = a
  BY <1>4, AppendByteParts DEF Front, Last
<1> QED BY <1>5, <1>6, <1>7, <1>8 DEF Word, WordValues

LEMMA WordsOfSeed ==
  ASSUME NEW sd \in Seeds
  PROVE  /\ \A n \in 0..47 : sd[n] \in Byte
         /\ \A j \in 0..7 : KeyWord(sd, j) \in Word
         /\ \A j \in 0..3 : IvWord(sd, j) \in Word
<1>1. \A n \in 0..47 : sd[n] \in Byte BY Snow2RegistersAssumption
<1>2. ASSUME NEW j \in 0..7 PROVE KeyWord(sd, j) \in Word
  <2>1. /\ sd[4 * j] \in Byte /\ sd[4 * j + 1] \in Byte
        /\ sd[4 * j + 2] \in Byte /\ sd[4 * j + 3] \in Byte
    BY <1>1
  <2> QED BY ONLY <2>1, WordOfBytes DEF KeyWord
<1>3. ASSUME NEW j \in 0..3 PROVE IvWord(sd, j) \in Word
  <2>1. /\ sd[4 * j + 32] \in Byte /\ sd[4 * j + 33] \in Byte
        /\ sd[4 * j + 34] \in Byte /\ sd[4 * j + 35] \in Byte
    BY <1>1
  <2> QED BY ONLY <2>1, WordOfBytes DEF IvWord
<1> QED BY <1>1, <1>2, <1>3

LEMMA LoadInjective ==
  ASSUME NEW sd \in Seeds, NEW other \in Seeds, Load(sd) = Load(other)
  PROVE  sd = other
<1>1. /\ \A n \in 0..47 : sd[n] \in Byte /\ other[n] \in Byte
      /\ \A j \in 0..7 : KeyWord(sd, j) \in Word /\ KeyWord(other, j) \in Word
      /\ \A j \in 0..3 : IvWord(sd, j) \in Word /\ IvWord(other, j) \in Word
  BY WordsOfSeed
<1>2. WordValues \in Nat
  BY Snow2RegistersAssumption DEF WordValues
<1>3. ASSUME NEW j \in 0..7 PROVE KeyWord(sd, j) = KeyWord(other, j)
  <2> DEFINE k == 7 - j
  <2>1. k \in 0..7 /\ k \notin {15, 12, 10, 9} /\ k \notin 8..15 /\ 7 - k = j OBVIOUS
  <2>2. \A t \in Seeds : Load(t)[k] = Complement(KeyWord(t, j))
    <3> HIDE DEF k
    <3> QED BY <2>1 DEF Load, LoadKey, IvTap
  <2>3. Complement(KeyWord(sd, j)) = Complement(KeyWord(other, j)) BY <2>2
  <2>4. KeyWord(sd, j) \in Int /\ KeyWord(other, j) \in Int BY <1>1, <1>2 DEF Word
  <2> HIDE DEF k
  <2> QED BY <2>3, <2>4, <1>2 DEF Complement
<1>4. ASSUME NEW j \in 0..3 PROVE IvWord(sd, j) = IvWord(other, j)
  <2>1. PICK k \in {15, 12, 10, 9} : IvTap[k] = j
    <3>1. IvTap[15] = 0 /\ IvTap[12] = 1 /\ IvTap[10] = 2 /\ IvTap[9] = 3 BY DEF IvTap
    <3>2. j = 0 \/ j = 1 \/ j = 2 \/ j = 3 OBVIOUS
    <3> QED BY <3>1, <3>2
  <2>2. k \in 0..15 /\ k \in 8..15 /\ 15 - k \in 0..7 /\ DOMAIN IvTap = {15, 12, 10, 9}
    BY DEF IvTap
  <2>3. \A t \in Seeds : Load(t)[k] = BitXor(KeyWord(t, 15 - k), IvWord(t, j))
    BY <2>1, <2>2 DEF Load, LoadKey
  <2>4. BitXor(KeyWord(sd, 15 - k), IvWord(sd, j)) =
          BitXor(KeyWord(sd, 15 - k), IvWord(other, j))
    BY <2>2, <2>3, <1>3
  <2> QED BY <2>2, <2>4, <1>1, BitXorAssumption
<1>5. ASSUME NEW n \in 0..47 PROVE sd[n] = other[n]
  <2> DEFINE j == n \div 4
  <2>1. n = 4 * j \/ n = 4 * j + 1 \/ n = 4 * j + 2 \/ n = 4 * j + 3 OBVIOUS
  <2>2. CASE j \in 0..7
    <3>1. \A x \in Seeds : /\ x[4 * j] \in Byte /\ x[4 * j + 1] \in Byte
                           /\ x[4 * j + 2] \in Byte /\ x[4 * j + 3] \in Byte
      BY <2>2, WordsOfSeed
    <3>2. KeyWord(sd, j) = KeyWord(other, j) BY <1>3, <2>2
    <3> HIDE DEF j
    <3>3. /\ sd[4 * j] = other[4 * j] /\ sd[4 * j + 1] = other[4 * j + 1]
          /\ sd[4 * j + 2] = other[4 * j + 2] /\ sd[4 * j + 3] = other[4 * j + 3]
      BY ONLY <3>1, <3>2, WordOfBytes, sd \in Seeds, other \in Seeds DEF KeyWord
    <3> QED BY <2>1, <3>3
  <2>3. CASE j \in 8..11
    <3> DEFINE m == j - 8
    <3>1. m \in 0..3 /\ /\ 4 * m + 32 = 4 * j /\ 4 * m + 33 = 4 * j + 1
                        /\ 4 * m + 34 = 4 * j + 2 /\ 4 * m + 35 = 4 * j + 3
      BY <2>3
    <3>2. \A x \in Seeds : /\ x[4 * m + 32] \in Byte /\ x[4 * m + 33] \in Byte
                           /\ x[4 * m + 34] \in Byte /\ x[4 * m + 35] \in Byte
      BY <3>1, WordsOfSeed
    <3> HIDE DEF m, j
    <3>3. IvWord(sd, m) = IvWord(other, m) BY <1>4, <3>1
    <3>4. /\ sd[4 * m + 32] = other[4 * m + 32] /\ sd[4 * m + 33] = other[4 * m + 33]
          /\ sd[4 * m + 34] = other[4 * m + 34] /\ sd[4 * m + 35] = other[4 * m + 35]
      BY ONLY <3>2, <3>3, WordOfBytes, sd \in Seeds, other \in Seeds DEF IvWord
    <3> QED BY <2>1, <3>1, <3>4
  <2>4. j \in 0..7 \/ j \in 8..11 OBVIOUS
  <2> QED BY <2>2, <2>3, <2>4
<1>6. sd \in [0..47 -> Byte] /\ other \in [0..47 -> Byte]
  BY Snow2RegistersAssumption
<1> QED BY <1>5, <1>6

\* No two seeds are loaded alike, whatever the size of bytes.
THEOREM LoadingKeepsSeed == RegistersSpec => []SeedIsKept
<1> DEFINE SeedInv == /\ seed \in Seeds
                      /\ loopCounter \in Nat /\ word \in 0..15
                      /\ loopCounter = 0 /\ word = 0 /\ stage = "mix" => s = Load(seed)
<1>1. RegistersInit => SeedInv BY DEF RegistersInit
<1>2. SeedInv /\ [RegistersNext]_registersVars => SeedInv'
  <2> SUFFICES ASSUME SeedInv, [RegistersNext]_registersVars PROVE SeedInv' OBVIOUS
  <2>1. CASE MixClock
    <3>1. (word + 1) % 16 \in 0..15 /\ ((word + 1) % 16 = 0 => word = 15) OBVIOUS
    <3> QED BY <2>1, <3>1 DEF MixClock
  <2>2. CASE StartBatch BY <2>2 DEF StartBatch
  <2>3. CASE KeystreamClock
    <3>1. (word + 1) % 16 \in 0..15 OBVIOUS
    <3> QED BY <2>3, <3>1 DEF KeystreamClock
  <2>4. CASE UNCHANGED registersVars BY <2>4 DEF registersVars, registers
  <2> QED BY <2>1, <2>2, <2>3, <2>4 DEF RegistersNext
<1>3. SeedInv => SeedIsKept BY LoadInjective DEF SeedIsKept
<1> QED BY <1>1, <1>2, <1>3, PTL DEF RegistersSpec

-----------------------------------------------------------------------------
(* The S-box.                                                              *)

\* Shifting twice is shifting once.
LEMMA ShiftTwice ==
  ASSUME NEW a \in Nat \ {0}, NEW b \in Nat \ {0}, NEW v \in Nat
  PROVE  (v \div a) \div b = v \div (a * b)
<1> DEFINE q == v \div a
           r == v % a
           k == q \div b
           j == q % b
<1>1. q \in Nat /\ r \in 0..(a - 1) /\ v = a * q + r BY Division
<1>2. k \in Nat /\ j \in 0..(b - 1) /\ q = b * k + j
  <2> HIDE DEF q
  <2> QED BY <1>1, Division
<1> SUFFICES v \div (a * b) = k OBVIOUS
<1> HIDE DEF q, r, k, j
<1>3. a * b \in Nat \ {0} /\ a * j \in Nat /\ a * (b * k) = (a * b) * k
  BY ONLY <1>1, <1>2, a \in Nat \ {0}, b \in Nat \ {0}
<1>4. a * (j + 1) <= a * b BY ONLY <1>2, a \in Nat \ {0}, b \in Nat \ {0}
<1>5. a * (j + 1) = a * j + a BY ONLY <1>2, a \in Nat \ {0}
<1>6. a * j + r \in 0..(a * b - 1) BY ONLY <1>1, <1>3, <1>4, <1>5, a \in Nat \ {0}
<1>7. a * (b * k + j) = a * (b * k) + a * j BY ONLY <1>2, a \in Nat \ {0}, b \in Nat \ {0}
<1>8. v = (a * b) * k + (a * j + r) BY ONLY <1>1, <1>2, <1>3, <1>6, <1>7
<1> QED BY ONLY <1>2, <1>3, <1>6, <1>8, DivisionUnique

(* The bytes of a word are the ones it was made of.                        *)
LEMMA BytesOfWord ==
  ASSUME NEW a \in Byte, NEW b \in Byte, NEW c \in Byte, NEW d \in Byte
  PROVE  /\ ByteOf(WordOf(a, b, c, d), 0) = d
         /\ ByteOf(WordOf(a, b, c, d), 1) = c
         /\ ByteOf(WordOf(a, b, c, d), 2) = b
         /\ ByteOf(WordOf(a, b, c, d), 3) = a
<1> DEFINE v == WordOf(a, b, c, d)
           B == ByteValues
<1>1. B \in Nat \ {0} /\ WordValues \in Nat /\ a \in 0..(B - 1)
  BY Snow2RegistersAssumption DEF WordValues, Byte
<1>2. v \in Nat /\ d = v % B /\ c = (v \div B) % B /\ b = ((v \div B) \div B) % B
      /\ a = ((v \div B) \div B) \div B
  BY <1>1, WordOfBytes DEF Word, Front, Last
<1> HIDE DEF v
<1>3. v \div 1 = v BY <1>2
<1>4. B * B \in Nat \ {0} /\ v \div B \in Nat BY <1>1, <1>2
<1>5. (v \div B) \div B = v \div (B * B) BY <1>1, <1>2, ShiftTwice
<1>6. (v \div (B * B)) \div B = v \div (B * B * B) BY <1>1, <1>2, <1>4, ShiftTwice
<1>7. a % B = a BY <1>1
<1> QED BY <1>2, <1>3, <1>5, <1>6, <1>7 DEF ByteOf, Weight, v

(* Every word is made of bytes.                                            *)
LEMMA WordHasBytes ==
  ASSUME NEW v \in Word
  PROVE  \E a, b, c, d \in Byte : v = WordOf(a, b, c, d)
<1> DEFINE B == ByteValues
           v1 == v \div B
           v2 == v1 \div B
           v3 == v2 \div B
<1>1. B \in Nat \ {0} /\ Byte = 0..(B - 1) /\ v \in Nat /\ v < B * B * B * B
  BY Snow2RegistersAssumption DEF Word, WordValues, Byte
<1> HIDE DEF B
<1>2. \A n \in Nat : n \div B \in Nat /\ n % B \in Byte /\ AppendByte(n \div B, n % B) = n
  <2> TAKE n \in Nat
  <2>1. n \div B \in Nat /\ n % B \in 0..(B - 1) /\ n = B * (n \div B) + (n % B)
    BY <1>1, Division
  <2>2. B * (n \div B) = (n \div B) * B BY <1>1, <2>1
  <2> QED BY <1>1, <2>1, <2>2 DEF AppendByte, B
<1>3. \A n \in Nat, m \in Nat \ {0} : n < m * B => n \div B < m
  <2> TAKE n \in Nat, m \in Nat \ {0}
  <2> DEFINE q == n \div B
             r == n % B
  <2>1. q \in Nat /\ r \in 0..(B - 1) /\ n = B * q + r BY <1>1, Division
  <2> HIDE DEF q, r
  <2>2. q >= m => B * q >= B * m BY <1>1, <2>1
  <2>3. B * q \in Nat /\ B * m \in Nat /\ m * B = B * m BY <1>1, <2>1
  <2>4. n < m * B => q < m BY ONLY <2>1, <2>2, <2>3, m \in Nat \ {0}
  <2> QED BY <2>4 DEF q
<1>4. v1 \in Nat /\ v2 \in Nat /\ v3 \in Nat BY <1>1, <1>2
<1>5. v1 < B * B * B /\ v2 < B * B /\ v3 < B
  <2>1. B * B \in Nat \ {0} /\ B * B * B \in Nat \ {0} BY <1>1
  <2>2. v1 < B * B * B BY <1>1, <1>3, <2>1
  <2> HIDE DEF v1
  <2>3. v2 < B * B BY <1>1, <1>3, <1>4, <2>1, <2>2
  <2> HIDE DEF v2
  <2>4. v3 < B BY <1>1, <1>3, <1>4, <2>3
  <2> QED BY <2>2, <2>3, <2>4
<1>6. v3 \in Byte /\ v2 % B \in Byte /\ v1 % B \in Byte /\ v % B \in Byte
  <2>1. v2 % B \in Byte /\ v1 % B \in Byte /\ v % B \in Byte BY <1>1, <1>2, <1>4
  <2> HIDE DEF v3
  <2>2. v3 \in Byte BY <1>1, <1>4, <1>5
  <2> QED BY <2>1, <2>2
<1>7. v = WordOf(v3, v2 % B, v1 % B, v % B)
  <2>1. AppendByte(v1, v % B) = v BY <1>1, <1>2
  <2> HIDE DEF v1
  <2>2. AppendByte(v2, v1 % B) = v1 BY <1>2, <1>4
  <2> HIDE DEF v2
  <2>3. AppendByte(v3, v2 % B) = v2 BY <1>2, <1>4
  <2> QED BY <2>1, <2>2, <2>3 DEF WordOf
<1> QED BY <1>6, <1>7

(* What NEWRS makes of r1 is a word, in which its third byte has no part.  *)
LEMMA SubstituteType == ASSUME NEW v \in Word PROVE Substitute(v) \in Word
<1>1. PICK a, b, c, d \in Byte : v = WordOf(a, b, c, d) BY WordHasBytes
<1>2. snow_T0[d] \in Word /\ snow_T1[c] \in Word /\ snow_T2[c] \in Word /\ snow_T3[a] \in Word
  BY Snow2RegistersAssumption
<1> QED BY <1>1, <1>2, BytesOfWord, BitXorAssumption DEF Substitute

LEMMA SubstituteForgets ==
  ASSUME NEW v \in Word
  PROVE  \E w \in Word : w # v /\ Substitute(w) = Substitute(v)
<1>1. PICK a, b, c, d \in Byte : v = WordOf(a, b, c, d) BY WordHasBytes
<1>2. PICK x \in Byte : x # b
  <2>1. 0 \in Byte /\ 1 \in Byte BY Snow2RegistersAssumption DEF Byte
  <2> QED BY <2>1
<1> DEFINE w == WordOf(a, x, c, d)
<1>3. w \in Word BY WordOfBytes
<1>4. w # v
  <2>1. ByteOf(v, 2) = b /\ ByteOf(w, 2) = x BY <1>1, BytesOfWord
  <2> QED BY <1>2, <2>1
<1>5. /\ ByteOf(w, 0) = ByteOf(v, 0) /\ ByteOf(w, 1) = ByteOf(v, 1)
      /\ ByteOf(w, 3) = ByteOf(v, 3)
  BY <1>1, BytesOfWord
<1>6. Substitute(w) = Substitute(v)
  <2> HIDE DEF w
  <2> QED BY <1>5 DEF Substitute
<1> QED BY <1>3, <1>4, <1>6

\* The registers hold words, and so does keystream once there is a batch.
RegistersTypeOK ==
  /\ s \in [0..15 -> Word] /\ r1 \in Word /\ r2 \in Word
  /\ keystream \in [0..15 -> Word \cup {NoWord}]

LEMMA WordArithmetic ==
  /\ WordValues \in Nat \ {0} /\ 0 \in Word
  /\ \A v, w \in Word : Plus(v, w) \in Word /\ BitXor(v, w) \in Word
  /\ \A v \in Word : Complement(v) \in Word /\ a_mul(v) \in Word /\ ainv_mul(v) \in Word
<1>1. ByteValues \in Nat \ {0} /\ Byte = 0..(ByteValues - 1)
  BY Snow2RegistersAssumption DEF Byte
<1>2. WordValues \in Nat \ {0}
  <2>1. ByteValues * ByteValues \in Nat \ {0} BY <1>1
  <2>2. ByteValues * ByteValues * ByteValues \in Nat \ {0} BY <1>1, <2>1
  <2> QED BY <1>1, <2>2 DEF WordValues
<1>3. \A n \in Nat : n % WordValues \in Word BY <1>2 DEF Word
<1>4. \A v \in Word : v \in Nat /\ v < WordValues BY <1>2 DEF Word
<1>5. \A v, w \in Word : Plus(v, w) \in Word BY <1>3, <1>4 DEF Plus
<1>6. \A v \in Word : Complement(v) \in Word BY <1>2, <1>4 DEF Word, Complement
<1>7. \A v \in Word : ByteOf(v, 0) \in Byte /\ ByteOf(v, 3) \in Byte
  <2> TAKE v \in Word
  <2>1. PICK a, b, c, d \in Byte : v = WordOf(a, b, c, d) BY WordHasBytes
  <2> QED BY <2>1, BytesOfWord
<1>8. \A v \in Word : (v * ByteValues) % WordValues \in Word
  BY <1>1, <1>3, <1>4
<1>9. \A v \in Word : v \div ByteValues \in Word
  <2> TAKE v \in Word
  <2> DEFINE q == v \div ByteValues
             r == v % ByteValues
  <2>1. /\ q \in Nat /\ r \in 0..(ByteValues - 1) /\ v = ByteValues * q + r
        /\ v \in Nat /\ v < WordValues
    BY <1>1, <1>4, Division
  <2> HIDE DEF q, r
  <2>2. ByteValues * q >= 1 * q BY <1>1, <2>1
  <2>3. q < WordValues BY ONLY <1>1, <1>2, <2>1, <2>2
  <2>4. q \in Word BY <1>2, <2>1, <2>3 DEF Word
  <2> QED BY <2>4 DEF q
<1>10. \A v \in Word : a_mul(v) \in Word /\ ainv_mul(v) \in Word
  BY <1>7, <1>8, <1>9, Snow2RegistersAssumption, BitXorAssumption DEF a_mul, ainv_mul
<1> QED BY <1>2, <1>5, <1>6, <1>10, BitXorAssumption DEF Word

LEMMA FeedbackType ==
  ASSUME LoopInv, RegistersTypeOK
  PROVE  Feedback \in Word /\ \A k \in 0..15 : Tap(k) \in Word
<1>1. word \in 0..15 BY DEF LoopInv
<1>2. \A k \in 0..15 : Tap(k) \in Word BY <1>1, RingSuccessor DEF RegistersTypeOK, Tap
<1>3. s[word] \in Word /\ Tap(2) \in Word /\ Tap(11) \in Word
  BY <1>1, <1>2 DEF RegistersTypeOK
<1> QED BY <1>2, <1>3, WordArithmetic DEF Feedback

LEMMA RegistersTypeNext ==
  LoopInv /\ RegistersTypeOK /\ [RegistersNext]_registersVars => RegistersTypeOK'
<1> SUFFICES ASSUME LoopInv, RegistersTypeOK, [RegistersNext]_registersVars
             PROVE  RegistersTypeOK'
  OBVIOUS
<1>1. /\ Feedback \in Word /\ Tap(1) \in Word /\ Tap(5) \in Word /\ Tap(15) \in Word
      /\ r1 \in Word /\ r2 \in Word /\ word \in 0..15
      /\ s \in [0..15 -> Word] /\ keystream \in [0..15 -> Word \cup {NoWord}]
  BY FeedbackType DEF RegistersTypeOK, LoopInv
<1>2. Plus(r2, Tap(5)) \in Word /\ Substitute(r1) \in Word
  BY <1>1, WordArithmetic, SubstituteType
<1>3. CASE MixClock
  <2>1. BitXor(BitXor(Feedback, Plus(r1, Tap(15))), r2) \in Word
    BY <1>1, WordArithmetic
  <2> QED BY <1>1, <1>2, <1>3, <2>1 DEF MixClock, NEWRS, RegistersTypeOK
<1>4. CASE StartBatch BY <1>1, <1>4 DEF StartBatch, registers, RegistersTypeOK
<1>5. CASE KeystreamClock
  <2>1. s' \in [0..15 -> Word] /\ s'[word] \in Word /\ r1' \in Word /\ r2' \in Word
    BY <1>1, <1>2, <1>5 DEF KeystreamClock, NEWRS
  <2>2. BitXor(BitXor(Plus(r1', s'[word]), r2'), Tap(1)) \in Word
    BY <1>1, <2>1, WordArithmetic
  <2> QED BY <1>1, <1>5, <2>1, <2>2 DEF KeystreamClock, RegistersTypeOK
<1>6. CASE UNCHANGED registersVars
  BY <1>1, <1>6 DEF registersVars, registers, RegistersTypeOK
<1> QED BY <1>3, <1>4, <1>5, <1>6 DEF RegistersNext

LEMMA LoadType == ASSUME NEW sd \in Seeds PROVE Load(sd) \in [0..15 -> Word]
<1>1. \A k \in 0..15 : LoadKey(sd)[k] \in Word
  <2> TAKE k \in 0..15
  <2>1. CASE k \in 8..15
    <3>1. 15 - k \in 0..7 BY <2>1
    <3>2. KeyWord(sd, 15 - k) \in Word BY <3>1, WordsOfSeed
    <3> QED BY <2>1, <3>2 DEF LoadKey
  <2>2. CASE k \notin 8..15
    <3>1. 7 - k \in 0..7 BY <2>2
    <3>2. Complement(KeyWord(sd, 7 - k)) \in Word BY <3>1, WordsOfSeed, WordArithmetic
    <3> QED BY <2>2, <3>2 DEF LoadKey
  <2> QED BY <2>1, <2>2
<1>2. \A k \in DOMAIN IvTap : IvWord(sd, IvTap[k]) \in Word
  <2>1. \A k \in DOMAIN IvTap : IvTap[k] \in 0..3 BY DEF IvTap
  <2> QED BY <2>1, WordsOfSeed
<1>3. \A k \in 0..15 : (IF k \in DOMAIN IvTap THEN BitXor(LoadKey(sd)[k], IvWord(sd, IvTap[k]))
                                              ELSE LoadKey(sd)[k]) \in Word
  BY <1>1, <1>2, WordArithmetic
<1> QED BY <1>3 DEF Load

(* The registers hold words throughout, so every table is looked up within *)
(* its bounds, for every seed, table and size of bytes.                    *)
THEOREM RegistersTypeCorrect == RegistersSpec => []RegistersTypeOK
<1>1. RegistersInit => LoopInv /\ RegistersTypeOK
  <2> SUFFICES ASSUME RegistersInit PROVE RegistersTypeOK BY LoopInitInv
  <2>1. s \in [0..15 -> Word] BY LoadType DEF RegistersInit
  <2> QED BY <2>1, WordArithmetic DEF RegistersInit, RegistersTypeOK
<1>2. LoopInv /\ RegistersTypeOK /\ [RegistersNext]_registersVars
        => LoopInv' /\ RegistersTypeOK'
  BY LoopNextInv, RegistersTypeNext
<1> QED BY <1>1, <1>2, PTL DEF RegistersSpec

(* The S-box of the code is never a permutation, at 8 bits as little as at *)
(* 2 and whatever the tables hold: the word r1 has, whichever it is, is    *)
(* substituted by the same word as another one.                            *)
THEOREM SubstitutionForgets == RegistersSpec => []~SubstitutionLosesNothing
<1>1. RegistersTypeOK => ~SubstitutionLosesNothing
  BY SubstituteForgets DEF RegistersTypeOK, SubstitutionLosesNothing
<1> QED BY <1>1, RegistersTypeCorrect, PTL

\* What a clocking of a batch makes of the registers.
Clocked(v) ==
  <<[s EXCEPT ![word] = Feedback], Plus(r2, Tap(5)), Substitute(v)>>

(* The cipher cannot be run backwards: before each clocking of a batch r1  *)
(* might have held another word, with the same registers, and so the same  *)
(* keystream, from then on.                                                *)
THEOREM ClockingForgets ==
  RegistersSpec => [][KeystreamClock =>
                        /\ registers' = Clocked(r1)
                        /\ \E v \in Word \ {r1} : registers' = Clocked(v)]_registersVars
<1> DEFINE Forgets == /\ registers' = Clocked(r1)
                      /\ \E v \in Word \ {r1} : registers' = Clocked(v)
<1>1. RegistersTypeOK => [KeystreamClock => Forgets]_registersVars
  <2> SUFFICES ASSUME RegistersTypeOK, KeystreamClock PROVE Forgets OBVIOUS
  <2>1. PICK v \in Word : v # r1 /\ Substitute(v) = Substitute(r1)
    BY SubstituteForgets DEF RegistersTypeOK
  <2>2. registers' = Clocked(r1) BY DEF KeystreamClock, NEWRS, registers, Clocked
  <2>3. Clocked(v) = Clocked(r1) BY <2>1 DEF Clocked
  <2> QED BY <2>1, <2>2, <2>3
<1> QED BY <1>1, RegistersTypeCorrect, PTL

-----------------------------------------------------------------------------
(* How long a call of fillBytes takes.                                     *)

\* The steps that give n bytes from a batch that is full and those after it.
StepsFor(n) == 1 + (n - 1) \div BatchSize

\* The steps that a call has left: one for each batch that it gives bytes of.
CallStepsLeft ==
  CASE pc = "idle"   -> 0
    [] pc = "empty"  -> 1
    [] pc = "leftover" /\ size <= haveData -> 1
    [] pc = "leftover" /\ size > haveData  -> 1 + StepsFor(size - haveData)
    [] pc = "chunks" -> StepsFor(size)

\* Each step of a call is one of them.
EachStepCounts == [][pc # "idle" => CallStepsLeft' = CallStepsLeft - 1]_vars

LEMMA StepsForType ==
  ASSUME NEW n \in Nat, n > 0
  PROVE  /\ StepsFor(n) \in Nat \ {0}
         /\ n <= BatchSize => StepsFor(n) = 1
         /\ n > BatchSize => StepsFor(n - BatchSize) = StepsFor(n) - 1
<1>1. BatchSize \in Nat \ {0} /\ n - 1 \in Nat BY Snow2Assumption
<1>2. (n - 1) \div BatchSize \in Nat BY <1>1, Division
<1>3. ASSUME n <= BatchSize PROVE (n - 1) \div BatchSize = 0
  BY <1>1, <1>3, DivisionSmall
<1>4. ASSUME n > BatchSize
      PROVE  (n - BatchSize - 1) \div BatchSize = (n - 1) \div BatchSize - 1
  <2>1. BatchSize <= n - 1 /\ n - BatchSize - 1 = (n - 1) - BatchSize BY <1>1, <1>4
  <2> QED BY <2>1, <1>1, DivisionStep
<1> QED BY <1>1, <1>2, <1>3, <1>4 DEF StepsFor

\* fillBytes returns after the steps that the size of the request and the rest of
\* the batch determine: its second phase ends, and gives a byte in each step.
THEOREM CallEnds ==
  Spec => /\ [](CallStepsLeft \in Nat /\ (CallStepsLeft = 0 <=> pc = "idle"))
          /\ EachStepCounts
<1>1. ASSUME IInv
      PROVE  CallStepsLeft \in Nat /\ (CallStepsLeft = 0 <=> pc = "idle")
  <2>1. /\ pc \in {"idle", "empty", "leftover", "chunks"}
        /\ haveData \in Nat /\ size \in Nat /\ (pc = "chunks" => size > 0)
    BY <1>1, Snow2Assumption DEF IInv, TypeOK, PhaseInv
  <2>2. CASE pc = "leftover" /\ size > haveData
    <3>1. size - haveData \in Nat /\ size - haveData > 0 BY <2>1, <2>2
    <3>2. CallStepsLeft = 1 + StepsFor(size - haveData)
      BY <2>1, <2>2 DEF CallStepsLeft
    <3> QED BY <2>2, <3>1, <3>2, StepsForType
  <2>3. CASE pc = "chunks" BY <2>1, <2>3, StepsForType DEF CallStepsLeft
  <2>4. CASE pc # "chunks" /\ ~(pc = "leftover" /\ size > haveData)
    BY <2>1, <2>4 DEF CallStepsLeft
  <2> QED BY <2>2, <2>3, <2>4
<1>2. ASSUME IInv, pc # "idle", Next PROVE CallStepsLeft' = CallStepsLeft - 1
  <2>1. /\ haveData \in 0..BatchSize /\ size \in Nat /\ BatchSize \in Nat \ {0}
        /\ pc = "chunks" => size > 0
        /\ pc = "leftover" => haveData < BatchSize
    BY <1>2, Snow2Assumption DEF IInv, TypeOK, PhaseInv
  <2>2. CASE ReturnEmpty BY <2>2 DEF ReturnEmpty, Return, CallStepsLeft
  <2>3. CASE ServeFromLeftover
    <3>1. CallStepsLeft = 1 BY <2>1, <2>3 DEF ServeFromLeftover, CallStepsLeft
    <3>2. CallStepsLeft' = 0 BY <2>3 DEF ServeFromLeftover, Return, CallStepsLeft
    <3> QED BY <3>1, <3>2
  <2>4. CASE DrainLeftover
    <3>1. /\ pc = "leftover" /\ pc' = "chunks" /\ size > haveData
          /\ size' = size - haveData
      BY <2>1, <2>4 DEF DrainLeftover
    <3>2. CallStepsLeft = 1 + StepsFor(size - haveData)
      BY <2>1, <3>1 DEF CallStepsLeft
    <3>3. CallStepsLeft' = StepsFor(size') BY <3>1 DEF CallStepsLeft
    <3>4. StepsFor(size - haveData) \in Nat BY <2>1, <3>1, StepsForType
    <3> QED BY <3>1, <3>2, <3>3, <3>4
  <2>5. CASE ServeBatch
    <3>1. /\ pc = "chunks" /\ pc' = pc /\ size > BatchSize
          /\ size' = size - BatchSize
      BY <2>5 DEF ServeBatch
    <3>2. CallStepsLeft = StepsFor(size) /\ CallStepsLeft' = StepsFor(size')
      BY <3>1 DEF CallStepsLeft
    <3> QED BY <2>1, <3>1, <3>2, StepsForType
  <2>6. CASE ServeRest
    <3>1. pc = "chunks" /\ pc' = "idle" /\ size <= BatchSize
      BY <2>6 DEF ServeRest, Return
    <3>2. CallStepsLeft = StepsFor(size) /\ CallStepsLeft' = 0
      BY <3>1 DEF CallStepsLeft
    <3> QED BY <2>1, <3>1, <3>2, StepsForType
  <2> QED BY <1>2, <2>2, <2>3, <2>4, <2>5, <2>6 DEF Next, FillBytes
<1> QED BY <1>1, <1>2, Invariance, PTL DEF Spec, EachStepCounts
=============================================================================
