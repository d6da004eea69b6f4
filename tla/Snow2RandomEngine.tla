-------------------------- MODULE Snow2RandomEngine --------------------------
(***************************************************************************)
(* Snow2RandomEngine.h, Snow2RandomEngine.cpp: fillBytes serves requests   *)
(* from a batch of keystream words; haveData counts the bytes of the batch *)
(* that are left, and the next batch is made only when one of its bytes is *)
(* wanted, not as soon as the last one is used up.                         *)
(*                                                                         *)
(* The cipher (the registers s, r1 and r2, keyed and clocked 32 times by   *)
(* the constructor) is abstracted to the keystream it yields and to the    *)
(* number of batches it has been clocked for.                              *)
(***************************************************************************)
EXTENDS Keystreams

CONSTANTS
  Keystream,    \* the bytes of the cipher: a function on Nat
  BatchSize,    \* sizeof(keystream), maxBytes in fillBytes
  NoByte,       \* what memory holds that nothing was written to
  MaxRequest,   \* bound: the largest fillBytes request
  MaxBytes      \* bound: the bytes requested in the life of the engine

ASSUME Snow2Assumption ==
  /\ BatchSize \in Nat \ {0}
  /\ MaxRequest \in Nat
  /\ MaxBytes \in Nat

VARIABLES
  batches,      \* s, r1, r2: batches the cipher has been clocked for
  batch,        \* un_byte_keystream
  haveData,     \* haveData
  pc,           \* where the caller of fillBytes is
  size,         \* fillBytes: what is left of size
  output,       \* fillBytes: what has been written to the caller's memory
  position      \* history: bytes handed out by the calls that have returned

vars == <<batches, batch, haveData, pc, size, output, position>>

-----------------------------------------------------------------------------
(* The constructor: the batch is uninitialised and nothing of it is left.  *)

\* Defect: the uninitialised batch counts as full.
InitFull ==
  /\ batches = 0
  /\ batch = [i \in 1..BatchSize |-> NoByte]
  /\ haveData = BatchSize
  /\ pc = "idle"
  /\ size = 0
  /\ output = <<>>
  /\ position = 0

Init ==
  /\ batches = 0
  /\ batch = [i \in 1..BatchSize |-> NoByte]
  /\ haveData = 0
  /\ pc = "idle"
  /\ size = 0
  /\ output = <<>>
  /\ position = 0

-----------------------------------------------------------------------------
\* snow_keystream_fast_p: the cipher is clocked for the next batch.
Generate ==
  /\ batch' = Segment(Keystream, BatchSize * batches, BatchSize)
  /\ batches' = batches + 1
  /\ haveData' = BatchSize

\* memcpy of n bytes that start after the first skip bytes of the batch.
Give(skip, n) == output' = output \o SubSeq(batch, skip + 1, skip + n)

Return ==
  /\ pc' = "idle"
  /\ position' = position + Len(output')

-----------------------------------------------------------------------------
FillBytes(n) ==
  /\ pc = "idle"
  /\ position + n <= MaxBytes
  /\ pc' = IF n = 0 THEN "empty" ELSE "leftover"
  /\ size' = n
  /\ output' = <<>>
  /\ UNCHANGED <<batches, batch, haveData, position>>

\* Nothing is asked for: the early return.
ReturnEmpty ==
  /\ pc = "empty"
  /\ UNCHANGED <<batches, batch, haveData, size, output>>
  /\ Return

\* Defect: the bytes are taken from the start of the batch.
ServeFromStart ==
  /\ pc = "leftover"
  /\ haveData < BatchSize
  /\ size <= haveData
  /\ Give(0, size)
  /\ haveData' = haveData - size
  /\ size' = 0
  /\ Return
  /\ UNCHANGED <<batches, batch>>

\* What is left of the batch is enough.  (size is of no use once fillBytes has
\* returned: it is 0 then.)
ServeFromLeftover ==
  /\ pc = "leftover"
  /\ haveData < BatchSize
  /\ size <= haveData
  /\ Give(BatchSize - haveData, size)
  /\ haveData' = haveData - size
  /\ size' = 0
  /\ Return
  /\ UNCHANGED <<batches, batch>>

\* Defect: a request for exactly what is left goes on to the next phase.
DrainLeftoverExact ==
  /\ pc = "leftover"
  /\ IF haveData < BatchSize
       THEN /\ size >= haveData
            /\ Give(BatchSize - haveData, haveData)
            /\ size' = size - haveData
            /\ Generate
       ELSE UNCHANGED <<batches, batch, haveData, size, output>>
  /\ pc' = "chunks"
  /\ UNCHANGED position

\* What is left of the batch, which may be nothing, is not enough.  A batch
\* of which nothing was given yet is left to the steps that follow.
DrainLeftover ==
  /\ pc = "leftover"
  /\ IF haveData < BatchSize
       THEN /\ size > haveData
            /\ Give(BatchSize - haveData, haveData)
            /\ size' = size - haveData
            /\ Generate
       ELSE UNCHANGED <<batches, batch, haveData, size, output>>
  /\ pc' = "chunks"
  /\ UNCHANGED position

\* Defect: the last batch is treated as the others are.
ServeBatchLast ==
  /\ pc = "chunks"
  /\ size >= BatchSize
  /\ Give(0, BatchSize)
  /\ size' = size - BatchSize
  /\ Generate
  /\ UNCHANGED <<pc, position>>

\* A whole batch, unless it is the last one.
ServeBatch ==
  /\ pc = "chunks"
  /\ size > BatchSize
  /\ Give(0, BatchSize)
  /\ size' = size - BatchSize
  /\ Generate
  /\ UNCHANGED <<pc, position>>

\* The rest of the request, a whole batch at most.
ServeRest ==
  /\ pc = "chunks"
  /\ size <= BatchSize
  /\ Give(0, size)
  /\ haveData' = BatchSize - size
  /\ size' = 0
  /\ Return
  /\ UNCHANGED <<batches, batch>>

Next ==
  \/ \E n \in 0..MaxRequest : FillBytes(n)
  \/ ReturnEmpty
  \/ ServeFromLeftover
  \/ DrainLeftover
  \/ ServeBatch
  \/ ServeRest

Spec == Init /\ [][Next]_vars

-----------------------------------------------------------------------------
(* Properties.                                                             *)

\* The types of the variables.
TypeOK ==
  /\ batches \in Nat
  /\ DOMAIN batch = 1..BatchSize
  /\ haveData \in 0..BatchSize
  /\ pc \in {"idle", "empty", "leftover", "chunks"}
  /\ size \in Nat
  /\ output \in Seq({Keystream[i] : i \in 0..MaxBytes})
  /\ position \in Nat

\* The assertions between the phases of fillBytes: the second phase finds a
\* batch of which nothing was given, and something still to give.
BatchIsFull == pc = "chunks" => haveData = BatchSize /\ size > 0

\* A batch is made only for a byte that is wanted: none is full between
\* calls, and the batches made are those the bytes handed out come from.
MadeOnDemand ==
  pc = "idle" =>
    /\ haveData < BatchSize
    /\ position + haveData = BatchSize * batches

\* fillBytes returns the next bytes of the cipher's keystream, however the
\* requests fall on the boundaries of the batches.
Engine == INSTANCE RandomEngine WITH
  calling <- pc # "idle",
  size <- Len(output) + size,
  output <- IF pc = "idle" THEN output ELSE <<>>

EngineSpec == Engine!Spec
=============================================================================
