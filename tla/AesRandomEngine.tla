--------------------------- MODULE AesRandomEngine ---------------------------
(***************************************************************************)
(* AesRandomEngine.h, AesRandomEngine.cpp: two generators in CTR mode.  The*)
(* outer one, m_oPrng, is keyed by the seed and yields the key and the     *)
(* initial vector of the inner one, m_iPrng, which yields the random bytes,*)
(* ParallelBlocks blocks at a time, and is rekeyed after CounterLimit      *)
(* blocks.  fillBytes serves requests from m_block as the ChaCha20 engine  *)
(* does.                                                                   *)
(*                                                                         *)
(* Crypto++ is external: AesStream[<<k, v>>] is the output of a generator  *)
(* that was keyed with blocks k and v of the outer one's output, which are *)
(* told apart by their index.                                              *)
(***************************************************************************)
EXTENDS Keystreams

CONSTANTS
  AesStream,        \* AesStream[<<k, v>>][i]: byte i of the inner generator's output
  BlockSize,        \* AES_BLOCK_SIZE
  ParallelBlocks,   \* AES_PARALLEL_BLOCKS
  CounterLimit,     \* AES_COUNTER_LIMIT
  NoByte,           \* what memory holds that nothing was written to
  MaxRequest,       \* bound: the largest fillBytes request
  MaxBytes          \* bound: the bytes requested in the life of the engine

ASSUME AesAssumption ==
  /\ BlockSize \in Nat \ {0}
  /\ ParallelBlocks \in Nat \ {0}
  /\ CounterLimit \in Nat \ {0}
  /\ CounterLimit % ParallelBlocks = 0
  /\ MaxRequest \in Nat
  /\ MaxBytes \in Nat

VARIABLES
  outerBlocks,    \* m_oPrng: blocks it has generated
  innerKey,       \* m_iPrng: the outer blocks that are its key and its vector
  innerBlocks,    \* m_iPrng: blocks generated since it was keyed
  counterInner,   \* m_counterInner
  block,          \* m_block
  blockConsumed,  \* m_blockConsumed
  pc,             \* where the caller of fillBytes is
  size,           \* fillBytes: size
  unconsumed,     \* fillBytes: unconsumedSize
  offsetStart,    \* fillBytes: offsetStart
  offsetEnd,      \* fillBytes: offsetEnd
  output,         \* fillBytes: the caller's memory
  position        \* history: bytes handed out by the calls that have returned

innerVars == <<outerBlocks, innerKey, innerBlocks, counterInner, block>>
callVars == <<size, unconsumed, offsetStart, offsetEnd>>
vars == <<innerVars, blockConsumed, pc, callVars, output, position>>

BufferSize == ParallelBlocks * BlockSize        \* AES_INTERNAL_BUFFER

-----------------------------------------------------------------------------
(* The constructor: m_oPrng is keyed with the seed, m_iPrng with its first *)
(* two blocks, and the uninitialised buffer counts as consumed.            *)

Init ==
  /\ outerBlocks = 2
  /\ innerKey = <<0, 1>>
  /\ innerBlocks = 0
  /\ counterInner = 0
  /\ block = [j \in 0..(BufferSize - 1) |-> NoByte]
  /\ blockConsumed = BufferSize
  /\ pc = "idle"
  /\ size = 0
  /\ unconsumed = 0
  /\ offsetStart = 0
  /\ offsetEnd = 0
  /\ output = <<>>
  /\ position = 0

-----------------------------------------------------------------------------
\* The next ParallelBlocks blocks of a generator that was keyed with key and
\* has generated n blocks since.
Generate(key, n) ==
  /\ block' = [j \in 0..(BufferSize - 1) |->
                 AesStream[key][n * BlockSize + j]]
  /\ innerBlocks' = n + ParallelBlocks

\* Defect: the vector of one key is the next key.
ReseedOverlapping ==
  /\ innerKey' = <<outerBlocks, outerBlocks + 1>>
  /\ outerBlocks' = outerBlocks + 1

\* aesReseedInner and the reset of the counter: the key and the vector are
\* the next blocks of the outer generator.
Reseed ==
  /\ innerKey' = <<outerBlocks, outerBlocks + 1>>
  /\ outerBlocks' = outerBlocks + 2

\* Defect: the limit is exceeded by one buffer.
NextBlockBeyondLimit ==
  \/ /\ counterInner > CounterLimit
     /\ Reseed
     /\ Generate(innerKey', 0)
     /\ counterInner' = ParallelBlocks
  \/ /\ counterInner <= CounterLimit
     /\ Generate(innerKey, innerBlocks)
     /\ counterInner' = counterInner + ParallelBlocks
     /\ UNCHANGED <<innerKey, outerBlocks>>

\* Defect: the counter is not reset, so that every buffer gets a new key.
NextBlockNoReset ==
  \/ /\ counterInner >= CounterLimit
     /\ Reseed
     /\ Generate(innerKey', 0)
     /\ counterInner' = counterInner + ParallelBlocks
  \/ /\ counterInner < CounterLimit
     /\ Generate(innerKey, innerBlocks)
     /\ counterInner' = counterInner + ParallelBlocks
     /\ UNCHANGED <<innerKey, outerBlocks>>

\* aesNextBlock: the inner generator is rekeyed when it has reached its limit.
NextBlock ==
  \/ /\ counterInner >= CounterLimit
     /\ Reseed
     /\ Generate(innerKey', 0)
     /\ counterInner' = ParallelBlocks
  \/ /\ counterInner < CounterLimit
     /\ Generate(innerKey, innerBlocks)
     /\ counterInner' = counterInner + ParallelBlocks
     /\ UNCHANGED <<innerKey, outerBlocks>>

\* memcpy of n bytes from m_block[m_blockConsumed] to the caller's offset.
Copy(offset, n) ==
  output' = [i \in 1..size |->
               IF i \in (offset + 1)..(offset + n)
                 THEN block[blockConsumed + (i - offset) - 1]
                 ELSE output[i]]

-----------------------------------------------------------------------------
FillBytes(n) ==
  /\ pc = "idle"
  /\ position + n <= MaxBytes
  /\ pc' = IF n = 0 THEN "empty" ELSE "loop"
  /\ size' = n
  /\ unconsumed' = BufferSize - blockConsumed
  /\ offsetStart' = 0
  /\ offsetEnd' = BufferSize - blockConsumed
  /\ output' = [i \in 1..n |-> NoByte]
  /\ UNCHANGED <<innerVars, blockConsumed, position>>

\* Nothing is asked for: the early return.
ReturnEmpty ==
  /\ pc = "empty"
  /\ pc' = "idle"
  /\ UNCHANGED <<innerVars, blockConsumed, callVars, output, position>>

\* Defect: the new buffer still counts as consumed.
ConsumeBufferStale ==
  /\ pc = "loop"
  /\ offsetEnd <= size
  /\ Copy(offsetStart, unconsumed)
  /\ NextBlock
  /\ unconsumed' = BufferSize
  /\ offsetStart' = offsetEnd
  /\ offsetEnd' = offsetEnd + BufferSize
  /\ UNCHANGED <<blockConsumed, pc, size, position>>

\* The request takes all that is left of the buffer.
ConsumeBuffer ==
  /\ pc = "loop"
  /\ offsetEnd <= size
  /\ Copy(offsetStart, unconsumed)
  /\ NextBlock
  /\ blockConsumed' = 0
  /\ unconsumed' = BufferSize
  /\ offsetStart' = offsetEnd
  /\ offsetEnd' = offsetEnd + BufferSize
  /\ UNCHANGED <<pc, size, position>>

\* Defect: the whole request counts, not what is left of it.
ConsumeRestWhole ==
  /\ pc = "loop"
  /\ offsetEnd > size
  /\ Copy(offsetStart, size - offsetStart)
  /\ blockConsumed' = blockConsumed + size
  /\ pc' = "idle"
  /\ position' = position + size
  /\ UNCHANGED <<innerVars, callVars>>

\* The request ends within the buffer.
ConsumeRest ==
  /\ pc = "loop"
  /\ offsetEnd > size
  /\ Copy(offsetStart, size - offsetStart)
  /\ blockConsumed' = blockConsumed + (size - offsetStart)
  /\ pc' = "idle"
  /\ position' = position + size
  /\ UNCHANGED <<innerVars, callVars>>

Next ==
  \/ \E n \in 0..MaxRequest : FillBytes(n)
  \/ ReturnEmpty
  \/ ConsumeBuffer
  \/ ConsumeRest

Spec == Init /\ [][Next]_vars

-----------------------------------------------------------------------------
(* Properties.                                                             *)

\* The types of the variables.
TypeOK ==
  /\ outerBlocks \in Nat
  /\ innerKey \in Nat \X Nat
  /\ innerBlocks \in Nat
  /\ counterInner \in Nat
  /\ DOMAIN block = 0..(BufferSize - 1)
  /\ blockConsumed \in 0..BufferSize
  /\ pc \in {"idle", "empty", "loop"}
  /\ size \in Nat
  /\ unconsumed \in 0..BufferSize
  /\ offsetStart \in Nat
  /\ offsetEnd \in Nat
  /\ DOMAIN output = 1..size
  /\ position \in Nat

\* Both memcpy calls stay inside m_block and inside the caller's memory, and
\* the next one starts where the last one ended.
MemcpyInBounds ==
  pc = "loop" =>
    /\ blockConsumed + unconsumed = BufferSize
    /\ offsetStart + unconsumed = offsetEnd
    /\ offsetStart <= size
    /\ \A i \in 1..size : output[i] = NoByte <=> i > offsetStart

\* No key generates more blocks than the limit that was chosen for its
\* advantage bound, and m_counterInner does count the blocks of the key.
KeyBudget ==
  /\ innerBlocks <= CounterLimit
  /\ counterInner = innerBlocks

\* A key is replaced when its budget is used up and not before, and key and
\* vector are blocks of the outer generator that no earlier key was made of.
FreshKeys ==
  [][innerKey' # innerKey =>
       /\ innerBlocks = CounterLimit
       /\ innerKey'[1] > innerKey[2]
       /\ innerKey'[2] = innerKey'[1] + 1]_vars

\* The keystream the engine stands for: the outputs of the inner generators,
\* CounterLimit blocks of each, keyed by successive pairs of outer blocks.
Keystream ==
  LET perKey == CounterLimit * BlockSize
  IN  [n \in Nat |-> LET e == n \div perKey
                     IN  AesStream[<<2 * e, 2 * e + 1>>][n % perKey]]

\* fillBytes returns the next bytes of that keystream, however the requests
\* fall on the boundaries of the buffer and on the changes of the key.
Engine == INSTANCE RandomEngine WITH
  calling <- pc # "idle",
  output <- IF pc = "idle" THEN output ELSE <<>>

EngineSpec == Engine!Spec
=============================================================================
