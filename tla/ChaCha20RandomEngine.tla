------------------------ MODULE ChaCha20RandomEngine ------------------------
(***************************************************************************)
(* ChaCha20RandomEngine.h, ChaCha20RandomEngine.cpp: fillBytes serves the  *)
(* request from m_block, a buffer of Lanes cipher blocks computed in       *)
(* parallel and left interleaved word by word, and computes the next Lanes *)
(* blocks whenever the buffer is used up.  The block counter is m_state[12]*)
(* with m_state[13] as its high word.                                      *)
(*                                                                         *)
(* The cipher itself (the key, the nonce and the ten double rounds) is the *)
(* constant Cipher: a block for each value of the two counter words.  The  *)
(* sizes of the code (4 lanes, 16 words of 4 bytes, words modulo 2^32) are *)
(* constants too, so that TLC reaches the overflow of both words.          *)
(***************************************************************************)
EXTENDS Keystreams

CONSTANTS
  Cipher,       \* Cipher[<<w12, w13>>]: the block, a function on 0..(Words * WordBytes - 1)
  Lanes,        \* CHACHA20_PARALLEL_BLOCK_COUNT
  Words,        \* words of a block
  WordBytes,    \* bytes of a word
  Modulus,      \* the number of values of a word
  NoByte,       \* what memory holds that nothing was written to
  MaxRequest,   \* bound: the largest fillBytes request
  MaxBytes      \* bound: the bytes requested in the life of the engine

ASSUME ChaCha20Assumption ==
  /\ Lanes \in Nat \ {0}
  /\ Words \in Nat \ {0}
  /\ WordBytes \in Nat \ {0}
  /\ Modulus \in Nat \ {0}
  /\ Modulus % Lanes = 0
  /\ \A low, high \in 0..(Modulus - 1), k \in 0..(Words * WordBytes - 1) :
       Cipher[<<low, high>>][k] # NoByte
  /\ MaxRequest \in Nat
  /\ MaxBytes \in Nat

VARIABLES
  counter,      \* m_state[12]
  counterHigh,  \* m_state[13]
  block,        \* m_block
  consumed,     \* m_consumed_byte_count
  pc,           \* where the caller of fillBytes is
  size,         \* fillBytes: size
  unconsumed,   \* fillBytes: unconsumedSize
  offsetStart,  \* fillBytes: offsetStart
  offsetEnd,    \* fillBytes: offsetEnd
  output,       \* fillBytes: the caller's memory
  position      \* history: bytes handed out by the calls that have returned

vars == <<counter, counterHigh, block, consumed, pc, size, unconsumed,
          offsetStart, offsetEnd, output, position>>

callVars == <<size, unconsumed, offsetStart, offsetEnd>>

BufferSize == Lanes * Words * WordBytes      \* CHACHA20_BUFFER_SIZE

-----------------------------------------------------------------------------
(* The constructor: the counter starts at 0 and the uninitialised buffer   *)
(* counts as consumed.                                                     *)

\* Defect: the counter starts at 1, as in RFC 7539.
InitAsRFC7539 ==
  /\ counter = 1
  /\ counterHigh = 0
  /\ block = [j \in 0..(BufferSize - 1) |-> NoByte]
  /\ consumed = BufferSize
  /\ pc = "idle"
  /\ size = 0
  /\ unconsumed = 0
  /\ offsetStart = 0
  /\ offsetEnd = 0
  /\ output = <<>>
  /\ position = 0

Init ==
  /\ counter = 0
  /\ counterHigh = 0
  /\ block = [j \in 0..(BufferSize - 1) |-> NoByte]
  /\ consumed = BufferSize
  /\ pc = "idle"
  /\ size = 0
  /\ unconsumed = 0
  /\ offsetStart = 0
  /\ offsetEnd = 0
  /\ output = <<>>
  /\ position = 0

-----------------------------------------------------------------------------
(* Byte j of the buffer comes from one lane of one of the vectors x[0],    *)
(* x[1], ..., which lie in the buffer one after the other.                 *)

Lane(j) == (j \div WordBytes) % Lanes

OffsetInBlock(j) ==
  (j \div (WordBytes * Lanes)) * WordBytes + (j % WordBytes)

\* The next Lanes blocks: lane l adds l to the low counter word.
FourBlocks(low, high) ==
  [j \in 0..(BufferSize - 1) |->
     Cipher[<<(low + Lane(j)) % Modulus, high>>][OffsetInBlock(j)]]

\* Defect: the counter is wider than a word and never wraps.
GenerateBlocksNoWrap ==
  /\ block' = FourBlocks(counter, counterHigh)
  /\ counter' = counter + Lanes
  /\ UNCHANGED counterHigh

\* Defect: no carry to the high word, as in RFC 7539.
GenerateBlocksNoCarry ==
  /\ block' = FourBlocks(counter, counterHigh)
  /\ counter' = (counter + Lanes) % Modulus
  /\ UNCHANGED counterHigh

\* Defect: the carry is a step late, after the blocks that wrapped.
GenerateBlocksLateCarry ==
  /\ block' = FourBlocks(counter, counterHigh)
  /\ counter' = (counter + Lanes) % Modulus
  /\ counterHigh' = IF counter = 0 /\ position > 0 THEN (counterHigh + 1) % Modulus
                                                   ELSE counterHigh

\* The blocks go to the buffer and the counter moves on.
GenerateBlocks ==
  /\ block' = FourBlocks(counter, counterHigh)
  /\ counter' = (counter + Lanes) % Modulus
  /\ counterHigh' = IF counter' = 0 THEN (counterHigh + 1) % Modulus
                                    ELSE counterHigh

\* memcpy of n bytes from m_block[consumed] to the caller's offset.
Copy(offset, n) ==
  output' = [i \in 1..size |->
               IF i \in (offset + 1)..(offset + n)
                 THEN block[consumed + (i - offset) - 1]
                 ELSE output[i]]

-----------------------------------------------------------------------------
FillBytes(n) ==
  /\ pc = "idle"
  /\ position + n <= MaxBytes
  /\ pc' = IF n = 0 THEN "empty" ELSE "loop"
  /\ size' = n
  /\ unconsumed' = BufferSize - consumed
  /\ offsetStart' = 0
  /\ offsetEnd' = BufferSize - consumed
  /\ output' = [i \in 1..n |-> NoByte]
  /\ UNCHANGED <<counter, counterHigh, block, consumed, position>>

\* Nothing is asked for: the early return.
ReturnEmpty ==
  /\ pc = "empty"
  /\ pc' = "idle"
  /\ UNCHANGED <<counter, counterHigh, block, consumed, callVars, output,
                 position>>

\* Defect: the locals still describe the old buffer.
ConsumeBufferStale ==
  /\ pc = "loop"
  /\ offsetEnd <= size
  /\ Copy(offsetStart, unconsumed)
  /\ GenerateBlocks
  /\ consumed' = 0
  /\ offsetStart' = offsetEnd
  /\ offsetEnd' = offsetEnd + BufferSize
  /\ UNCHANGED <<pc, size, unconsumed, position>>

\* The request takes all that is left of the buffer.
ConsumeBuffer ==
  /\ pc = "loop"
  /\ offsetEnd <= size
  /\ Copy(offsetStart, unconsumed)
  /\ GenerateBlocks
  /\ consumed' = 0
  /\ unconsumed' = BufferSize
  /\ offsetStart' = offsetEnd
  /\ offsetEnd' = offsetEnd + BufferSize
  /\ UNCHANGED <<pc, size, position>>

\* The request ends within the buffer.
ConsumeRest ==
  /\ pc = "loop"
  /\ offsetEnd > size
  /\ Copy(offsetStart, size - offsetStart)
  /\ consumed' = consumed + (size - offsetStart)
  /\ pc' = "idle"
  /\ position' = position + size
  /\ UNCHANGED <<counter, counterHigh, block, callVars>>

Next ==
  \/ \E n \in 0..MaxRequest : FillBytes(n)
  \/ ReturnEmpty
  \/ ConsumeBuffer
  \/ ConsumeRest

Spec == Init /\ [][Next]_vars

-----------------------------------------------------------------------------
(* Properties.                                                             *)

\* The types of the variables.
TypeOK ==
  /\ counter \in 0..(Modulus - 1)
  /\ counterHigh \in 0..(Modulus - 1)
  /\ DOMAIN block = 0..(BufferSize - 1)
  /\ consumed \in 0..BufferSize
  /\ pc \in {"idle", "empty", "loop"}
  /\ size \in Nat
  /\ unconsumed \in 0..BufferSize
  /\ offsetStart \in Nat
  /\ offsetEnd \in Nat
  /\ DOMAIN output = 1..size
  /\ position \in Nat

\* Both memcpy calls stay inside m_block and inside the caller's memory: in
\* the loop the three locals and m_consumed_byte_count, which are updated
\* apart, agree on what is left of the buffer, and a copy starts where the
\* last one ended.
MemcpyInBounds ==
  pc = "loop" =>
    /\ consumed + unconsumed = BufferSize
    /\ offsetStart + unconsumed = offsetEnd
    /\ offsetStart <= size
    /\ \A i \in 1..size : output[i] = NoByte <=> i > offsetStart

\* The addition of the lane number to m_state[12] never overflows, whatever
\* was generated before: the NOTE at the increment relies on it.
LanesDoNotOverflow == counter + Lanes - 1 < Modulus

\* Bytes handed out, those of the call in progress included.
Delivered == IF pc = "loop" THEN position + offsetStart ELSE position

\* The two counter words are the number of blocks generated, which is what
\* has been handed out and what is left in the buffer: no block is skipped
\* or used twice, also when a word overflows.
CounterCountsBlocks ==
  LET blocks == (Delivered + BufferSize - consumed) \div (Words * WordBytes)
  IN  /\ counter = blocks % Modulus
      /\ counterHigh = (blocks \div Modulus) % Modulus

\* The keystream the engine stands for: cipher blocks 0, 1, 2, ... of a
\* double-word counter, each group of Lanes blocks interleaved.
Keystream ==
  [n \in Nat |->
     LET j == n % BufferSize
         c == Lanes * (n \div BufferSize) + Lane(j)
     IN  Cipher[<<c % Modulus, (c \div Modulus) % Modulus>>][OffsetInBlock(j)]]

\* fillBytes returns the next bytes of that keystream, however the requests
\* fall on the boundaries of the buffer and the overflows of the counter.
Engine == INSTANCE RandomEngine WITH
  calling <- pc # "idle",
  output <- IF pc = "idle" THEN output ELSE <<>>

EngineSpec == Engine!Spec

\* The header comment of ChaCha20RandomEngine.cpp on the interleaving: the
\* first word is generated with counter 0, the second with counter 1 "and so
\* forth", and the fourth again with counter 0.
FourthWordIsFromFirstBlock ==
  pc = "idle" /\ position = size /\ size >= 4 * WordBytes =>
    output[3 * WordBytes + 1] \in {Cipher[<<0, 0>>][k] : k \in 0..(Words * WordBytes - 1)}
=============================================================================
