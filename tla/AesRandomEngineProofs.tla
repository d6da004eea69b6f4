----------------------- MODULE AesRandomEngineProofs -----------------------
(***************************************************************************)
(* What holds of the AES engine for every generator, every size of blocks, *)
(* every limit that the parallel blocks divide, and every sequence of      *)
(* requests.                                                               *)
(***************************************************************************)
EXTENDS AesRandomEngine, KeystreamsProofs

\* The bytes of the keystream that callers were given.
Delivered == IF pc = "loop" THEN position + offsetStart ELSE position

\* What m_block holds after k + 1 generations: part k of the keystream.
BufferOf(k) == [j \in 0..(BufferSize - 1) |-> Keystream[BufferSize * k + j]]

\* Buffers per key.
PerKey == CounterLimit \div ParallelBlocks

\* The locals of fillBytes and m_blockConsumed.
LoopInv ==
  /\ pc = "loop" => /\ blockConsumed + unconsumed = BufferSize
                    /\ offsetStart + unconsumed = offsetEnd
                    /\ offsetStart <= size
  /\ pc = "empty" => size = 0
  /\ Delivered > 0 => blockConsumed < BufferSize

\* The inner generator has its key number e and has generated t buffers since:
\* none only with the first key, since each later one comes with its first buffer.
Keyed(e, t) ==
  /\ innerKey = <<2 * e, 2 * e + 1>>
  /\ outerBlocks = 2 * e + 2
  /\ innerBlocks = ParallelBlocks * t
  /\ counterInner = innerBlocks
  /\ t = 0 => e = 0

\* That makes g buffers, of which the last one is in m_block.
Generated(e, t, g) ==
  /\ Keyed(e, t)
  /\ g = PerKey * e + t
  /\ Delivered + (BufferSize - blockConsumed) = BufferSize * g
  /\ g = 0 => blockConsumed = BufferSize
  /\ g # 0 => block = BufferOf(g - 1)

\* What the caller's memory holds.
OutputInv ==
  /\ pc = "loop" =>
       output = [i \in 1..size |-> IF i <= offsetStart
                                     THEN Keystream[position + i - 1]
                                     ELSE NoByte]
  /\ pc = "empty" => output = <<>>
  /\ pc = "idle" => /\ size <= position
                    /\ output = Segment(Keystream, position - size, size)

IInv == /\ TypeOK
        /\ LoopInv
        /\ \E e \in Nat, t \in 0..PerKey, g \in Nat : Generated(e, t, g)
        /\ OutputInv

-----------------------------------------------------------------------------
(* The sizes.                                                              *)
LEMMA Sizes ==
  /\ BlockSize \in Nat \ {0}
  /\ ParallelBlocks \in Nat \ {0}
  /\ CounterLimit \in Nat \ {0}
  /\ BufferSize \in Nat \ {0}
  /\ BufferSize = ParallelBlocks * BlockSize
  /\ PerKey \in Nat \ {0}
  /\ CounterLimit = ParallelBlocks * PerKey
  /\ CounterLimit * BlockSize \in Nat \ {0}
  /\ CounterLimit * BlockSize = BufferSize * PerKey
<1> USE AesAssumption
<1>1. BufferSize \in Nat \ {0} /\ BufferSize = ParallelBlocks * BlockSize
  BY DEF BufferSize
<1>2. /\ PerKey \in Nat
      /\ CounterLimit = ParallelBlocks * PerKey + (CounterLimit % ParallelBlocks)
  BY Division DEF PerKey
<1>3. CounterLimit = ParallelBlocks * PerKey BY <1>2
<1>4. PerKey # 0 BY <1>3
<1>5. CounterLimit * BlockSize \in Nat \ {0} OBVIOUS
<1> HIDE DEF PerKey
<1>6. CounterLimit * BlockSize = BufferSize * PerKey BY <1>1, <1>2, <1>3
<1> QED BY <1>1, <1>2, <1>3, <1>4, <1>5, <1>6

(* The buffer that a generator makes with its key number e after t others  *)
(* is the next one of the keystream.                                       *)
LEMMA GeneratedBlocks ==
  ASSUME NEW e \in Nat, NEW t \in 0..(PerKey - 1), NEW j \in 0..(BufferSize - 1)
  PROVE  AesStream[<<2 * e, 2 * e + 1>>][(ParallelBlocks * t) * BlockSize + j]
           = Keystream[BufferSize * (PerKey * e + t) + j]
<1> DEFINE perKey == CounterLimit * BlockSize
           r == BufferSize * t + j
           n == BufferSize * (PerKey * e + t) + j
<1>1. /\ BufferSize \in Nat \ {0} /\ PerKey \in Nat \ {0} /\ perKey \in Nat \ {0}
      /\ perKey = BufferSize * PerKey
      /\ BufferSize = ParallelBlocks * BlockSize
      /\ ParallelBlocks \in Nat /\ BlockSize \in Nat
      /\ t \in Nat /\ t <= PerKey - 1 /\ j \in Nat /\ j <= BufferSize - 1
  BY Sizes
<1> HIDE DEF perKey
<1>2. r \in 0..(perKey - 1)
  <2>1. BufferSize * t <= BufferSize * (PerKey - 1) BY <1>1
  <2>2. BufferSize * (PerKey - 1) = perKey - BufferSize BY <1>1
  <2>3. BufferSize * t \in Nat BY <1>1
  <2> QED BY <2>1, <2>2, <2>3, <1>1
<1>3. (ParallelBlocks * t) * BlockSize = BufferSize * t BY <1>1
<1>4. n = perKey * e + r
  <2>1. BufferSize * (PerKey * e + t) = perKey * e + BufferSize * t BY <1>1
  <2>2. perKey * e \in Nat /\ BufferSize * t \in Nat BY <1>1
  <2> QED BY <2>1, <2>2, <1>1
<1> HIDE DEF r
<1>5. perKey * e \in Nat /\ r \in Nat BY <1>1, <1>2
<1>6. n \in Nat BY <1>4, <1>5
<1>7. n \div perKey = e /\ n % perKey = r
  BY ONLY <1>1, <1>2, <1>4, DivisionUnique, e \in Nat
<1> HIDE DEF n
<1>8. Keystream[n] = AesStream[<<2 * e, 2 * e + 1>>][r]
  BY <1>6, <1>7 DEF Keystream, perKey
<1> QED BY <1>3, <1>8 DEF n, r

-----------------------------------------------------------------------------
(* The constructor establishes the invariant.                              *)
LEMMA InitInv == Init => IInv
<1> SUFFICES ASSUME Init PROVE IInv OBVIOUS
<1> USE DEF Init
<1>1. BufferSize \in Nat \ {0} /\ ParallelBlocks \in Nat \ {0} /\ PerKey \in Nat \ {0}
  BY Sizes
<1>2. Delivered = 0 BY DEF Delivered
<1>3. TypeOK BY <1>1 DEF TypeOK
<1>4. LoopInv BY <1>2 DEF LoopInv
<1>5. Generated(0, 0, 0)
  <2>1. PerKey * 0 + 0 = 0 /\ BufferSize * 0 = 0 /\ ParallelBlocks * 0 = 0
    BY <1>1
  <2>2. Keyed(0, 0) BY <2>1 DEF Keyed
  <2> QED BY <2>1, <2>2, <1>1, <1>2 DEF Generated
<1>6. 0 \in 0..PerKey BY <1>1
<1>7. OutputInv BY SegmentEmpty DEF OutputInv
<1> QED BY <1>3, <1>4, <1>5, <1>6, <1>7 DEF IInv

(* What TypeOK says of the numbers, in the form the steps below use.       *)
LEMMA Numbers ==
  ASSUME TypeOK
  PROVE  /\ BufferSize \in Nat \ {0}
         /\ blockConsumed \in Nat /\ blockConsumed <= BufferSize
         /\ unconsumed \in Nat /\ offsetStart \in Nat /\ offsetEnd \in Nat
         /\ size \in Nat /\ position \in Nat /\ Delivered \in Nat
BY Sizes DEF TypeOK, Delivered

(* A call starts with the locals in agreement and nothing copied.          *)
LEMMA FillBytesInv ==
  ASSUME NEW n \in 0..MaxRequest, IInv, FillBytes(n)
  PROVE  IInv'
<1>1. /\ UNCHANGED <<innerVars, blockConsumed, position>>
      /\ pc = "idle" /\ pc' = IF n = 0 THEN "empty" ELSE "loop"
      /\ size' = n /\ offsetStart' = 0
      /\ unconsumed' = BufferSize - blockConsumed
      /\ offsetEnd' = BufferSize - blockConsumed
      /\ output' = [i \in 1..n |-> NoByte]
  BY FillBytes(n) DEF FillBytes
<1>2. /\ BufferSize \in Nat \ {0} /\ blockConsumed \in Nat
      /\ blockConsumed <= BufferSize /\ position \in Nat /\ n \in Nat
  BY IInv, Numbers, AesAssumption DEF IInv
<1>3. Delivered' = Delivered BY <1>1, <1>2 DEF Delivered
<1>4. TypeOK' BY <1>1, <1>2, IInv DEF IInv, TypeOK, innerVars
<1>5. LoopInv' BY <1>1, <1>2, <1>3, IInv DEF IInv, LoopInv
<1>6. ASSUME NEW e \in Nat, NEW t \in 0..PerKey, NEW g \in Nat,
             Generated(e, t, g)
      PROVE  Generated(e, t, g)'
  BY <1>1, <1>3, <1>6 DEF Generated, Keyed, BufferOf, innerVars
<1>7. OutputInv' BY <1>1, <1>2 DEF OutputInv
<1> QED BY <1>4, <1>5, <1>6, <1>7, IInv DEF IInv

(* The early return has nothing to give.                                   *)
LEMMA ReturnEmptyInv == IInv /\ ReturnEmpty => IInv'
<1> SUFFICES ASSUME IInv, ReturnEmpty PROVE IInv' OBVIOUS
<1>1. /\ UNCHANGED <<innerVars, blockConsumed, size, unconsumed, offsetStart,
                     offsetEnd, output, position>>
      /\ pc = "empty" /\ pc' = "idle"
  BY DEF ReturnEmpty, callVars
<1>2. Delivered' = Delivered BY <1>1 DEF Delivered
<1>3. TypeOK' BY <1>1 DEF IInv, TypeOK, innerVars
<1>4. LoopInv' BY <1>1, <1>2 DEF IInv, LoopInv
<1>5. ASSUME NEW e \in Nat, NEW t \in 0..PerKey, NEW g \in Nat,
             Generated(e, t, g)
      PROVE  Generated(e, t, g)'
  BY <1>1, <1>2, <1>5 DEF Generated, Keyed, BufferOf, innerVars
<1>6. OutputInv'
  <2>1. size = 0 /\ output = <<>> /\ position \in Nat
    BY <1>1 DEF IInv, LoopInv, OutputInv, TypeOK
  <2>2. position - 0 = position BY <2>1
  <2>3. Segment(Keystream, position - 0, 0) = <<>> BY <2>1, <2>2, SegmentEmpty
  <2> QED BY <1>1, <2>1, <2>3 DEF OutputInv
<1> QED BY <1>3, <1>4, <1>5, <1>6 DEF IInv

(* A copy from the buffer continues the output with the bytes that follow. *)
LEMMA CopyLemma ==
  ASSUME IInv, pc = "loop", NEW n \in 0..unconsumed, offsetStart + n <= size,
         Copy(offsetStart, n)
  PROVE  output' = [i \in 1..size |-> IF i <= offsetStart + n
                                        THEN Keystream[position + i - 1]
                                        ELSE NoByte]
<1>1. PICK e \in Nat, t \in 0..PerKey, g \in Nat : Generated(e, t, g)
  BY DEF IInv
<1>2. /\ BufferSize \in Nat \ {0} /\ blockConsumed \in Nat /\ unconsumed \in Nat
      /\ offsetStart \in Nat /\ size \in Nat /\ position \in Nat
  BY Numbers DEF IInv
<1>3. blockConsumed + unconsumed = BufferSize /\ n \in Nat /\ n <= unconsumed
  BY <1>2 DEF IInv, LoopInv
<1>4. position + offsetStart + (BufferSize - blockConsumed) = BufferSize * g
  BY <1>1 DEF Generated, Delivered
<1>5. /\ g = 0 => blockConsumed = BufferSize
      /\ g # 0 => block = BufferOf(g - 1)
  BY <1>1 DEF Generated
<1>6. ASSUME NEW i \in 1..size, i > offsetStart, i <= offsetStart + n
      PROVE  block[blockConsumed + (i - offsetStart) - 1]
               = Keystream[position + i - 1]
  <2> DEFINE j == blockConsumed + (i - offsetStart) - 1
  <2>1. j \in 0..(BufferSize - 1) BY <1>2, <1>3, <1>6
  <2>2. g # 0 BY <1>2, <1>3, <1>5, <1>6
  <2>3. block[j] = Keystream[BufferSize * (g - 1) + j]
    BY <1>5, <2>1, <2>2 DEF BufferOf
  <2>4. BufferSize * (g - 1) = BufferSize * g - BufferSize BY <1>2, <1>5, <2>2
  <2>5. BufferSize * (g - 1) + j = position + i - 1
    BY <1>2, <1>4, <1>5, <1>6, <2>4
  <2> QED BY <2>3, <2>5
<1>7. \A i \in 1..size : output[i] = IF i <= offsetStart
                                       THEN Keystream[position + i - 1]
                                       ELSE NoByte
  BY DEF IInv, OutputInv
<1>8. \A i \in 1..size :
        (IF i \in (offsetStart + 1)..(offsetStart + n)
           THEN block[blockConsumed + (i - offsetStart) - 1]
           ELSE output[i])
        = IF i <= offsetStart + n THEN Keystream[position + i - 1] ELSE NoByte
  <2> TAKE i \in 1..size
  <2>1. CASE i <= offsetStart BY <2>1, <1>2, <1>3, <1>7
  <2>2. CASE i > offsetStart /\ i <= offsetStart + n
    BY <2>2, <1>2, <1>3, <1>6
  <2>3. CASE i > offsetStart + n BY <2>3, <1>2, <1>3, <1>7
  <2> QED BY <2>1, <2>2, <2>3, <1>2, <1>3
<1> QED BY <1>8 DEF Copy

(* aesNextBlock makes the next buffer of the keystream, with the old key   *)
(* or with a new one.                                                      *)
LEMMA NextBlockStep ==
  ASSUME NEW e \in Nat, NEW t \in 0..PerKey, Keyed(e, t), NextBlock
  PROVE  \E f \in Nat, u \in 0..PerKey :
           /\ Keyed(f, u)'
           /\ PerKey * f + u = PerKey * e + t + 1
           /\ block' = BufferOf(PerKey * e + t)
           /\ innerKey' # innerKey => t = PerKey /\ f = e + 1
<1>1. /\ ParallelBlocks \in Nat \ {0} /\ PerKey \in Nat \ {0}
      /\ CounterLimit = ParallelBlocks * PerKey
      /\ t \in Nat /\ t <= PerKey
  BY Sizes
<1>2. /\ innerKey = <<2 * e, 2 * e + 1>> /\ outerBlocks = 2 * e + 2
      /\ innerBlocks = ParallelBlocks * t /\ counterInner = ParallelBlocks * t
  BY DEF Keyed
<1>3. CASE counterInner >= CounterLimit
  <2>1. t = PerKey
    <3>1. t < PerKey => ParallelBlocks * t < ParallelBlocks * PerKey BY <1>1
    <3>2. ParallelBlocks * t \in Nat /\ ParallelBlocks * PerKey \in Nat BY <1>1
    <3> QED BY <3>1, <3>2, <1>1, <1>2, <1>3
  <2>2. /\ innerKey' = <<outerBlocks, outerBlocks + 1>>
        /\ outerBlocks' = outerBlocks + 2
        /\ block' = [j \in 0..(BufferSize - 1) |->
                        AesStream[innerKey'][0 * BlockSize + j]]
        /\ innerBlocks' = 0 + ParallelBlocks
        /\ counterInner' = ParallelBlocks
    <3>1. ParallelBlocks * t \in Nat /\ CounterLimit \in Nat BY <1>1
    <3>2. ~(counterInner < CounterLimit) BY ONLY <3>1, <1>2, <1>3
    <3> QED BY <3>2 DEF NextBlock, Reseed, Generate
  <2>3. innerKey' = <<2 * (e + 1), 2 * (e + 1) + 1>>
        /\ outerBlocks' = 2 * (e + 1) + 2
    <3>1. 2 * e + 2 = 2 * (e + 1) OBVIOUS
    <3> QED BY <3>1, <2>2, <1>2
  <2>4. Keyed(e + 1, 1)' BY <2>2, <2>3, <1>1 DEF Keyed
  <2>5. PerKey * (e + 1) + 1 = PerKey * e + t + 1 BY <2>1, <1>1
  <2>6. block' = BufferOf(PerKey * e + t)
    <3>1. ASSUME NEW j \in 0..(BufferSize - 1)
          PROVE  AesStream[innerKey'][0 * BlockSize + j]
                   = Keystream[BufferSize * (PerKey * e + t) + j]
      <4>1. e + 1 \in Nat /\ 0 \in 0..(PerKey - 1) BY <1>1
      <4>2. AesStream[<<2 * (e + 1), 2 * (e + 1) + 1>>]
                     [(ParallelBlocks * 0) * BlockSize + j]
              = Keystream[BufferSize * (PerKey * (e + 1) + 0) + j]
        BY <4>1, GeneratedBlocks
      <4>3. PerKey * (e + 1) + 0 = PerKey * e + t BY <2>1, <1>1
      <4>4. (ParallelBlocks * 0) * BlockSize = 0 * BlockSize BY <1>1
      <4> QED BY <4>2, <4>3, <4>4, <2>3
    <3> QED BY <3>1, <2>2 DEF BufferOf
  <2>7. e + 1 \in Nat /\ 1 \in 0..PerKey BY <1>1
  <2> QED BY <2>1, <2>4, <2>5, <2>6, <2>7
<1>4. CASE counterInner < CounterLimit
  <2>1. t \in 0..(PerKey - 1)
    <3>1. t = PerKey => ParallelBlocks * t = ParallelBlocks * PerKey BY <1>1
    <3>2. ParallelBlocks * t \in Nat /\ ParallelBlocks * PerKey \in Nat BY <1>1
    <3> QED BY <3>1, <3>2, <1>1, <1>2, <1>4
  <2>2. /\ innerKey' = innerKey /\ outerBlocks' = outerBlocks
        /\ block' = [j \in 0..(BufferSize - 1) |->
                        AesStream[innerKey][innerBlocks * BlockSize + j]]
        /\ innerBlocks' = innerBlocks + ParallelBlocks
        /\ counterInner' = counterInner + ParallelBlocks
    <3>1. ParallelBlocks * t \in Nat /\ CounterLimit \in Nat BY <1>1
    <3>2. ~(counterInner >= CounterLimit) BY ONLY <3>1, <1>2, <1>4
    <3> QED BY <3>2 DEF NextBlock, Generate
  <2>3. ParallelBlocks * (t + 1) = ParallelBlocks * t + ParallelBlocks BY <1>1
  <2>4. Keyed(e, t + 1)' BY <2>2, <2>3, <1>2 DEF Keyed
  <2>5. PerKey * e + (t + 1) = PerKey * e + t + 1 BY <1>1
  <2>6. block' = BufferOf(PerKey * e + t)
    <3>1. ASSUME NEW j \in 0..(BufferSize - 1)
          PROVE  AesStream[innerKey][innerBlocks * BlockSize + j]
                   = Keystream[BufferSize * (PerKey * e + t) + j]
      BY <2>1, <1>2, GeneratedBlocks
    <3> QED BY <3>1, <2>2 DEF BufferOf
  <2>7. t + 1 \in 0..PerKey BY <2>1, <1>1
  <2> QED BY <2>2, <2>4, <2>5, <2>6, <2>7
<1> QED BY <1>3, <1>4 DEF NextBlock

(* Using up the buffer and generating the next one.                        *)
LEMMA ConsumeBufferInv == IInv /\ ConsumeBuffer => IInv'
<1> SUFFICES ASSUME IInv, ConsumeBuffer PROVE IInv' OBVIOUS
<1>1. PICK e \in Nat, t \in 0..PerKey, g \in Nat : Generated(e, t, g)
  BY DEF IInv
<1>2. /\ pc = "loop" /\ offsetEnd <= size
      /\ Copy(offsetStart, unconsumed) /\ NextBlock
      /\ blockConsumed' = 0 /\ unconsumed' = BufferSize
      /\ offsetStart' = offsetEnd /\ offsetEnd' = offsetEnd + BufferSize
      /\ pc' = pc /\ size' = size /\ position' = position
  BY DEF ConsumeBuffer
<1>3. /\ BufferSize \in Nat \ {0} /\ blockConsumed \in Nat /\ unconsumed \in Nat
      /\ offsetStart \in Nat /\ offsetEnd \in Nat /\ size \in Nat
      /\ position \in Nat
  BY Numbers DEF IInv
<1>4. blockConsumed + unconsumed = BufferSize
      /\ offsetStart + unconsumed = offsetEnd
  BY <1>2 DEF IInv, LoopInv
<1>5. output' = [i \in 1..size |-> IF i <= offsetEnd
                                     THEN Keystream[position + i - 1]
                                     ELSE NoByte]
  <2>1. unconsumed \in 0..unconsumed /\ offsetStart + unconsumed <= size
    BY <1>2, <1>3, <1>4
  <2> QED BY <2>1, <1>2, <1>4, CopyLemma
<1>6. Delivered' = position + offsetEnd BY <1>2 DEF Delivered
<1>7. PICK f \in Nat, u \in 0..PerKey :
        /\ Keyed(f, u)'
        /\ PerKey * f + u = PerKey * e + t + 1
        /\ block' = BufferOf(PerKey * e + t)
  BY <1>1, <1>2, NextBlockStep DEF Generated
<1>8. Generated(f, u, g + 1)'
  <2>1. g + 1 = PerKey * f + u BY <1>1, <1>7 DEF Generated
  <2>2. position + offsetStart + (BufferSize - blockConsumed) = BufferSize * g
    BY <1>1, <1>2 DEF Generated, Delivered
  <2>3. BufferSize * (g + 1) = BufferSize * g + BufferSize BY <1>3
  <2>4. Delivered' + (BufferSize - blockConsumed') = BufferSize * (g + 1)
    BY <2>2, <2>3, <1>2, <1>3, <1>4, <1>6
  <2>5. block' = BufferOf(g) BY <1>1, <1>7 DEF Generated
  <2>6. (g + 1) - 1 = g /\ g + 1 # 0 OBVIOUS
  <2> QED BY <1>7, <2>1, <2>4, <2>5, <2>6 DEF Generated, BufferOf
<1>9. TypeOK'
  <2>1. /\ innerKey' \in Nat \X Nat /\ outerBlocks' \in Nat
        /\ innerBlocks' \in Nat /\ counterInner' \in Nat
    <3>1. 2 * f \in Nat /\ ParallelBlocks * u \in Nat BY Sizes
    <3> QED BY <3>1, <1>7 DEF Keyed
  <2>2. DOMAIN block' = 0..(BufferSize - 1) BY <1>7 DEF BufferOf
  <2> QED BY <2>1, <2>2, <1>2, <1>3, <1>5 DEF IInv, TypeOK
<1>10. LoopInv' BY <1>2, <1>3, <1>4 DEF LoopInv
<1>11. OutputInv' BY <1>2, <1>5 DEF OutputInv
<1> QED BY <1>8, <1>9, <1>10, <1>11 DEF IInv

(* The last copy leaves a byte in the buffer.                              *)
LEMMA ConsumeRestInv == IInv /\ ConsumeRest => IInv'
<1> SUFFICES ASSUME IInv, ConsumeRest PROVE IInv' OBVIOUS
<1>1. /\ pc = "loop" /\ pc' = "idle" /\ offsetEnd > size
      /\ Copy(offsetStart, size - offsetStart)
      /\ blockConsumed' = blockConsumed + (size - offsetStart)
      /\ position' = position + size
      /\ UNCHANGED <<innerVars, size, unconsumed, offsetStart, offsetEnd>>
  BY DEF ConsumeRest, callVars
<1>2. /\ BufferSize \in Nat \ {0} /\ blockConsumed \in Nat /\ unconsumed \in Nat
      /\ offsetStart \in Nat /\ offsetEnd \in Nat /\ size \in Nat
      /\ position \in Nat
  BY Numbers DEF IInv
<1>3. /\ blockConsumed + unconsumed = BufferSize
      /\ offsetStart + unconsumed = offsetEnd
      /\ offsetStart <= size
  BY <1>1 DEF IInv, LoopInv
<1>4. blockConsumed' \in Nat /\ blockConsumed' < BufferSize
  BY <1>1, <1>2, <1>3
<1>5. output' = Segment(Keystream, position' - size', size')
  <2>1. /\ size - offsetStart \in 0..unconsumed
        /\ offsetStart + (size - offsetStart) = size
    BY <1>1, <1>2, <1>3
  <2>2. output' = [i \in 1..size |-> IF i <= size
                                       THEN Keystream[position + i - 1]
                                       ELSE NoByte]
    BY <2>1, <1>1, <1>2, CopyLemma
  <2>3. \A i \in 1..size : i <= size BY <1>2
  <2>4. position' - size' = position /\ size' = size BY <1>1, <1>2
  <2> QED BY <2>2, <2>3, <2>4 DEF Segment
<1>6. DOMAIN output' = 1..size' BY <1>5 DEF Segment
<1>7. Delivered = position + offsetStart /\ Delivered' = position + size
  BY <1>1 DEF Delivered
<1>8. TypeOK' BY <1>1, <1>2, <1>4, <1>6 DEF IInv, TypeOK, innerVars
<1>9. LoopInv' BY <1>1, <1>4 DEF LoopInv
<1>10. ASSUME NEW e \in Nat, NEW t \in 0..PerKey, NEW g \in Nat,
              Generated(e, t, g)
       PROVE  Generated(e, t, g)'
  <2>1. Delivered' + (BufferSize - blockConsumed')
          = Delivered + (BufferSize - blockConsumed)
    BY <1>1, <1>2, <1>7
  <2>2. g # 0
    BY <1>1, <1>2, <1>3, <1>10 DEF Generated
  <2> QED BY <2>1, <2>2, <1>1, <1>10 DEF Generated, Keyed, BufferOf, innerVars
<1>11. OutputInv' BY <1>1, <1>2, <1>5 DEF OutputInv
<1> QED BY <1>8, <1>9, <1>10, <1>11 DEF IInv

LEMMA StutterInv == IInv /\ UNCHANGED vars => IInv'
<1> SUFFICES ASSUME IInv, UNCHANGED vars PROVE IInv' OBVIOUS
<1> USE DEF vars, innerVars, callVars
<1>1. Delivered' = Delivered BY DEF Delivered
<1>2. TypeOK' BY DEF IInv, TypeOK
<1>3. LoopInv' BY <1>1 DEF IInv, LoopInv
<1>4. ASSUME NEW e \in Nat, NEW t \in 0..PerKey, NEW g \in Nat,
             Generated(e, t, g)
      PROVE  Generated(e, t, g)'
  BY <1>1, <1>4 DEF Generated, Keyed, BufferOf
<1>5. OutputInv' BY DEF IInv, OutputInv
<1> QED BY <1>2, <1>3, <1>4, <1>5 DEF IInv

LEMMA NextInv == IInv /\ [Next]_vars => IInv'
BY FillBytesInv, ReturnEmptyInv, ConsumeBufferInv, ConsumeRestInv, StutterInv
   DEF Next

(* The inductive invariant holds in every reachable state.                 *)
LEMMA Invariance == Spec => []IInv
BY InitInv, NextInv, PTL DEF Spec

-----------------------------------------------------------------------------
(* Every variable of the engine keeps its type.                            *)
THEOREM TypeCorrect == Spec => []TypeOK
<1>1. IInv => TypeOK BY DEF IInv
<1> QED BY <1>1, Invariance, PTL

(* No key of the inner generator is used for more blocks than              *)
(* AES_COUNTER_LIMIT, and m_counterInner counts them.                      *)
THEOREM KeysStayInBudget == Spec => []KeyBudget
<1>1. IInv => KeyBudget
  <2> SUFFICES ASSUME IInv PROVE KeyBudget OBVIOUS
  <2>1. PICK e \in Nat, t \in 0..PerKey : Keyed(e, t) BY DEF IInv, Generated
  <2>2. /\ ParallelBlocks \in Nat /\ PerKey \in Nat /\ t \in Nat /\ t <= PerKey
        /\ CounterLimit = ParallelBlocks * PerKey
    BY Sizes
  <2>3. ParallelBlocks * t <= ParallelBlocks * PerKey BY <2>2
  <2> QED BY <2>1, <2>2, <2>3 DEF Keyed, KeyBudget
<1> QED BY <1>1, Invariance, PTL

(* aesReseedInner is called when the budget of a key is used up and never  *)
(* before, and no block of the outer generator is used twice.              *)
THEOREM KeysAreFresh == Spec => FreshKeys
<1>1. ASSUME IInv, [Next]_vars, innerKey' # innerKey
      PROVE  /\ innerBlocks = CounterLimit
             /\ innerKey'[1] > innerKey[2]
             /\ innerKey'[2] = innerKey'[1] + 1
  <2>1. NextBlock
    BY <1>1 DEF Next, FillBytes, ReturnEmpty, ConsumeBuffer, ConsumeRest, vars,
                innerVars
  <2>2. PICK e \in Nat, t \in 0..PerKey : Keyed(e, t)
    BY <1>1 DEF IInv, Generated
  <2>3. PICK f \in Nat, u \in 0..PerKey :
          /\ Keyed(f, u)'
          /\ innerKey' # innerKey => t = PerKey /\ f = e + 1
    BY <2>1, <2>2, NextBlockStep
  <2>4. /\ innerKey = <<2 * e, 2 * e + 1>>
        /\ innerKey' = <<2 * (e + 1), 2 * (e + 1) + 1>>
        /\ innerBlocks = ParallelBlocks * PerKey
    BY <1>1, <2>2, <2>3 DEF Keyed
  <2> QED BY <2>4, Sizes
<1>2. IInv /\ [Next]_vars =>
        [innerKey' # innerKey =>
           /\ innerBlocks = CounterLimit
           /\ innerKey'[1] > innerKey[2]
           /\ innerKey'[2] = innerKey'[1] + 1]_vars
  BY <1>1
<1> QED BY <1>2, Invariance, PTL DEF Spec, FreshKeys

(* Every memcpy of fillBytes reads inside m_block and writes inside the    *)
(* caller's memory, where the last one ended.  (NoByte marks memory that   *)
(* was not written, so it must be none of the bytes.)                      *)
THEOREM CopiesInBounds ==
  ASSUME \A n \in Nat : Keystream[n] # NoByte
  PROVE  Spec => []MemcpyInBounds
<1>1. IInv => MemcpyInBounds
  <2> SUFFICES ASSUME IInv, pc = "loop", NEW i \in 1..size
               PROVE  output[i] = NoByte <=> i > offsetStart
    BY DEF IInv, LoopInv, MemcpyInBounds
  <2>1. offsetStart \in Nat /\ position + i - 1 \in Nat /\ i \in Nat
    BY Numbers DEF IInv
  <2>2. output[i] = IF i <= offsetStart THEN Keystream[position + i - 1]
                                        ELSE NoByte
    BY DEF IInv, OutputInv
  <2> QED BY <2>1, <2>2
<1> QED BY <1>1, Invariance, PTL

-----------------------------------------------------------------------------
(* Every step of fillBytes is a step of a RandomEngine or leaves it alone. *)
LEMMA EngineStep == IInv /\ [Next]_vars => [Engine!Next]_(Engine!vars)
<1> SUFFICES ASSUME IInv, [Next]_vars
             PROVE  Engine!Next \/ UNCHANGED Engine!vars
  OBVIOUS
<1>1. ASSUME NEW n \in 0..MaxRequest, FillBytes(n) PROVE Engine!Call(n)
  BY <1>1 DEF FillBytes, Engine!Call
<1>2. CASE ReturnEmpty
  <2>1. /\ pc = "empty" /\ pc' = "idle" /\ UNCHANGED <<output, size, position>>
    BY <1>2 DEF ReturnEmpty, callVars
  <2>2. size = 0 /\ output = <<>> /\ position \in Nat
    BY <2>1, Numbers DEF IInv, LoopInv, OutputInv
  <2>3. output' = Segment(Keystream, position, size)
    BY <2>1, <2>2, SegmentEmpty
  <2>4. position' = position + size BY <2>1, <2>2
  <2> QED BY <2>1, <2>3, <2>4
          DEF Engine!Next, Engine!Return, Engine!Segment, Segment
<1>3. CASE ConsumeBuffer
  BY <1>3 DEF ConsumeBuffer, Engine!vars
<1>4. CASE ConsumeRest
  <2>1. /\ pc = "loop" /\ pc' = "idle" /\ position' = position + size
        /\ size' = size
    BY <1>4 DEF ConsumeRest, callVars
  <2>2. output' = Segment(Keystream, position, size)
    <3>1. IInv' BY <1>4, ConsumeRestInv
    <3>2. output' = Segment(Keystream, position' - size', size')
      BY <3>1, <2>1 DEF IInv, OutputInv
    <3>3. position' - size' = position BY <2>1, Numbers DEF IInv
    <3> QED BY <3>2, <3>3, <2>1
  <2> QED BY <2>1, <2>2
          DEF Engine!Next, Engine!Return, Engine!Segment, Segment
<1>5. CASE UNCHANGED vars BY <1>5 DEF vars, callVars, Engine!vars
<1> QED BY <1>1, <1>2, <1>3, <1>4, <1>5 DEF Next, Engine!Next

(* fillBytes of the AES engine hands out the outputs of the generators     *)
(* keyed one after the other, each byte once and in order.                 *)
THEOREM ImplementsRandomEngine == Spec => EngineSpec
<1>1. Init => Engine!Init BY DEF Init, Engine!Init
<1>2. IInv /\ [Next]_vars => [Engine!Next]_(Engine!vars) BY EngineStep
<1> QED BY <1>1, <1>2, Invariance, PTL DEF Spec, EngineSpec, Engine!Spec

-----------------------------------------------------------------------------
(* How long a call takes.                                                  *)

\* The steps that a call has left: one for each buffer that the request uses up,
\* and one for the rest.
StepsLeft ==
  CASE pc = "idle"  -> 0
    [] pc = "empty" -> 1
    [] pc = "loop" /\ offsetEnd > size  -> 1
    [] pc = "loop" /\ offsetEnd <= size -> 2 + (size - offsetEnd) \div BufferSize

\* Each step of a call is one of them.
EachStepCounts == [][pc # "idle" => StepsLeft' = StepsLeft - 1]_vars

\* fillBytes returns after the steps that the size of the request and the rest of
\* the buffer determine: a buffer whose rest is empty does not keep the loop from
\* ending, nor does a request that ends where the buffer does.
THEOREM CallEnds ==
  Spec => [](StepsLeft \in Nat /\ (StepsLeft = 0 <=> pc = "idle")) /\ EachStepCounts
<1>1. ASSUME IInv PROVE StepsLeft \in Nat /\ (StepsLeft = 0 <=> pc = "idle")
  <2>1. /\ pc \in {"idle", "empty", "loop"} /\ BufferSize \in Nat \ {0}
        /\ offsetEnd \in Nat /\ size \in Nat
    BY <1>1, Numbers DEF IInv, TypeOK
  <2>2. CASE pc = "loop" /\ offsetEnd <= size
    <3>1. (size - offsetEnd) \div BufferSize \in Nat BY <2>1, <2>2, Division
    <3>2. StepsLeft = 2 + (size - offsetEnd) \div BufferSize
      BY <2>1, <2>2 DEF StepsLeft
    <3> QED BY <2>2, <3>1, <3>2
  <2>3. CASE ~(pc = "loop" /\ offsetEnd <= size)
    BY <2>1, <2>3 DEF StepsLeft
  <2> QED BY <2>2, <2>3
<1>2. ASSUME IInv, pc # "idle", Next PROVE StepsLeft' = StepsLeft - 1
  <2>1. /\ BufferSize \in Nat \ {0} /\ offsetEnd \in Nat /\ size \in Nat
    BY <1>2, Numbers DEF IInv, TypeOK
  <2>2. CASE ReturnEmpty
    BY <2>2 DEF ReturnEmpty, StepsLeft
  <2>3. CASE ConsumeRest
    <3>1. StepsLeft = 1 BY <2>1, <2>3 DEF ConsumeRest, StepsLeft
    <3>2. StepsLeft' = 0 BY <2>3 DEF ConsumeRest, StepsLeft
    <3> QED BY <3>1, <3>2
  <2>4. CASE ConsumeBuffer
    <3> DEFINE left == size - offsetEnd
    <3>1. /\ pc = "loop" /\ offsetEnd <= size /\ pc' = pc /\ size' = size
          /\ offsetEnd' = offsetEnd + BufferSize /\ left \in Nat
      BY <2>1, <2>4 DEF ConsumeBuffer
    <3>2. StepsLeft = 2 + left \div BufferSize BY <2>1, <3>1 DEF StepsLeft
    <3>3. CASE left < BufferSize
      <4>1. left \div BufferSize = 0 BY <2>1, <3>1, <3>3, DivisionSmall
      <4>2. StepsLeft' = 1 BY <2>1, <3>1, <3>3 DEF StepsLeft
      <4> QED BY <3>2, <4>1, <4>2
    <3>4. CASE BufferSize <= left
      <4>1. left - BufferSize \in Nat /\ size' - offsetEnd' = left - BufferSize
        BY <2>1, <3>1, <3>4
      <4>2. /\ left \div BufferSize \in Nat
            /\ (left - BufferSize) \div BufferSize = left \div BufferSize - 1
        BY <2>1, <3>1, <3>4, Division, DivisionStep
      <4>3. StepsLeft' = 2 + (size' - offsetEnd') \div BufferSize
        BY <2>1, <3>1, <3>4 DEF StepsLeft
      <4> HIDE DEF left
      <4> QED BY <3>2, <4>1, <4>2, <4>3
    <3> QED BY <2>1, <3>1, <3>3, <3>4
  <2> QED BY <1>2, <2>2, <2>3, <2>4 DEF Next, FillBytes
<1> QED BY <1>1, <1>2, Invariance, PTL DEF Spec, EachStepCounts

-----------------------------------------------------------------------------
(* Which keys are made, and what of their output is used.                  *)

\* The key and the vector that the n-th byte of the keystream comes from, by the
\* number of the outer generator's blocks, and where it is in that output.
KeyOf(n) == LET e == n \div (CounterLimit * BlockSize) IN <<2 * e, 2 * e + 1>>
Place(n) == <<KeyOf(n), n % (CounterLimit * BlockSize)>>

\* The inner generator has the key of the next byte to be handed out: it gets a
\* new one when the last byte of the old one has been copied and not before, and
\* two blocks of the outer generator were used for it and for each key before.
KeyedOnDemand ==
  /\ innerKey = KeyOf(Delivered)
  /\ outerBlocks = innerKey[2] + 1

(* The next byte is in the buffer that was generated last, if there is one.*)
LEMMA DeliveredKey ==
  ASSUME IInv
  PROVE  KeyedOnDemand
<1> DEFINE perKey == CounterLimit * BlockSize
           d == BufferSize - blockConsumed
<1>1. PICK e \in Nat, t \in 0..PerKey, g \in Nat : Generated(e, t, g) BY DEF IInv
<1>2. /\ BufferSize \in Nat \ {0} /\ PerKey \in Nat \ {0} /\ perKey \in Nat \ {0}
      /\ perKey = BufferSize * PerKey /\ Delivered \in Nat
      /\ t \in Nat /\ t <= PerKey
  BY Sizes, Numbers DEF IInv
<1>3. /\ innerKey = <<2 * e, 2 * e + 1>> /\ outerBlocks = 2 * e + 2
      /\ t = 0 => e = 0
      /\ g = PerKey * e + t
      /\ Delivered + d = BufferSize * g
      /\ g = 0 => blockConsumed = BufferSize
  BY <1>1 DEF Generated, Keyed
<1>4. d \in 0..BufferSize /\ (Delivered > 0 => d > 0) /\ (g = 0 => d = 0)
  <2>1. blockConsumed \in Nat /\ blockConsumed <= BufferSize BY Numbers DEF IInv
  <2>2. Delivered > 0 => blockConsumed < BufferSize BY DEF IInv, LoopInv
  <2> QED BY <2>1, <2>2, <1>2, <1>3
<1> HIDE DEF perKey, d
<1>5. BufferSize * g = perKey * e + BufferSize * t
  <2>1. BufferSize * (PerKey * e + t) = (BufferSize * PerKey) * e + BufferSize * t
    BY <1>2
  <2> QED BY <2>1, <1>2, <1>3
<1>6. Delivered \div perKey = e
  <2>1. CASE t = 0
    <3>1. e = 0 /\ g = 0 BY <2>1, <1>2, <1>3
    <3>2. Delivered = 0 BY <3>1, <1>2, <1>3, <1>4
    <3> QED BY <3>1, <3>2, <1>2, DivisionSmall
  <2>2. CASE t # 0
    <3> DEFINE r == BufferSize * t - d
    <3>1. g # 0 BY <2>2, <1>2, <1>3
    <3>2. BufferSize * g >= BufferSize BY <3>1, <1>2
    <3>3. BufferSize * t >= BufferSize BY <2>2, <1>2
    <3>4. BufferSize * t <= perKey BY <1>2
    <3>5. BufferSize * t \in Nat /\ perKey * e \in Nat BY <1>2
    <3>6. d > 0
      <4>1. BufferSize * g \in Nat BY <1>2
      <4>2. d = 0 => Delivered >= BufferSize BY <4>1, <3>2, <1>2, <1>3
      <4> QED BY <4>2, <1>2, <1>4
    <3>7. r \in 0..(perKey - 1) BY <3>3, <3>4, <3>5, <3>6, <1>2, <1>4
    <3>8. Delivered = perKey * e + r BY <3>5, <1>2, <1>3, <1>4, <1>5
    <3> HIDE DEF r
    <3> QED BY <3>7, <3>8, <1>2, DivisionUnique
  <2> QED BY <2>1, <2>2
<1> QED BY <1>3, <1>6 DEF KeyedOnDemand, KeyOf, perKey

\* How often aesReseedInner was called depends on the number of bytes that
\* clients drew and not on how their requests were cut: no key is made that is
\* then given up before its budget is used, and none is kept beyond it.
THEOREM KeysOnDemand == Spec => []KeyedOnDemand
BY DeliveredKey, Invariance, PTL

\* No byte that a keyed generator makes is used for two bytes of the keystream,
\* and all of them are used.
THEOREM EachByteOnce ==
  /\ \A m, n \in Nat : Place(m) = Place(n) => m = n
  /\ \A e \in Nat, i \in 0..(CounterLimit * BlockSize - 1) :
       \E n \in Nat : /\ Place(n) = <<<<2 * e, 2 * e + 1>>, i>>
                     /\ Keystream[n] = AesStream[<<2 * e, 2 * e + 1>>][i]
<1> DEFINE perKey == CounterLimit * BlockSize
<1>1. perKey \in Nat \ {0} BY Sizes
<1>2. ASSUME NEW m \in Nat, NEW n \in Nat, Place(m) = Place(n) PROVE m = n
  <2> HIDE DEF perKey
  <2>1. 2 * (m \div perKey) = 2 * (n \div perKey) /\ m % perKey = n % perKey
    <3>1. KeyOf(m) = KeyOf(n) /\ m % perKey = n % perKey
      BY <1>2 DEF Place, perKey
    <3> QED BY <3>1 DEF KeyOf, perKey
  <2>2. /\ m \div perKey \in Nat /\ m = perKey * (m \div perKey) + (m % perKey)
        /\ n \div perKey \in Nat /\ n = perKey * (n \div perKey) + (n % perKey)
    BY <1>1, Division
  <2>3. m \div perKey = n \div perKey BY <2>1, <2>2
  <2> QED BY <2>1, <2>2, <2>3
<1>3. ASSUME NEW e \in Nat, NEW i \in 0..(perKey - 1)
      PROVE  \E n \in Nat : /\ Place(n) = <<<<2 * e, 2 * e + 1>>, i>>
                           /\ Keystream[n] = AesStream[<<2 * e, 2 * e + 1>>][i]
  <2> DEFINE n == perKey * e + i
  <2> HIDE DEF perKey
  <2>1. n \in Nat BY <1>1
  <2>2. n \div perKey = e /\ n % perKey = i BY <1>1, DivisionUnique
  <2> HIDE DEF n
  <2>3. Place(n) = <<<<2 * e, 2 * e + 1>>, i>> BY <2>2 DEF Place, KeyOf, perKey
  <2>4. Keystream[n] = AesStream[<<2 * e, 2 * e + 1>>][i]
    BY <2>1, <2>2 DEF Keystream, perKey
  <2> QED BY <2>1, <2>3, <2>4
<1> QED BY <1>2, <1>3
=============================================================================
