--------------------- MODULE ChaCha20RandomEngineProofs ---------------------
(***************************************************************************)
(* What holds of the ChaCha20 engine for every cipher, every number of     *)
(* lanes and words, every word size that the lanes divide, and every       *)
(* sequence of requests.                                                   *)
(***************************************************************************)
EXTENDS ChaCha20RandomEngine, KeystreamsProofs

\* What m_block holds after k + 1 generations: part k of the keystream.
BufferOf(k) == [j \in 0..(BufferSize - 1) |-> Keystream[BufferSize * k + j]]

\* The locals of fillBytes and m_consumed_byte_count.
LoopInv ==
  /\ pc = "loop" => /\ consumed + unconsumed = BufferSize
                    /\ offsetStart + unconsumed = offsetEnd
                    /\ offsetStart <= size
  /\ pc = "empty" => size = 0
  /\ Delivered > 0 => consumed < BufferSize

\* The state after g generations of blocks.
Generated(g) ==
  /\ Delivered + (BufferSize - consumed) = BufferSize * g
  /\ counter = (Lanes * g) % Modulus
  /\ counterHigh = ((Lanes * g) \div Modulus) % Modulus
  /\ g = 0 => consumed = BufferSize
  /\ g # 0 => block = BufferOf(g - 1)

\* What the caller's memory holds.
OutputInv ==
  /\ pc = "loop" =>
       output = [i \in 1..size |-> IF i <= offsetStart
                                     THEN Keystream[position + i - 1]
                                     ELSE NoByte]
  /\ pc = "empty" => output = <<>>
  /\ pc = "idle" => /\ size <= position
                    /\ output = Segment(Keystream, position - size, size)

IInv == TypeOK /\ LoopInv /\ (\E g \in Nat : Generated(g)) /\ OutputInv

-----------------------------------------------------------------------------
(* The sizes.                                                              *)
LEMMA Sizes ==
  /\ BufferSize \in Nat \ {0}
  /\ BufferSize = Lanes * (Words * WordBytes)
  /\ Words * WordBytes \in Nat \ {0}
  /\ Modulus \div Lanes \in Nat \ {0}
  /\ Modulus = Lanes * (Modulus \div Lanes)
<1> USE ChaCha20Assumption
<1>1. Words * WordBytes \in Nat \ {0} OBVIOUS
<1>2. Lanes * Words * WordBytes = Lanes * (Words * WordBytes) OBVIOUS
<1>3. Lanes * (Words * WordBytes) \in Nat \ {0} BY <1>1
<1>4. /\ Modulus \div Lanes \in Nat
      /\ Modulus = Lanes * (Modulus \div Lanes) + (Modulus % Lanes)
  BY Division
<1>5. Modulus = Lanes * (Modulus \div Lanes) BY <1>4
<1>6. Modulus \div Lanes # 0 BY <1>5
<1> QED BY <1>1, <1>2, <1>3, <1>4, <1>5, <1>6 DEF BufferSize

(* The lane of a byte.                                                     *)
LEMMA LaneInRange == \A j \in Nat : Lane(j) \in 0..(Lanes - 1)
<1> TAKE j \in Nat
<1>1. j \div WordBytes \in Nat BY ChaCha20Assumption, Division
<1> QED BY <1>1, ChaCha20Assumption, Division DEF Lane

(* The low counter word is a multiple of Lanes, and a group of blocks never*)
(* straddles its overflow.                                                 *)
LEMMA Aligned ==
  ASSUME NEW g \in Nat, NEW l \in 0..(Lanes - 1)
  PROVE  /\ (Lanes * g) % Modulus \in 0..(Modulus - Lanes)
         /\ (Lanes * g) \div Modulus \in Nat
         /\ (Lanes * g + l) % Modulus = ((Lanes * g) % Modulus) + l
         /\ (Lanes * g + l) \div Modulus = (Lanes * g) \div Modulus
<1> DEFINE q == Modulus \div Lanes
           a == g \div q
           r == g % q
<1>1. q \in Nat \ {0} /\ Modulus = Lanes * q /\ Modulus \in Nat \ {0}
      /\ Lanes \in Nat \ {0}
  BY Sizes, ChaCha20Assumption
<1> HIDE DEF q
<1>2. a \in Nat /\ r \in 0..(q - 1) /\ g = q * a + r BY <1>1, Division
<1> HIDE DEF a, r
<1>3. Lanes * g = Modulus * a + Lanes * r
  <2>1. Lanes * (q * a + r) = (Lanes * q) * a + Lanes * r BY <1>1, <1>2
  <2> QED BY <2>1, <1>1, <1>2
<1>4. Lanes * r \in 0..(Modulus - Lanes)
  <2>1. r <= q - 1 /\ r \in Nat BY <1>1, <1>2
  <2>2. Lanes * r <= Lanes * (q - 1) BY <2>1, <1>1
  <2>3. Lanes * (q - 1) = Lanes * q - Lanes BY <1>1
  <2>4. Lanes * r \in Nat BY <2>1, <1>1
  <2> QED BY <2>2, <2>3, <2>4, <1>1
<1>5. Lanes * r \in 0..(Modulus - 1) /\ Lanes * r + l \in 0..(Modulus - 1)
  BY <1>1, <1>4
<1>6. /\ (Modulus * a + Lanes * r) % Modulus = Lanes * r
      /\ (Modulus * a + Lanes * r) \div Modulus = a
  BY <1>1, <1>2, <1>5, DivisionUnique, ZenonT(30)
<1>7. /\ (Modulus * a + (Lanes * r + l)) % Modulus = Lanes * r + l
      /\ (Modulus * a + (Lanes * r + l)) \div Modulus = a
  BY <1>1, <1>2, <1>5, DivisionUnique, ZenonT(30)
<1>8. Lanes * g + l = Modulus * a + (Lanes * r + l)
  <2>1. Modulus * a \in Nat /\ Lanes * r \in Nat /\ l \in Nat
    BY <1>1, <1>2, <1>4
  <2>2. \A x, y, z \in Nat : (x + y) + z = x + (y + z) OBVIOUS
  <2>3. (Modulus * a + Lanes * r) + l = Modulus * a + (Lanes * r + l)
    BY ONLY <2>1, <2>2
  <2> QED BY <2>3, <1>3
<1> QED BY <1>2, <1>3, <1>4, <1>6, <1>7, <1>8

(* The increment and its carry count in two words.                         *)
LEMMA CounterStep ==
  ASSUME NEW g \in Nat
  PROVE  LET low == (Lanes * g) % Modulus
             high == (Lanes * g) \div Modulus
             next == (low + Lanes) % Modulus
         IN  /\ next = (Lanes * (g + 1)) % Modulus
             /\ (IF next = 0 THEN ((high % Modulus) + 1) % Modulus
                             ELSE high % Modulus)
                  = ((Lanes * (g + 1)) \div Modulus) % Modulus
<1> DEFINE low == (Lanes * g) % Modulus
           high == (Lanes * g) \div Modulus
           next == (low + Lanes) % Modulus
<1>1. Modulus \in Nat \ {0} /\ Lanes \in Nat \ {0} /\ Lanes * g \in Nat
  BY ChaCha20Assumption
<1>2. /\ low \in 0..(Modulus - Lanes) /\ high \in Nat
      /\ Lanes * g = Modulus * high + low
  <2>1. 0 \in 0..(Lanes - 1) BY <1>1
  <2> QED BY <2>1, <1>1, Aligned, Division
<1> HIDE DEF low, high
<1>3. Lanes * (g + 1) = Lanes * g + Lanes BY <1>1
<1>4. Modulus * high \in Nat BY <1>1, <1>2
<1>5. CASE low + Lanes < Modulus
  <2>1. low + Lanes \in 0..(Modulus - 1) /\ low + Lanes \in Nat
    BY <1>5, <1>1, <1>2
  <2>2. Lanes * (g + 1) = Modulus * high + (low + Lanes)
    BY <1>1, <1>2, <1>3, <1>4
  <2>3. /\ (Modulus * high + (low + Lanes)) % Modulus = low + Lanes
        /\ (Modulus * high + (low + Lanes)) \div Modulus = high
    BY <1>1, <1>2, <2>1, DivisionUnique
  <2>4. next = low + Lanes BY <1>1, <2>1
  <2>5. next # 0 BY <2>4, <1>1, <1>2
  <2> QED BY <2>2, <2>3, <2>4, <2>5 DEF low, high
<1>6. CASE low + Lanes = Modulus
  <2>1. Lanes * (g + 1) = Modulus * (high + 1) + 0
    <3>1. Modulus * (high + 1) = Modulus * high + Modulus BY <1>1, <1>2
    <3> QED BY <3>1, <1>1, <1>2, <1>3, <1>4, <1>6
  <2>2. high + 1 \in Nat /\ 0 \in 0..(Modulus - 1) BY <1>1, <1>2
  <2>3. /\ (Modulus * (high + 1) + 0) % Modulus = 0
        /\ (Modulus * (high + 1) + 0) \div Modulus = high + 1
    BY <1>1, <2>2, DivisionUnique
  <2>4. next = 0 BY <1>1, <1>6
  <2>5. ((high % Modulus) + 1) % Modulus = (high + 1) % Modulus
    BY <1>1, <1>2, ModIncrement
  <2> QED BY <2>1, <2>3, <2>4, <2>5 DEF low, high
<1> QED BY <1>1, <1>2, <1>5, <1>6 DEF low, high

(* The blocks generated with counter Lanes * g are part g of the keystream.*)
LEMMA GeneratedBlocks ==
  ASSUME NEW g \in Nat
  PROVE  FourBlocks((Lanes * g) % Modulus, ((Lanes * g) \div Modulus) % Modulus)
           = BufferOf(g)
<1> DEFINE low == (Lanes * g) % Modulus
           high == ((Lanes * g) \div Modulus) % Modulus
<1> SUFFICES ASSUME NEW j \in 0..(BufferSize - 1)
             PROVE  Cipher[<<(low + Lane(j)) % Modulus, high>>][OffsetInBlock(j)]
                      = Keystream[BufferSize * g + j]
  BY DEF FourBlocks, BufferOf
<1>1. BufferSize \in Nat \ {0} /\ Modulus \in Nat \ {0} /\ j \in Nat
      /\ Lanes \in Nat \ {0}
  BY Sizes, ChaCha20Assumption
<1>2. /\ (BufferSize * g + j) \div BufferSize = g
      /\ (BufferSize * g + j) % BufferSize = j
      /\ BufferSize * g + j \in Nat
  <2>1. BufferSize * g \in Nat BY <1>1
  <2> QED BY <2>1, <1>1, DivisionUnique
<1>3. Lane(j) \in 0..(Lanes - 1) BY <1>1, LaneInRange
<1>4. /\ low \in 0..(Modulus - Lanes)
      /\ (Lanes * g + Lane(j)) % Modulus = low + Lane(j)
      /\ ((Lanes * g + Lane(j)) \div Modulus) % Modulus = high
  BY <1>3, Aligned
<1> HIDE DEF low, high
<1>5. (low + Lane(j)) % Modulus = low + Lane(j)
  <2>1. low + Lane(j) \in 0..(Modulus - 1) BY <1>1, <1>3, <1>4
  <2> QED BY <2>1, <1>1
<1>6. Keystream[BufferSize * g + j]
        = Cipher[<<(Lanes * g + Lane(j)) % Modulus,
                   ((Lanes * g + Lane(j)) \div Modulus) % Modulus>>]
                [OffsetInBlock(j)]
  BY <1>2 DEF Keystream
<1> QED BY <1>4, <1>5, <1>6

-----------------------------------------------------------------------------
(* The constructor establishes the invariant.                              *)
LEMMA InitInv == Init => IInv
<1> SUFFICES ASSUME Init PROVE IInv OBVIOUS
<1> USE DEF Init
<1>1. BufferSize \in Nat \ {0} /\ Modulus \in Nat \ {0} /\ Lanes \in Nat \ {0}
  BY Sizes, ChaCha20Assumption
<1>2. Delivered = 0 BY DEF Delivered
<1>3. TypeOK BY <1>1 DEF TypeOK
<1>4. LoopInv BY <1>2 DEF LoopInv
<1>5. Generated(0)
  <2>1. BufferSize * 0 = 0 /\ Lanes * 0 = 0 BY <1>1
  <2>2. 0 % Modulus = 0 /\ 0 \div Modulus = 0 BY <1>1
  <2> QED BY <2>1, <2>2, <1>1, <1>2 DEF Generated
<1>6. OutputInv BY SegmentEmpty DEF OutputInv
<1> QED BY <1>3, <1>4, <1>5, <1>6 DEF IInv

(* What TypeOK says of the numbers, in the form the steps below use.       *)
LEMMA Numbers ==
  ASSUME TypeOK
  PROVE  /\ BufferSize \in Nat \ {0}
         /\ consumed \in Nat /\ consumed <= BufferSize
         /\ unconsumed \in Nat /\ offsetStart \in Nat /\ offsetEnd \in Nat
         /\ size \in Nat /\ position \in Nat /\ Delivered \in Nat
BY Sizes DEF TypeOK, Delivered

(* A call starts with the locals in agreement and nothing copied.          *)
LEMMA FillBytesInv ==
  ASSUME NEW n \in 0..MaxRequest, IInv, FillBytes(n)
  PROVE  IInv'
<1>1. /\ UNCHANGED <<counter, counterHigh, block, consumed, position>>
      /\ pc = "idle" /\ pc' = IF n = 0 THEN "empty" ELSE "loop"
      /\ size' = n /\ offsetStart' = 0
      /\ unconsumed' = BufferSize - consumed
      /\ offsetEnd' = BufferSize - consumed
      /\ output' = [i \in 1..n |-> NoByte]
  BY FillBytes(n) DEF FillBytes
<1>2. /\ BufferSize \in Nat \ {0} /\ consumed \in Nat /\ consumed <= BufferSize
      /\ position \in Nat /\ n \in Nat
  BY IInv, Numbers, ChaCha20Assumption DEF IInv
<1>3. Delivered' = Delivered BY <1>1, <1>2 DEF Delivered
<1>4. TypeOK' BY <1>1, <1>2, IInv DEF IInv, TypeOK
<1>5. LoopInv' BY <1>1, <1>2, <1>3, IInv DEF IInv, LoopInv
<1>6. \A g \in Nat : Generated(g) => Generated(g)'
  BY <1>1, <1>3 DEF Generated, BufferOf
<1>7. OutputInv' BY <1>1, <1>2 DEF OutputInv
<1> QED BY <1>4, <1>5, <1>6, <1>7, IInv DEF IInv

(* The early return has nothing to give.                                   *)
LEMMA ReturnEmptyInv == IInv /\ ReturnEmpty => IInv'
<1> SUFFICES ASSUME IInv, ReturnEmpty PROVE IInv' OBVIOUS
<1>1. /\ UNCHANGED <<counter, counterHigh, block, consumed, size, unconsumed,
                     offsetStart, offsetEnd, output, position>>
      /\ pc = "empty" /\ pc' = "idle"
  BY DEF ReturnEmpty, callVars
<1>2. Delivered' = Delivered BY <1>1 DEF Delivered
<1>3. TypeOK' BY <1>1 DEF IInv, TypeOK
<1>4. LoopInv' BY <1>1, <1>2 DEF IInv, LoopInv
<1>5. \A g \in Nat : Generated(g) => Generated(g)'
  BY <1>1, <1>2 DEF Generated, BufferOf
<1>6. OutputInv'
  <2>1. size = 0 /\ output = <<>> /\ position \in Nat
    BY <1>1 DEF IInv, LoopInv, OutputInv, TypeOK
  <2>2. position - 0 = position BY <2>1
  <2>3. Segment(Keystream, position - 0, 0) = <<>> BY <2>1, <2>2, SegmentEmpty
  <2> QED BY <1>1, <2>1, <2>3 DEF OutputInv
<1> QED BY <1>3, <1>4, <1>5, <1>6 DEF IInv

(* A copy from the buffer continues the output with the bytes that follow. *)
LEMMA CopyLemma ==
  ASSUME IInv, pc = "loop", NEW n \in 0..unconsumed, offsetStart + n <= size,
         Copy(offsetStart, n)
  PROVE  output' = [i \in 1..size |-> IF i <= offsetStart + n
                                        THEN Keystream[position + i - 1]
                                        ELSE NoByte]
<1>1. PICK g \in Nat : Generated(g) BY DEF IInv
<1>2. /\ BufferSize \in Nat \ {0} /\ consumed \in Nat /\ unconsumed \in Nat
      /\ offsetStart \in Nat /\ size \in Nat /\ position \in Nat
  BY Numbers DEF IInv
<1>3. consumed + unconsumed = BufferSize /\ n \in Nat /\ n <= unconsumed
  BY <1>2 DEF IInv, LoopInv
<1>4. position + offsetStart + (BufferSize - consumed) = BufferSize * g
  BY <1>1 DEF Generated, Delivered
<1>5. ASSUME NEW i \in 1..size, i > offsetStart, i <= offsetStart + n
      PROVE  block[consumed + (i - offsetStart) - 1] = Keystream[position + i - 1]
  <2> DEFINE j == consumed + (i - offsetStart) - 1
  <2>1. j \in 0..(BufferSize - 1) BY <1>2, <1>3, <1>5
  <2>2. g # 0 BY <1>1, <1>2, <1>3, <1>5 DEF Generated
  <2>3. block[j] = Keystream[BufferSize * (g - 1) + j]
    BY <1>1, <2>1, <2>2 DEF Generated, BufferOf
  <2>4. BufferSize * (g - 1) = BufferSize * g - BufferSize BY <1>2, <2>2
  <2>5. BufferSize * (g - 1) + j = position + i - 1
    BY <1>2, <1>4, <1>5, <2>4
  <2> QED BY <2>3, <2>5
<1>6. \A i \in 1..size : output[i] = IF i <= offsetStart
                                       THEN Keystream[position + i - 1]
                                       ELSE NoByte
  BY DEF IInv, OutputInv
<1>7. \A i \in 1..size :
        (IF i \in (offsetStart + 1)..(offsetStart + n)
           THEN block[consumed + (i - offsetStart) - 1]
           ELSE output[i])
        = IF i <= offsetStart + n THEN Keystream[position + i - 1] ELSE NoByte
  <2> TAKE i \in 1..size
  <2>1. CASE i <= offsetStart BY <2>1, <1>2, <1>3, <1>6
  <2>2. CASE i > offsetStart /\ i <= offsetStart + n
    BY <2>2, <1>2, <1>3, <1>5
  <2>3. CASE i > offsetStart + n BY <2>3, <1>2, <1>3, <1>6
  <2> QED BY <2>1, <2>2, <2>3, <1>2, <1>3
<1> QED BY <1>7 DEF Copy

(* Using up the buffer and generating the next one.                        *)
LEMMA ConsumeBufferInv == IInv /\ ConsumeBuffer => IInv'
<1> SUFFICES ASSUME IInv, ConsumeBuffer PROVE IInv' OBVIOUS
<1>1. PICK g \in Nat : Generated(g) BY DEF IInv
<1>2. /\ pc = "loop" /\ offsetEnd <= size
      /\ Copy(offsetStart, unconsumed) /\ GenerateBlocks
      /\ consumed' = 0 /\ unconsumed' = BufferSize
      /\ offsetStart' = offsetEnd /\ offsetEnd' = offsetEnd + BufferSize
      /\ pc' = pc /\ size' = size /\ position' = position
  BY DEF ConsumeBuffer
<1>3. /\ BufferSize \in Nat \ {0} /\ consumed \in Nat /\ unconsumed \in Nat
      /\ offsetStart \in Nat /\ offsetEnd \in Nat /\ size \in Nat
      /\ position \in Nat
  BY Numbers DEF IInv
<1>4. consumed + unconsumed = BufferSize /\ offsetStart + unconsumed = offsetEnd
  BY <1>2 DEF IInv, LoopInv
<1>5. output' = [i \in 1..size |-> IF i <= offsetEnd
                                     THEN Keystream[position + i - 1]
                                     ELSE NoByte]
  <2>1. unconsumed \in 0..unconsumed /\ offsetStart + unconsumed <= size
    BY <1>2, <1>3, <1>4
  <2> QED BY <2>1, <1>2, <1>4, CopyLemma
<1>6. Delivered' = position + offsetEnd BY <1>2 DEF Delivered
<1>7. Generated(g + 1)'
  <2>1. Delivered' + (BufferSize - consumed') = BufferSize * (g + 1)
    <3>1. position + offsetStart + (BufferSize - consumed) = BufferSize * g
      BY <1>1, <1>2 DEF Generated, Delivered
    <3>2. BufferSize * (g + 1) = BufferSize * g + BufferSize BY <1>3
    <3> QED BY <3>1, <3>2, <1>2, <1>3, <1>4, <1>6
  <2>2. /\ counter = (Lanes * g) % Modulus
        /\ counterHigh = ((Lanes * g) \div Modulus) % Modulus
    BY <1>1 DEF Generated
  <2>3. /\ counter' = (Lanes * (g + 1)) % Modulus
        /\ counterHigh' = ((Lanes * (g + 1)) \div Modulus) % Modulus
    BY <2>2, <1>2, CounterStep DEF GenerateBlocks
  <2>4. block' = BufferOf(g) BY <2>2, <1>2, GeneratedBlocks DEF GenerateBlocks
  <2>5. (g + 1) - 1 = g /\ g + 1 # 0 BY <1>1
  <2> QED BY <2>1, <2>3, <2>4, <2>5 DEF Generated, BufferOf
<1>8. TypeOK'
  <2>1. /\ counter' \in 0..(Modulus - 1) /\ counterHigh' \in 0..(Modulus - 1)
        /\ DOMAIN block' = 0..(BufferSize - 1)
    <3>1. Lanes * (g + 1) \in Nat /\ Modulus \in Nat \ {0}
      BY ChaCha20Assumption
    <3>2. (Lanes * (g + 1)) \div Modulus \in Nat BY <3>1
    <3>3. block' = BufferOf(g)
      BY <1>1, <1>2, GeneratedBlocks DEF Generated, GenerateBlocks
    <3> QED BY <1>7, <3>1, <3>2, <3>3, Division DEF Generated, BufferOf
  <2> QED BY <2>1, <1>2, <1>3, <1>5 DEF IInv, TypeOK
<1>9. LoopInv' BY <1>2, <1>3, <1>4 DEF LoopInv
<1>10. OutputInv' BY <1>2, <1>5 DEF OutputInv
<1>11. g + 1 \in Nat BY <1>1
<1> QED BY <1>7, <1>8, <1>9, <1>10, <1>11 DEF IInv

(* The last copy leaves a byte in the buffer.                              *)
LEMMA ConsumeRestInv == IInv /\ ConsumeRest => IInv'
<1> SUFFICES ASSUME IInv, ConsumeRest PROVE IInv' OBVIOUS
<1>1. /\ pc = "loop" /\ pc' = "idle" /\ offsetEnd > size
      /\ Copy(offsetStart, size - offsetStart)
      /\ consumed' = consumed + (size - offsetStart)
      /\ position' = position + size
      /\ UNCHANGED <<counter, counterHigh, block, size, unconsumed,
                     offsetStart, offsetEnd>>
  BY DEF ConsumeRest, callVars
<1>2. /\ BufferSize \in Nat \ {0} /\ consumed \in Nat /\ unconsumed \in Nat
      /\ offsetStart \in Nat /\ offsetEnd \in Nat /\ size \in Nat
      /\ position \in Nat
  BY Numbers DEF IInv
<1>3. /\ consumed + unconsumed = BufferSize
      /\ offsetStart + unconsumed = offsetEnd
      /\ offsetStart <= size
  BY <1>1 DEF IInv, LoopInv
<1>4. consumed' \in Nat /\ consumed' < BufferSize
  BY <1>1, <1>2, <1>3
<1>5. output' = Segment(Keystream, position' - size', size')
  <2>1. /\ size - offsetStart \in 0..unconsumed
        /\ offsetStart + (size - offsetStart) = size
    BY <1>1, <1>2, <1>3
  <2>2. output' = [i \in 1..size |-> IF i <= size
                                       THEN Keystream[position + i - 1]
                                       ELSE NoByte]
    BY <2>1, <1>1, <1>2, CopyLemma
  <2>3. \A i \in 1..size : i <= size BY <1>2
  <2>4. position' - size' = position /\ size' = size BY <1>1, <1>2
  <2> QED BY <2>2, <2>3, <2>4 DEF Segment
<1>6. DOMAIN output' = 1..size' BY <1>5 DEF Segment
<1>7. Delivered = position + offsetStart /\ Delivered' = position + size
  BY <1>1 DEF Delivered
<1>8. TypeOK' BY <1>1, <1>2, <1>4, <1>6 DEF IInv, TypeOK
<1>9. LoopInv' BY <1>1, <1>4 DEF LoopInv
<1>10. \A g \in Nat : Generated(g) => Generated(g)'
  <2> TAKE g \in Nat
  <2> HAVE Generated(g)
  <2>1. Delivered' + (BufferSize - consumed')
          = Delivered + (BufferSize - consumed)
    BY <1>1, <1>2, <1>7
  <2>2. g # 0
    BY <1>1, <1>2, <1>3 DEF Generated
  <2> QED BY <2>1, <2>2, <1>1 DEF Generated, BufferOf
<1>11. OutputInv' BY <1>1, <1>2, <1>5 DEF OutputInv
<1> QED BY <1>8, <1>9, <1>10, <1>11 DEF IInv

LEMMA StutterInv == IInv /\ UNCHANGED vars => IInv'
<1> SUFFICES ASSUME IInv, UNCHANGED vars PROVE IInv' OBVIOUS
<1> USE DEF vars
<1>1. Delivered' = Delivered BY DEF Delivered
<1>2. TypeOK' BY DEF IInv, TypeOK
<1>3. LoopInv' BY <1>1 DEF IInv, LoopInv
<1>4. \A g \in Nat : Generated(g) => Generated(g)'
  BY <1>1 DEF Generated, BufferOf
<1>5. OutputInv' BY DEF IInv, OutputInv
<1> QED BY <1>2, <1>3, <1>4, <1>5 DEF IInv

LEMMA NextInv == IInv /\ [Next]_vars => IInv'
BY FillBytesInv, ReturnEmptyInv, ConsumeBufferInv, ConsumeRestInv, StutterInv
   DEF Next

(* The inductive invariant holds in every reachable state.                 *)
THEOREM Invariance == Spec => []IInv
<1> QED BY InitInv, NextInv, PTL DEF Spec

-----------------------------------------------------------------------------
(* Every variable of the engine keeps its type.                            *)
THEOREM TypeCorrect == Spec => []TypeOK
<1>1. IInv => TypeOK BY DEF IInv
<1> QED BY <1>1, Invariance, PTL

\* A call that gave out bytes has some left.
SomeIsLeft == pc = "idle" /\ position > 0 => consumed < BufferSize

(* "assert(m_consumed_byte_count <= CHACHA20_BUFFER_SIZE); // the supply   *)
(* may deplete": a call that takes all that was left has its loop make the *)
(* next blocks at once, so a call never returns with equality.  Only the   *)
(* constructor leaves a buffer that counts as consumed.                    *)
THEOREM AssertionIsStrict == Spec => []SomeIsLeft
<1>1. IInv => SomeIsLeft BY DEF IInv, LoopInv, SomeIsLeft, Delivered
<1> QED BY <1>1, Invariance, PTL

(* No lane number ever overflows the low counter word: the NOTE at the     *)
(* increment of m_state[12].                                               *)
THEOREM NoLaneOverflow == Spec => []LanesDoNotOverflow
<1>1. IInv => LanesDoNotOverflow
  <2> SUFFICES ASSUME IInv PROVE LanesDoNotOverflow OBVIOUS
  <2>1. PICK g \in Nat : Generated(g) BY DEF IInv
  <2>2. Lanes \in Nat \ {0} /\ Modulus \in Nat \ {0} BY ChaCha20Assumption
  <2>3. 0 \in 0..(Lanes - 1) BY <2>2
  <2>4. (Lanes * g) % Modulus \in 0..(Modulus - Lanes) BY <2>3, Aligned
  <2> QED BY <2>1, <2>2, <2>4 DEF Generated, LanesDoNotOverflow
<1> QED BY <1>1, Invariance, PTL

(* The two counter words count the blocks that were generated, carry and   *)
(* overflow included.                                                      *)
THEOREM CounterIsBlockCount == Spec => []CounterCountsBlocks
<1>1. IInv => CounterCountsBlocks
  <2> SUFFICES ASSUME IInv PROVE CounterCountsBlocks OBVIOUS
  <2> DEFINE w == Words * WordBytes
  <2>1. PICK g \in Nat : Generated(g) BY DEF IInv
  <2>2. /\ w \in Nat \ {0} /\ BufferSize = Lanes * w
        /\ Lanes \in Nat \ {0}
    BY Sizes, ChaCha20Assumption
  <2>3. Delivered + BufferSize - consumed = BufferSize * g
    BY <2>1, Numbers DEF IInv, Generated
  <2> HIDE DEF w
  <2>4. BufferSize * g = w * (Lanes * g) + 0 BY <2>2
  <2>5. (w * (Lanes * g) + 0) \div w = Lanes * g
    <3>1. Lanes * g \in Nat /\ 0 \in 0..(w - 1) BY <2>2
    <3> QED BY <3>1, <2>2, DivisionUnique
  <2>6. (Delivered + BufferSize - consumed) \div w = Lanes * g
    BY <2>3, <2>4, <2>5
  <2> QED BY <2>1, <2>6 DEF Generated, CounterCountsBlocks, w
<1> QED BY <1>1, Invariance, PTL

(* Bytes of the cipher are told from memory that was not written.          *)
LEMMA KeystreamIsWritten == \A n \in Nat : Keystream[n] # NoByte
<1> TAKE n \in Nat
<1> DEFINE j == n % BufferSize
           c == Lanes * (n \div BufferSize) + Lane(j)
           w == Words * WordBytes
<1>1. BufferSize \in Nat \ {0} /\ BufferSize = Lanes * w /\ w \in Nat \ {0}
      /\ Modulus \in Nat \ {0} /\ Lanes \in Nat \ {0} /\ Words \in Nat \ {0}
      /\ WordBytes \in Nat \ {0}
  BY Sizes, ChaCha20Assumption
<1>2. j \in Nat /\ j < BufferSize /\ n \div BufferSize \in Nat
  BY <1>1, Division
<1>3. c \in Nat
  <2>1. Lane(j) \in Nat BY <1>2, LaneInRange, <1>1
  <2>2. Lanes * (n \div BufferSize) \in Nat BY <1>1, <1>2
  <2> QED BY <2>1, <2>2
<1> HIDE DEF c, j
<1>4. c % Modulus \in 0..(Modulus - 1) /\ (c \div Modulus) % Modulus \in 0..(Modulus - 1)
  BY <1>1, <1>3, Division
<1>5. OffsetInBlock(j) \in 0..(w - 1)
  <2> DEFINE v == WordBytes * Lanes
             a == j \div v
             r == j % WordBytes
  <2>1. v \in Nat \ {0} BY <1>1
  <2>2. BufferSize = v * Words BY <1>1
  <2> HIDE DEF v
  <2>3. a \in Nat /\ r \in 0..(WordBytes - 1) BY <2>1, <1>1, <1>2, Division
  <2>4. v * a <= j
    <3>1. j = v * a + (j % v) /\ j % v \in Nat
      BY ONLY <2>1, <1>2, Division
    <3>2. v * a \in Nat BY <2>1, <2>3
    <3> HIDE DEF a
    <3> QED BY <3>1, <3>2
  <2> HIDE DEF a, r
  <2>5. a <= Words - 1
    <3>1. v * a < v * Words BY <2>1, <2>2, <2>3, <2>4, <1>1, <1>2
    <3>2. a >= Words => v * a >= v * Words BY <2>1, <2>3, <1>1
    <3>3. v * a \in Nat /\ v * Words \in Nat BY <2>1, <2>3, <1>1
    <3> QED BY ONLY <3>1, <3>2, <3>3, <2>3, <1>1
  <2>6. a * WordBytes <= (Words - 1) * WordBytes BY <2>3, <2>5, <1>1
  <2>7. (Words - 1) * WordBytes = w - WordBytes BY <1>1
  <2>8. a * WordBytes \in Nat BY <2>3, <1>1
  <2>9. OffsetInBlock(j) = a * WordBytes + r
    BY DEF OffsetInBlock, a, r, v
  <2> QED BY <2>3, <2>6, <2>7, <2>8, <2>9, <1>1
<1>6. Keystream[n] = Cipher[<<c % Modulus, (c \div Modulus) % Modulus>>]
                          [OffsetInBlock(j)]
  BY DEF Keystream, c, j
<1> QED BY <1>4, <1>5, <1>6, ChaCha20Assumption

(* Every memcpy of fillBytes reads inside m_block and writes inside the    *)
(* caller's memory, where the last one ended.                              *)
THEOREM CopiesInBounds == Spec => []MemcpyInBounds
<1>1. IInv => MemcpyInBounds
  <2> SUFFICES ASSUME IInv, pc = "loop", NEW i \in 1..size
               PROVE  output[i] = NoByte <=> i > offsetStart
    BY DEF IInv, LoopInv, MemcpyInBounds
  <2>1. offsetStart \in Nat /\ position + i - 1 \in Nat /\ i \in Nat
    BY Numbers DEF IInv
  <2>2. output[i] = IF i <= offsetStart THEN Keystream[position + i - 1]
                                        ELSE NoByte
    BY DEF IInv, OutputInv
  <2> QED BY <2>1, <2>2, KeystreamIsWritten
<1> QED BY <1>1, Invariance, PTL

-----------------------------------------------------------------------------
(* Every step of fillBytes is a step of a RandomEngine or leaves it alone. *)
LEMMA EngineStep == IInv /\ [Next]_vars => [Engine!Next]_(Engine!vars)
<1> SUFFICES ASSUME IInv, [Next]_vars
             PROVE  Engine!Next \/ UNCHANGED Engine!vars
  OBVIOUS
<1>1. ASSUME NEW n \in 0..MaxRequest, FillBytes(n) PROVE Engine!Call(n)
  BY <1>1 DEF FillBytes, Engine!Call
<1>2. CASE ReturnEmpty
  <2>1. /\ pc = "empty" /\ pc' = "idle" /\ UNCHANGED <<output, size, position>>
    BY <1>2 DEF ReturnEmpty, callVars
  <2>2. size = 0 /\ output = <<>> /\ position \in Nat
    BY <2>1, Numbers DEF IInv, LoopInv, OutputInv
  <2>3. output' = Segment(Keystream, position, size)
    BY <2>1, <2>2, SegmentEmpty
  <2>4. position' = position + size BY <2>1, <2>2
  <2> QED BY <2>1, <2>3, <2>4
          DEF Engine!Next, Engine!Return, Engine!Segment, Segment
<1>3. CASE ConsumeBuffer
  BY <1>3 DEF ConsumeBuffer, Engine!vars
<1>4. CASE ConsumeRest
  <2>1. /\ pc = "loop" /\ pc' = "idle" /\ position' = position + size
        /\ size' = size
    BY <1>4 DEF ConsumeRest, callVars
  <2>2. output' = Segment(Keystream, position, size)
    <3>1. IInv' BY <1>4, ConsumeRestInv
    <3>2. output' = Segment(Keystream, position' - size', size')
      BY <3>1, <2>1 DEF IInv, OutputInv
    <3>3. position' - size' = position BY <2>1, Numbers DEF IInv
    <3> QED BY <3>2, <3>3, <2>1
  <2> QED BY <2>1, <2>2
          DEF Engine!Next, Engine!Return, Engine!Segment, Segment
<1>5. CASE UNCHANGED vars BY <1>5 DEF vars, Engine!vars
<1> QED BY <1>1, <1>2, <1>3, <1>4, <1>5 DEF Next, Engine!Next

(* fillBytes of the ChaCha20 engine hands out the bytes of the cipher's    *)
(* blocks 0, 1, 2, ..., interleaved, each once and in order.               *)
THEOREM ImplementsRandomEngine == Spec => EngineSpec
<1>1. Init => Engine!Init BY DEF Init, Engine!Init
<1>2. IInv /\ [Next]_vars => [Engine!Next]_(Engine!vars) BY EngineStep
<1> QED BY <1>1, <1>2, Invariance, PTL DEF Spec, EngineSpec, Engine!Spec

-----------------------------------------------------------------------------
(* Which byte of which cipher block the n-th byte of the keystream is.     *)

\* The number of the block, as the counter of two words would have it if they
\* never overflowed.
BlockOf(n) == Lanes * (n \div BufferSize) + Lane(n % BufferSize)

\* The words that the block is computed from, and the offset in it.
Words12And13(c) == <<c % Modulus, (c \div Modulus) % Modulus>>
Place(n) == <<Words12And13(BlockOf(n)), OffsetInBlock(n % BufferSize)>>

\* The bytes until the counter of two words is back at its start.
Period == BufferSize * (Modulus * (Modulus \div Lanes))

(* A byte of the buffer is told by its lane and its offset in the block.   *)
LEMMA BytePlace ==
  ASSUME NEW j \in Nat
  PROVE  /\ OffsetInBlock(j) \div WordBytes = (j \div WordBytes) \div Lanes
         /\ OffsetInBlock(j) % WordBytes = j % WordBytes
         /\ j = WordBytes * (Lanes * ((j \div WordBytes) \div Lanes) + Lane(j))
                 + (j % WordBytes)
<1> DEFINE w == j \div WordBytes
           b == j % WordBytes
           h == w \div Lanes
<1>0. WordBytes \in Nat \ {0} /\ Lanes \in Nat \ {0} BY ChaCha20Assumption
<1>1. w \in Nat /\ b \in 0..(WordBytes - 1) /\ j = WordBytes * w + b
  BY <1>0, Division
<1>2. h \in Nat /\ w = Lanes * h + Lane(j)
  <2> HIDE DEF w
  <2>1. w \in Nat BY <1>1
  <2>2. h \in Nat /\ w = Lanes * h + (w % Lanes) BY <2>1, <1>0, Division
  <2> QED BY <2>2 DEF Lane, w
<1>3. j \div (WordBytes * Lanes) = h BY <1>0, DivisionTwice
<1>4. OffsetInBlock(j) = WordBytes * h + b
  <2>1. OffsetInBlock(j) = h * WordBytes + b BY <1>3 DEF OffsetInBlock
  <2> HIDE DEF w, b, h
  <2> QED BY <2>1, <1>0, <1>1, <1>2
<1> HIDE DEF w, b, h
<1>5. OffsetInBlock(j) \div WordBytes = h /\ OffsetInBlock(j) % WordBytes = b
  BY <1>0, <1>1, <1>2, <1>4, DivisionUnique
<1>6. j = WordBytes * (Lanes * h + Lane(j)) + b BY <1>1, <1>2
<1> QED BY <1>5, <1>6 DEF w, b, h

(* The blocks of a period.                                                 *)
LEMMA BlocksOfPeriod ==
  ASSUME NEW n \in 0..(Period - 1)
  PROVE  /\ n \div BufferSize \in Nat
         /\ Lane(n % BufferSize) \in 0..(Lanes - 1)
         /\ BlockOf(n) \in 0..(Modulus * Modulus - 1)
<1> DEFINE q == Modulus \div Lanes
           g == n \div BufferSize
           j == n % BufferSize
<1>1. /\ q \in Nat \ {0} /\ Modulus = Lanes * q /\ Modulus \in Nat \ {0}
      /\ Lanes \in Nat \ {0} /\ BufferSize \in Nat \ {0}
  BY Sizes, ChaCha20Assumption
<1>2. n \in Nat /\ n < BufferSize * (Modulus * q)
  <2>1. Modulus * q \in Nat BY <1>1
  <2>2. BufferSize * (Modulus * q) \in Nat BY <1>1, <2>1
  <2> QED BY <2>2 DEF Period
<1>3. g \in Nat /\ j \in 0..(BufferSize - 1) /\ n = BufferSize * g + j
  BY <1>1, <1>2, Division
<1>4. Lane(j) \in 0..(Lanes - 1) BY <1>3, LaneInRange
<1> HIDE DEF q, g, j
<1>5. g < Modulus * q
  <2>1. Modulus * q \in Nat BY <1>1
  <2> DEFINE m == Modulus * q
  <2> HIDE DEF m
  <2>2. m \in Nat /\ n < BufferSize * m BY <2>1, <1>2 DEF m
  <2>3. ASSUME m <= g PROVE FALSE
    <3>1. BufferSize * m <= BufferSize * g BY <2>2, <2>3, <1>1, <1>3
    <3>2. BufferSize * g \in Nat /\ BufferSize * m \in Nat BY <1>1, <1>3, <2>2
    <3> QED BY <3>1, <3>2, <2>2, <1>2, <1>3
  <2>4. g < m BY <2>2, <2>3, <1>3
  <2> QED BY <2>4 DEF m
<1>6. Lanes * g + Lane(j) <= Modulus * Modulus - 1
  <2>1. Modulus * q \in Nat BY <1>1
  <2>2. g <= Modulus * q - 1 BY <1>3, <1>5, <2>1
  <2>3. Lanes * g <= Lanes * (Modulus * q - 1) BY <2>1, <2>2, <1>1, <1>3
  <2>4. Lanes * (Modulus * q - 1) = Lanes * (Modulus * q) - Lanes BY <2>1, <1>1
  <2>5. Lanes * (Modulus * q) = Modulus * (Lanes * q) BY <1>1
  <2>6. Lanes * g \in Nat /\ Modulus * Modulus \in Nat BY <1>1, <1>3
  <2>7. Lanes * (Modulus * q) = Modulus * Modulus BY <2>5, <1>1
  <2> QED BY <2>3, <2>4, <2>6, <2>7, <1>1, <1>4
<1>7. Lanes * g + Lane(j) \in Nat BY <1>1, <1>3, <1>4
<1> QED BY <1>1, <1>3, <1>4, <1>6, <1>7 DEF BlockOf, g, j

(* The two words tell the blocks of a period apart.                        *)
LEMMA WordsTellBlock ==
  ASSUME NEW c \in 0..(Modulus * Modulus - 1), NEW d \in 0..(Modulus * Modulus - 1),
         Words12And13(c) = Words12And13(d)
  PROVE  c = d
<1>1. Modulus \in Nat \ {0} BY ChaCha20Assumption
<1>2. ASSUME NEW e \in 0..(Modulus * Modulus - 1)
      PROVE  /\ e % Modulus \in Nat
             /\ e \div Modulus \in 0..(Modulus - 1)
             /\ (e \div Modulus) % Modulus = e \div Modulus
             /\ e = Modulus * (e \div Modulus) + (e % Modulus)
  <2> DEFINE h == e \div Modulus
             l == e % Modulus
  <2>1. Modulus * Modulus \in Nat BY <1>1
  <2>2. e \in Nat /\ e < Modulus * Modulus BY <2>1
  <2>3. h \in Nat /\ l \in 0..(Modulus - 1) /\ e = Modulus * h + l
    BY <1>1, <2>2, Division
  <2> HIDE DEF h, l
  <2>4. ASSUME Modulus <= h PROVE FALSE
    <3>1. Modulus * Modulus <= Modulus * h BY <2>3, <2>4, <1>1
    <3>2. Modulus * h \in Nat BY <2>3, <1>1
    <3> QED BY <3>1, <3>2, <2>1, <2>2, <2>3
  <2>5. h \in 0..(Modulus - 1) BY <2>3, <2>4, <1>1
  <2>6. h % Modulus = h BY <2>5, <1>1
  <2> QED BY <2>3, <2>5, <2>6 DEF h, l
<1>3. c % Modulus = d % Modulus /\ (c \div Modulus) % Modulus = (d \div Modulus) % Modulus
  BY DEF Words12And13
<1> QED BY <1>2, <1>3

(* A byte of the keystream is the byte of the cipher at its place.         *)
LEMMA KeystreamAt ==
  ASSUME NEW n \in Nat
  PROVE  Keystream[n] = Cipher[Place(n)[1]][Place(n)[2]]
BY DEF Keystream, Place, Words12And13, BlockOf

\* Whatever the requests were, what a call returns are the bytes of the cipher at
\* the places that follow those of the calls before it.
EveryByteHasItsPlace ==
  pc = "idle" =>
    \A i \in 1..size :
      LET place == Place(position - size + i - 1)
      IN  output[i] = Cipher[place[1]][place[2]]

\* The bytes that clients get are the bytes of cipher blocks at known places,
\* which the next two theorems tell apart.
THEOREM BytesHavePlaces == Spec => []EveryByteHasItsPlace
<1>1. IInv => EveryByteHasItsPlace
  <2> SUFFICES ASSUME IInv, pc = "idle", NEW i \in 1..size
               PROVE  output[i] = Keystream[position - size + i - 1]
                      /\ position - size + i - 1 \in Nat
    BY KeystreamAt DEF EveryByteHasItsPlace
  <2>1. /\ size <= position /\ size \in Nat /\ position \in Nat
        /\ output = Segment(Keystream, position - size, size)
    BY DEF IInv, TypeOK, OutputInv
  <2> QED BY <2>1 DEF Segment
<1> QED BY <1>1, Invariance, PTL

\* No byte of a cipher block is used for two bytes of the keystream before all
\* values of both counter words have been used.  With the low word alone, the
\* NOTE at the increment says, the period would end after 256 GB.
THEOREM NoByteTwice ==
  \A m, n \in 0..(Period - 1) : Place(m) = Place(n) => m = n
<1> SUFFICES ASSUME NEW m \in 0..(Period - 1), NEW n \in 0..(Period - 1),
                    Place(m) = Place(n)
             PROVE  m = n
  OBVIOUS
<1> DEFINE g == m \div BufferSize
           i == m % BufferSize
           h == n \div BufferSize
           j == n % BufferSize
<1>1. /\ BufferSize \in Nat \ {0} /\ Lanes \in Nat \ {0} /\ WordBytes \in Nat \ {0}
  BY Sizes, ChaCha20Assumption
<1>2. m \in Nat /\ n \in Nat OBVIOUS
<1>3. /\ i \in Nat /\ m = BufferSize * g + i
      /\ j \in Nat /\ n = BufferSize * h + j
  BY <1>1, <1>2, Division
<1>4. /\ g \in Nat /\ Lane(i) \in 0..(Lanes - 1)
      /\ h \in Nat /\ Lane(j) \in 0..(Lanes - 1)
  BY BlocksOfPeriod
<1>5. BlockOf(m) = BlockOf(n)
  <2>1. Words12And13(BlockOf(m)) = Words12And13(BlockOf(n)) BY DEF Place
  <2> QED BY <2>1, BlocksOfPeriod, WordsTellBlock
<1>6. OffsetInBlock(i) = OffsetInBlock(j) BY DEF Place
<1>7. Lanes * g + Lane(i) = Lanes * h + Lane(j) BY <1>5 DEF BlockOf
<1> HIDE DEF g, h, i, j
<1>8. g = h /\ Lane(i) = Lane(j)
  <2>1. (Lanes * g + Lane(i)) \div Lanes = g /\ (Lanes * g + Lane(i)) % Lanes = Lane(i)
    BY <1>1, <1>4, DivisionUnique
  <2>2. (Lanes * h + Lane(j)) \div Lanes = h /\ (Lanes * h + Lane(j)) % Lanes = Lane(j)
    BY <1>1, <1>4, DivisionUnique
  <2> QED BY <2>1, <2>2, <1>7
<1>9. i = j BY <1>3, <1>6, <1>8, BytePlace
<1> QED BY <1>3, <1>8, <1>9

\* And then it starts anew: a client that draws more than a period gets the
\* same bytes again, since nothing follows the high word.
THEOREM PeriodRepeats == \A n \in Nat : Keystream[n + Period] = Keystream[n]
<1> SUFFICES ASSUME NEW n \in Nat PROVE Keystream[n + Period] = Keystream[n]
  OBVIOUS
<1> DEFINE q == Modulus \div Lanes
           g == n \div BufferSize
           j == n % BufferSize
<1>1. /\ q \in Nat \ {0} /\ Modulus = Lanes * q /\ Modulus \in Nat \ {0}
      /\ Lanes \in Nat \ {0} /\ BufferSize \in Nat \ {0}
  BY Sizes, ChaCha20Assumption
<1>2. g \in Nat /\ j \in 0..(BufferSize - 1) /\ n = BufferSize * g + j
  BY <1>1, Division
<1>3. Lane(j) \in Nat BY <1>1, <1>2, LaneInRange
<1>4. n + Period = BufferSize * (g + Modulus * q) + j
  <2> HIDE DEF g, j, q
  <2>1. Period = BufferSize * (Modulus * q) BY DEF Period, q
  <2>2. Modulus * q \in Nat BY <1>1
  <2> DEFINE m == Modulus * q
  <2> HIDE DEF m
  <2>3. m \in Nat /\ Period = BufferSize * m BY <2>1, <2>2 DEF m
  <2>4. BufferSize * (g + m) = BufferSize * g + BufferSize * m BY <2>3, <1>1, <1>2
  <2>5. BufferSize * g \in Nat /\ BufferSize * m \in Nat BY <2>3, <1>1, <1>2
  <2>6. n + BufferSize * m = BufferSize * (g + m) + j BY <2>4, <2>5, <1>2
  <2> QED BY <2>3, <2>6 DEF m
<1>5. /\ (n + Period) \div BufferSize = g + Modulus * q
      /\ (n + Period) % BufferSize = j
  <2> HIDE DEF g, j, q
  <2>1. Modulus * q \in Nat BY <1>1
  <2>2. g + Modulus * q \in Nat BY <2>1, <1>2
  <2> QED BY <2>2, <1>1, <1>2, <1>4, DivisionUnique
<1>6. BlockOf(n + Period) = Modulus * Modulus + BlockOf(n)
  <2> HIDE DEF g, j, q
  <2>1. Lanes * (g + Modulus * q) = Lanes * g + Modulus * (Lanes * q) BY <1>1, <1>2
  <2>2. Lanes * (g + Modulus * q) = Lanes * g + Modulus * Modulus BY <2>1, <1>1
  <2>3. Lanes * g \in Nat /\ Modulus * Modulus \in Nat BY <1>1, <1>2
  <2>4. BlockOf(n + Period) = Lanes * (g + Modulus * q) + Lane(j)
    BY <1>5 DEF BlockOf
  <2>5. BlockOf(n) = Lanes * g + Lane(j) BY DEF BlockOf, g, j
  <2> QED BY <2>2, <2>3, <2>4, <2>5, <1>3
<1>7. BlockOf(n) \in Nat
  <2> HIDE DEF g, j, q
  <2>1. Lanes * g \in Nat BY <1>1, <1>2
  <2>2. BlockOf(n) = Lanes * g + Lane(j) BY DEF BlockOf, g, j
  <2> QED BY <2>1, <2>2, <1>3
<1>8. ASSUME NEW c \in Nat
      PROVE  Words12And13(Modulus * Modulus + c) = Words12And13(c)
  <2> DEFINE a == c \div Modulus
             r == c % Modulus
             b == a \div Modulus
             t == a % Modulus
  <2>1. a \in Nat /\ r \in 0..(Modulus - 1) /\ c = Modulus * a + r
    BY <1>1, Division
  <2> HIDE DEF a, r
  <2>2. b \in Nat /\ t \in 0..(Modulus - 1) /\ a = Modulus * b + t
    BY <2>1, <1>1, Division
  <2> HIDE DEF b, t
  <2>3. Modulus * Modulus + c = Modulus * (Modulus + a) + r
    <3>1. Modulus * (Modulus + a) = Modulus * Modulus + Modulus * a BY <1>1, <2>1
    <3>2. Modulus * Modulus \in Nat /\ Modulus * a \in Nat BY <1>1, <2>1
    <3> QED BY <3>1, <3>2, <2>1
  <2>4. Modulus + a \in Nat BY <1>1, <2>1
  <2>5. /\ (Modulus * Modulus + c) \div Modulus = Modulus + a
        /\ (Modulus * Modulus + c) % Modulus = r
    BY <2>1, <2>3, <2>4, <1>1, DivisionUnique
  <2>6. Modulus + a = Modulus * (1 + b) + t
    <3>1. Modulus * (1 + b) = Modulus + Modulus * b BY <1>1, <2>2
    <3>2. Modulus * b \in Nat BY <1>1, <2>2
    <3> QED BY <3>1, <3>2, <2>2, <1>1
  <2>7. (Modulus + a) % Modulus = t
    <3>1. 1 + b \in Nat BY <2>2
    <3> QED BY <3>1, <2>2, <2>6, <1>1, DivisionUnique
  <2> QED BY <2>5, <2>7 DEF Words12And13, a, r, t
<1>9. Place(n + Period) = Place(n)
  <2>1. Words12And13(BlockOf(n + Period)) = Words12And13(BlockOf(n))
    BY <1>6, <1>7, <1>8
  <2> QED BY <2>1, <1>5 DEF Place
<1>10. n + Period \in Nat
  <2> HIDE DEF g, j, q
  <2>1. Modulus * q \in Nat BY <1>1
  <2>2. g + Modulus * q \in Nat BY <2>1, <1>2
  <2> DEFINE m == g + Modulus * q
  <2>3. BufferSize * m \in Nat BY <1>1, <2>2
  <2> QED BY <2>3, <1>2, <1>4
<1> QED BY <1>9, <1>10, KeystreamAt

\* "The first word is generated with counter 0, the second with counter 1 and so
\* forth", the header comment of ChaCha20RandomEngine.cpp says, which is what the
\* code does up to the number of lanes: it is the fifth word of four lanes, not
\* the fourth, that comes from the first block again.
THEOREM WordsComeFromLanes ==
  ASSUME NEW g \in Nat, NEW h \in 0..(Words - 1), NEW l \in 0..(Lanes - 1),
         NEW b \in 0..(WordBytes - 1)
  PROVE  Place(BufferSize * g + (WordBytes * (Lanes * h + l) + b))
           = <<Words12And13(Lanes * g + l), WordBytes * h + b>>
<1> DEFINE w == Lanes * h + l
           j == WordBytes * w + b
<1>1. /\ BufferSize \in Nat \ {0} /\ BufferSize = Lanes * (Words * WordBytes)
      /\ Lanes \in Nat \ {0} /\ WordBytes \in Nat \ {0} /\ Words \in Nat \ {0}
      /\ h \in Nat /\ l \in Nat /\ b \in Nat
  BY Sizes, ChaCha20Assumption
<1>2. w \in 0..(Lanes * Words - 1) /\ w \in Nat
  <2>1. Lanes * h <= Lanes * (Words - 1) BY <1>1
  <2>2. Lanes * (Words - 1) = Lanes * Words - Lanes BY <1>1
  <2>3. Lanes * h \in Nat /\ Lanes * Words \in Nat BY <1>1
  <2> QED BY <2>1, <2>2, <2>3, <1>1
<1>3. w % Lanes = l /\ w \div Lanes = h BY <1>1, DivisionUnique
<1> HIDE DEF w
<1>4. j \in 0..(BufferSize - 1)
  <2> DEFINE m == Lanes * Words
  <2>1. m \in Nat /\ w <= m - 1 BY <1>1, <1>2
  <2>2. BufferSize = WordBytes * m BY <1>1
  <2> HIDE DEF m
  <2>3. WordBytes * w <= WordBytes * (m - 1) BY <1>1, <1>2, <2>1
  <2>4. WordBytes * (m - 1) = WordBytes * m - WordBytes BY <1>1, <2>1
  <2>5. WordBytes * w \in Nat /\ WordBytes * m \in Nat BY <1>1, <1>2, <2>1
  <2> QED BY <2>2, <2>3, <2>4, <2>5, <1>1
<1>5. j \div WordBytes = w /\ j % WordBytes = b BY <1>1, <1>2, DivisionUnique
<1> HIDE DEF j
<1>6. j \in Nat BY <1>1, <1>4
<1>7. Lane(j) = l BY <1>3, <1>5 DEF Lane
<1>8. OffsetInBlock(j) = WordBytes * h + b
  <2>1. j \div (WordBytes * Lanes) = h BY <1>1, <1>3, <1>5, <1>6, DivisionTwice
  <2>2. OffsetInBlock(j) = h * WordBytes + b BY <2>1, <1>5 DEF OffsetInBlock
  <2> QED BY <2>2, <1>1
<1>9. (BufferSize * g + j) \div BufferSize = g /\ (BufferSize * g + j) % BufferSize = j
  BY <1>1, <1>4, DivisionUnique
<1>10. BlockOf(BufferSize * g + j) = Lanes * g + l BY <1>7, <1>9 DEF BlockOf
<1>11. Place(BufferSize * g + j) = <<Words12And13(Lanes * g + l), WordBytes * h + b>>
  BY <1>8, <1>9, <1>10 DEF Place
<1> QED BY <1>11 DEF j, w

-----------------------------------------------------------------------------
(* How long a call takes.                                                  *)

\* The steps that a call has left: one for each buffer that the request uses up,
\* and one for the rest.
StepsLeft ==
  CASE pc = "idle"  -> 0
    [] pc = "empty" -> 1
    [] pc = "loop" /\ offsetEnd > size  -> 1
    [] pc = "loop" /\ offsetEnd <= size -> 2 + (size - offsetEnd) \div BufferSize

\* Each step of a call is one of them.
EachStepCounts == [][pc # "idle" => StepsLeft' = StepsLeft - 1]_vars

\* fillBytes returns after the steps that the size of the request and the rest of
\* the buffer determine: a buffer whose rest is empty does not keep the loop from
\* ending, nor does a request that ends where the buffer does.
THEOREM CallEnds ==
  Spec => [](StepsLeft \in Nat /\ (StepsLeft = 0 <=> pc = "idle")) /\ EachStepCounts
<1>1. ASSUME IInv PROVE StepsLeft \in Nat /\ (StepsLeft = 0 <=> pc = "idle")
  <2>1. /\ pc \in {"idle", "empty", "loop"} /\ BufferSize \in Nat \ {0}
        /\ offsetEnd \in Nat /\ size \in Nat
    BY <1>1, Numbers DEF IInv, TypeOK
  <2>2. CASE pc = "loop" /\ offsetEnd <= size
    <3>1. (size - offsetEnd) \div BufferSize \in Nat BY <2>1, <2>2, Division
    <3>2. StepsLeft = 2 + (size - offsetEnd) \div BufferSize
      BY <2>1, <2>2 DEF StepsLeft
    <3> QED BY <2>2, <3>1, <3>2
  <2>3. CASE ~(pc = "loop" /\ offsetEnd <= size)
    BY <2>1, <2>3 DEF StepsLeft
  <2> QED BY <2>2, <2>3
<1>2. ASSUME IInv, pc # "idle", Next PROVE StepsLeft' = StepsLeft - 1
  <2>1. /\ BufferSize \in Nat \ {0} /\ offsetEnd \in Nat /\ size \in Nat
    BY <1>2, Numbers DEF IInv, TypeOK
  <2>2. CASE ReturnEmpty
    BY <2>2 DEF ReturnEmpty, StepsLeft
  <2>3. CASE ConsumeRest
    <3>1. StepsLeft = 1 BY <2>1, <2>3 DEF ConsumeRest, StepsLeft
    <3>2. StepsLeft' = 0 BY <2>3 DEF ConsumeRest, StepsLeft
    <3> QED BY <3>1, <3>2
  <2>4. CASE ConsumeBuffer
    <3> DEFINE left == size - offsetEnd
    <3>1. /\ pc = "loop" /\ offsetEnd <= size /\ pc' = pc /\ size' = size
          /\ offsetEnd' = offsetEnd + BufferSize /\ left \in Nat
      BY <2>1, <2>4 DEF ConsumeBuffer
    <3>2. StepsLeft = 2 + left \div BufferSize BY <2>1, <3>1 DEF StepsLeft
    <3>3. CASE left < BufferSize
      <4>1. left \div BufferSize = 0 BY <2>1, <3>1, <3>3, DivisionSmall
      <4>2. StepsLeft' = 1 BY <2>1, <3>1, <3>3 DEF StepsLeft
      <4> QED BY <3>2, <4>1, <4>2
    <3>4. CASE BufferSize <= left
      <4>1. left - BufferSize \in Nat /\ size' - offsetEnd' = left - BufferSize
        BY <2>1, <3>1, <3>4
      <4>2. /\ left \div BufferSize \in Nat
            /\ (left - BufferSize) \div BufferSize = left \div BufferSize - 1
        BY <2>1, <3>1, <3>4, Division, DivisionStep
      <4>3. StepsLeft' = 2 + (size' - offsetEnd') \div BufferSize
        BY <2>1, <3>1, <3>4 DEF StepsLeft
      <4> HIDE DEF left
      <4> QED BY <3>2, <4>1, <4>2, <4>3
    <3> QED BY <2>1, <3>1, <3>3, <3>4
  <2> QED BY <1>2, <2>2, <2>3, <2>4 DEF Next, FillBytes
<1> QED BY <1>1, <1>2, Invariance, PTL DEF Spec, EachStepCounts
=============================================================================
