-------------------------- MODULE KeystreamsProofs --------------------------
(***************************************************************************)
(* Facts about segments of a keystream: they are sequences, adjacent ones  *)
(* join, and one can be cut anywhere.  Every engine's proof rests on them. *)
(***************************************************************************)
EXTENDS Keystreams, SequenceTheorems, TLAPS

\* The set of the bytes of a keystream.
BytesOf(ks) == {ks[i] : i \in Nat}

(* A segment is a sequence over any set that holds its bytes; used for the *)
(* memory fillBytes writes.                                                *)
LEMMA SegmentIsSeq ==
  ASSUME NEW ks, NEW from \in Nat, NEW n \in Nat, NEW S,
         \A i \in from..(from + n - 1) : ks[i] \in S
  PROVE  /\ Segment(ks, from, n) \in Seq(S)
         /\ Len(Segment(ks, from, n)) = n
         /\ \A i \in 1..n : Segment(ks, from, n)[i] = ks[from + i - 1]
<1>1. \A i \in 1..n : ks[from + i - 1] \in S
  <2> TAKE i \in 1..n
  <2>1. from + i - 1 \in from..(from + n - 1) OBVIOUS
  <2> QED BY <2>1
<1>2. Segment(ks, from, n) \in [1..n -> S] BY <1>1 DEF Segment
<1> QED BY <1>2 DEF Segment

(* The same without a bound on the bytes.                                  *)
LEMMA SegmentProperties ==
  ASSUME NEW ks, NEW from \in Nat, NEW n \in Nat
  PROVE  /\ Segment(ks, from, n) \in Seq(BytesOf(ks))
         /\ Len(Segment(ks, from, n)) = n
         /\ \A i \in 1..n : Segment(ks, from, n)[i] = ks[from + i - 1]
<1>1. \A i \in from..(from + n - 1) : ks[i] \in BytesOf(ks)
  BY DEF BytesOf
<1> QED BY <1>1, SegmentIsSeq

(* Nothing drawn, nothing written.                                         *)
LEMMA SegmentEmpty ==
  ASSUME NEW ks, NEW from \in Nat
  PROVE  Segment(ks, from, 0) = <<>>
<1>1. /\ Segment(ks, from, 0) \in Seq(BytesOf(ks))
      /\ Len(Segment(ks, from, 0)) = 0
  BY SegmentProperties
<1> QED BY <1>1, EmptySeq

(* Adjacent segments join: a request may be served in pieces.              *)
LEMMA SegmentConcat ==
  ASSUME NEW ks, NEW from \in Nat, NEW m \in Nat, NEW n \in Nat
  PROVE  Segment(ks, from, m) \o Segment(ks, from + m, n)
           = Segment(ks, from, m + n)
<1> DEFINE S == BytesOf(ks)
           a == Segment(ks, from, m)
           b == Segment(ks, from + m, n)
           c == Segment(ks, from, m + n)
<1>1. /\ a \in Seq(S) /\ Len(a) = m
      /\ \A i \in 1..m : a[i] = ks[from + i - 1]
  BY SegmentProperties
<1>2. /\ b \in Seq(S) /\ Len(b) = n
      /\ \A i \in 1..n : b[i] = ks[(from + m) + i - 1]
  <2>1. from + m \in Nat OBVIOUS
  <2> QED BY <2>1, SegmentProperties
<1>3. /\ c \in Seq(S) /\ Len(c) = m + n
      /\ \A i \in 1..(m + n) : c[i] = ks[from + i - 1]
  <2>1. m + n \in Nat OBVIOUS
  <2> QED BY <2>1, SegmentProperties
<1> HIDE DEF S, a, b, c
<1> DEFINE d == a \o b
<1>4. /\ d \in Seq(S) /\ Len(d) = m + n
      /\ \A i \in 1..(m + n) : d[i] = IF i <= m THEN a[i] ELSE b[i - m]
  BY <1>1, <1>2, ConcatProperties, ZenonT(30)
<1> HIDE DEF d
<1>5. \A i \in 1..(m + n) : d[i] = c[i]
  <2> TAKE i \in 1..(m + n)
  <2>1. CASE i <= m BY <2>1, <1>1, <1>3, <1>4
  <2>2. CASE i > m
    <3>1. i - m \in 1..n /\ (from + m) + (i - m) - 1 = from + i - 1 BY <2>2
    <3>2. b[i - m] = ks[from + i - 1] BY <3>1, <1>2
    <3> QED BY <3>2, <2>2, <1>3, <1>4
  <2> QED BY <2>1, <2>2
<1>6. d = c BY <1>3, <1>4, <1>5, SeqEqual
<1> QED BY <1>6 DEF a, b, c, d

(* A segment cut in two gives two segments: a read takes the first part of *)
(* what is buffered and leaves the rest.                                   *)
LEMMA SegmentSplit ==
  ASSUME NEW ks, NEW from \in Nat, NEW n \in Nat, NEW k \in 0..n
  PROVE  /\ SubSeq(Segment(ks, from, n), 1, k) = Segment(ks, from, k)
         /\ SubSeq(Segment(ks, from, n), k + 1, n)
              = Segment(ks, from + k, n - k)
<1> DEFINE S == BytesOf(ks)
           a == Segment(ks, from, n)
           l == Segment(ks, from, k)
           r == Segment(ks, from + k, n - k)
<1>1. /\ a \in Seq(S) /\ Len(a) = n
      /\ \A i \in 1..n : a[i] = ks[from + i - 1]
  BY SegmentProperties
<1>2. /\ l \in Seq(S) /\ Len(l) = k
      /\ \A i \in 1..k : l[i] = ks[from + i - 1]
  <2>1. k \in Nat OBVIOUS
  <2> QED BY <2>1, SegmentProperties
<1>3. /\ r \in Seq(S) /\ Len(r) = n - k
      /\ \A i \in 1..(n - k) : r[i] = ks[(from + k) + i - 1]
  <2>1. from + k \in Nat /\ n - k \in Nat OBVIOUS
  <2> QED BY <2>1, SegmentProperties
<1> HIDE DEF S, a, l, r
<1>4. \A i \in 1..n : a[i] \in S BY <1>1
<1>5. SubSeq(a, 1, k) = l
  <2>1. /\ SubSeq(a, 1, k) \in Seq(S)
        /\ Len(SubSeq(a, 1, k)) = k
        /\ \A i \in 1..k : SubSeq(a, 1, k)[i] = a[i]
    <3>1. \A i \in 1..k : a[i] \in S BY <1>4
    <3> QED BY <3>1, SubSeqProperties, Z3
  <2>2. \A i \in 1..k : SubSeq(a, 1, k)[i] = l[i] BY <2>1, <1>1, <1>2
  <2> QED BY <2>1, <2>2, <1>2, SeqEqual
<1>6. SubSeq(a, k + 1, n) = r
  <2>1. /\ SubSeq(a, k + 1, n) \in Seq(S)
        /\ Len(SubSeq(a, k + 1, n)) = n - k
        /\ \A i \in 1..(n - k) : SubSeq(a, k + 1, n)[i] = a[k + i]
    <3>1. \A i \in (k + 1)..n : a[i] \in S BY <1>4
    <3> QED BY <3>1, SubSeqProperties, Z3
  <2>2. \A i \in 1..(n - k) : SubSeq(a, k + 1, n)[i] = r[i]
    <3> TAKE i \in 1..(n - k)
    <3>1. k + i \in 1..n /\ from + (k + i) - 1 = (from + k) + i - 1 OBVIOUS
    <3> QED BY <3>1, <2>1, <1>1, <1>3
  <2> QED BY <2>1, <2>2, <1>3, SeqEqual
<1> QED BY <1>5, <1>6 DEF a, l, r

(* Any part of a segment is a segment.                                     *)
LEMMA SegmentPart ==
  ASSUME NEW ks, NEW from \in Nat, NEW n \in Nat, NEW k \in 0..n, NEW m \in 0..(n - k)
  PROVE  SubSeq(Segment(ks, from, n), k + 1, k + m) = Segment(ks, from + k, m)
<1> DEFINE S == BytesOf(ks)
           a == Segment(ks, from, n)
           r == Segment(ks, from + k, m)
<1>1. /\ a \in Seq(S) /\ Len(a) = n
      /\ \A i \in 1..n : a[i] = ks[from + i - 1]
  BY SegmentProperties
<1>2. /\ r \in Seq(S) /\ Len(r) = m
      /\ \A i \in 1..m : r[i] = ks[(from + k) + i - 1]
  <2>1. from + k \in Nat /\ m \in Nat OBVIOUS
  <2> QED BY <2>1, SegmentProperties
<1> HIDE DEF S, a, r
<1>3. \A i \in 1..n : a[i] \in S BY <1>1
<1>4. /\ SubSeq(a, k + 1, k + m) \in Seq(S)
      /\ Len(SubSeq(a, k + 1, k + m)) = m
      /\ \A i \in 1..m : SubSeq(a, k + 1, k + m)[i] = a[k + i]
  <2>1. \A i \in (k + 1)..(k + m) : a[i] \in S BY <1>3
  <2> QED BY <2>1, SubSeqProperties, Z3
<1>5. \A i \in 1..m : SubSeq(a, k + 1, k + m)[i] = r[i]
  <2> TAKE i \in 1..m
  <2>1. k + i \in 1..n /\ from + (k + i) - 1 = (from + k) + i - 1 OBVIOUS
  <2> QED BY <2>1, <1>1, <1>2, <1>4
<1>6. SubSeq(a, k + 1, k + m) = r BY <1>2, <1>4, <1>5, SeqEqual
<1> QED BY <1>6 DEF a, r

-----------------------------------------------------------------------------
(* Division with remainder, for the engines that produce their keystream a *)
(* block at a time: the byte at j of block k has the index b * k + j.      *)
LEMMA Division ==
  ASSUME NEW b \in Nat \ {0}, NEW n \in Nat
  PROVE  /\ n \div b \in Nat
         /\ n % b \in 0..(b - 1)
         /\ n = b * (n \div b) + (n % b)
<1>1. n \div b \in Nat OBVIOUS
<1>2. n % b \in 0..(b - 1) OBVIOUS
<1>3. \A q \in Nat, r \in Nat : q = n \div b /\ r = n % b => n = b * q + r
  OBVIOUS
<1>4. n = b * (n \div b) + (n % b) BY <1>1, <1>2, <1>3
<1> QED BY <1>1, <1>2, <1>4

(* Quotient and remainder are the only such pair.                          *)
LEMMA DivisionUnique ==
  ASSUME NEW b \in Nat \ {0}, NEW k \in Nat, NEW j \in 0..(b - 1)
  PROVE  (b * k + j) \div b = k /\ (b * k + j) % b = j
OBVIOUS

(* A word that is incremented keeps the remainder of the whole count.      *)
LEMMA ModIncrement ==
  ASSUME NEW b \in Nat \ {0}, NEW n \in Nat
  PROVE  ((n % b) + 1) % b = (n + 1) % b
<1> DEFINE q == n \div b
           r == n % b
<1>1. q \in Nat /\ r \in 0..(b - 1) /\ n = b * q + r BY Division
<1> HIDE DEF q, r
<1>2. b * q \in Nat BY <1>1
<1>3. CASE r + 1 < b
  <2>1. r + 1 \in 0..(b - 1) BY <1>1, <1>3
  <2>2. (b * q + (r + 1)) % b = r + 1 BY <2>1, <1>1, DivisionUnique
  <2>3. n + 1 = b * q + (r + 1) BY <1>1, <1>2
  <2>4. (r + 1) % b = r + 1 BY <2>1
  <2> QED BY <2>2, <2>3, <2>4 DEF r
<1>4. CASE r + 1 = b
  <2>1. n + 1 = b * (q + 1) + 0
    <3>1. b * (q + 1) = b * q + b BY <1>1
    <3> QED BY <3>1, <1>1, <1>2, <1>4
  <2>2. q + 1 \in Nat /\ 0 \in 0..(b - 1) BY <1>1
  <2>3. (b * (q + 1) + 0) % b = 0 BY <2>2, DivisionUnique
  <2>4. (r + 1) % b = 0 BY <1>4
  <2> QED BY <2>1, <2>3, <2>4 DEF r
<1> QED BY <1>1, <1>3, <1>4

(* Dividing twice.                                                         *)
LEMMA DivisionTwice ==
  ASSUME NEW a \in Nat \ {0}, NEW b \in Nat \ {0}, NEW n \in Nat
  PROVE  n \div (a * b) = (n \div a) \div b
<1> DEFINE p == n \div a
           r == n % a
<1>1. p \in Nat /\ r \in 0..(a - 1) /\ n = a * p + r BY Division
<1> HIDE DEF p, r
<1> DEFINE s == p \div b
           t == p % b
<1>2. s \in Nat /\ t \in 0..(b - 1) /\ p = b * s + t BY <1>1, Division
<1> HIDE DEF s, t
<1>3. n = (a * b) * s + (a * t + r)
  <2>1. a * (b * s + t) = (a * b) * s + a * t BY <1>2
  <2> QED BY <2>1, <1>1, <1>2
<1>4. a * t + r \in 0..(a * b - 1)
  <2>1. a * t <= a * (b - 1) BY <1>2
  <2>2. a * (b - 1) = a * b - a OBVIOUS
  <2>3. a * t \in Nat /\ a * b \in Nat BY <1>2
  <2> QED BY <2>1, <2>2, <2>3, <1>1
<1>5. a * b \in Nat \ {0} OBVIOUS
<1>6. n \div (a * b) = s BY <1>2, <1>3, <1>4, <1>5, DivisionUnique
<1> QED BY <1>6 DEF s, p

(* A number without one divisor.                                           *)
LEMMA DivisionSmall ==
  ASSUME NEW b \in Nat \ {0}, NEW n \in Nat, n < b
  PROVE  n \div b = 0
OBVIOUS

LEMMA DivisionStep ==
  ASSUME NEW b \in Nat \ {0}, NEW n \in Nat, b <= n
  PROVE  (n - b) \div b = n \div b - 1
<1> DEFINE q == n \div b
           r == n % b
<1>1. q \in Nat /\ r \in 0..(b - 1) /\ n = b * q + r BY Division
<1> HIDE DEF q, r
<1>2. q # 0 BY <1>1
<1>3. q - 1 \in Nat /\ b * (q - 1) = b * q - b BY <1>1, <1>2
<1>4. n - b = b * (q - 1) + r
  <2>1. b * q \in Nat BY <1>1
  <2> QED BY <2>1, <1>1, <1>3
<1>5. (n - b) \div b = q - 1 BY <1>1, <1>3, <1>4, DivisionUnique
<1> QED BY <1>5 DEF q
=============================================================================
