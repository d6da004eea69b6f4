-------------------------- MODULE MCSnow2Registers --------------------------
(***************************************************************************)
(* SNOW 2 with bytes of two bits.  The tables are built as those of the    *)
(* code are, over the field of four elements 0, 1, 2 and 3 = 1 + 2: alpha  *)
(* is a root of x^4 + x^3 + x^2 + 2x + 2 and has order 255, and T0 to T3   *)
(* are the columns of a circulant matrix times an S-box of bytes.          *)
(***************************************************************************)
EXTENDS Snow2Registers, FiniteSets, Bitwise

Table(w0, w1, w2, w3) == [b \in 0..3 |-> CASE b = 0 -> w0 [] b = 1 -> w1
                                          [] b = 2 -> w2 [] b = 3 -> w3]

MCAlphaMul == Table(0, 90, 175, 245)
MCAlphaInvMul == Table(0, 253, 86, 171)
MCT0 == Table(189, 214, 0, 107)
MCT1 == Table(246, 91, 0, 173)
MCT2 == Table(219, 109, 0, 182)
MCT3 == Table(111, 181, 0, 218)

XorTable == [v \in 0..255 |-> [w \in 0..255 |-> v ^^ w]]

MCBitXor(v, w) == XorTable[v][w]

\* Each table looked up with a byte of its own, the S-box is a permutation.
ASSUME TablesMakeAPermutation ==
  Cardinality({MCBitXor(MCBitXor(MCBitXor(MCT0[a], MCT1[b]), MCT2[c]), MCT3[d]) :
                 a, b, c, d \in 0..3}) = 256

\* The seed of zeroes, and all that differ from it in one byte.
MCSeeds ==
  {[k \in 0..47 |-> IF k = j THEN b ELSE 0] : j \in 0..47, b \in 0..3}
=============================================================================
