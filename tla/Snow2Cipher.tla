---------------------------- MODULE Snow2Cipher ----------------------------
(***************************************************************************)
(* What the clocking of Snow2RandomEngine amounts to: a shift register of  *)
(* 16 words with feedback, and a finite state machine of two words that is *)
(* fed from it.  32 clockings mix the output of the machine into the       *)
(* register; each one after that yields a word of keystream.               *)
(*                                                                         *)
(* The words and the operations on them are the engine's own; this module  *)
(* only says which word goes where and when.                               *)
(***************************************************************************)
EXTENDS Naturals

CONSTANTS
  Loaded,           \* the registers that the seeds give
  BitXor(_, _),     \* the ^ of two words
  Plus(_, _),       \* the + of two words
  a_mul(_),         \* multiplication with alpha
  ainv_mul(_),      \* multiplication with its inverse
  Substitute(_),    \* the S-box
  NoWord            \* stands for a word before the first

VARIABLES
  sigma,            \* the shift register: the oldest word first
  r1, r2,           \* the finite state machine
  clocks,           \* initial clockings done
  symbol            \* the last word of keystream

vars == <<sigma, r1, r2, clocks, symbol>>

-----------------------------------------------------------------------------
Init ==
  /\ sigma \in Loaded
  /\ r1 = 0
  /\ r2 = 0
  /\ clocks = 0
  /\ symbol = NoWord

Feedback == BitXor(BitXor(a_mul(sigma[0]), sigma[2]), ainv_mul(sigma[11]))

\* All words move up by one place, and w is the new one.
Shift(w) ==
  /\ sigma' = [k \in 0..15 |-> IF k = 15 THEN w ELSE sigma[k + 1]]
  /\ r1' = Plus(r2, sigma[5])
  /\ r2' = Substitute(r1)

Mix ==
  /\ clocks < 32
  /\ Shift(BitXor(BitXor(Feedback, Plus(r1, sigma[15])), r2))
  /\ clocks' = clocks + 1
  /\ UNCHANGED symbol

Generate ==
  /\ clocks = 32
  /\ Shift(Feedback)
  /\ symbol' = BitXor(BitXor(Plus(r1', sigma'[15]), r2'), sigma'[0])
  /\ UNCHANGED clocks

Next == Mix \/ Generate

Spec == Init /\ [][Next]_vars
=============================================================================
