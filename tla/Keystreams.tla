----------------------------- MODULE Keystreams -----------------------------
(***************************************************************************)
(* Vocabulary shared by the engines.  A keystream is a function on Nat,    *)
(* from the index of a byte to the byte.                                   *)
(***************************************************************************)
EXTENDS Naturals, Sequences

\* The n bytes of a keystream that start at index from.
Segment(keystream, from, n) == [i \in 1..n |-> keystream[from + i - 1]]
=============================================================================
