------------------------- MODULE MCSnow2RandomEngine -------------------------
(* The cipher's bytes are told apart by their index in the keystream.       *)
EXTENDS Snow2RandomEngine

MCKeystream == [n \in Nat |-> n]
=============================================================================
