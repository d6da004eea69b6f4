------------------------- MODULE MCRandomBufferAgent -------------------------
(* The core engine's bytes are told apart by their index in the keystream. *)
EXTENDS RandomBufferAgent

MCKeystream == [n \in Nat |-> n]
=============================================================================
