-------------------------- MODULE MCAesRandomEngine --------------------------
(* The bytes are told apart by the key and the vector of the generator they *)
(* come from and by their place in its output.                              *)
EXTENDS AesRandomEngine

MCAesStream == [kv \in Nat \X Nat |-> [i \in Nat |-> <<kv, i>>]]
=============================================================================
