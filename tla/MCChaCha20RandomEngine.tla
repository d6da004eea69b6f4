----------------------- MODULE MCChaCha20RandomEngine -----------------------
(* The bytes of the cipher are told apart by the counter words they were    *)
(* computed from and by their offset in the block.                          *)
EXTENDS ChaCha20RandomEngine

MCCipher ==
  [c \in (0..(Modulus - 1)) \X (0..(Modulus - 1)) |->
     [k \in 0..(Words * WordBytes - 1) |-> <<c, k>>]]
=============================================================================
