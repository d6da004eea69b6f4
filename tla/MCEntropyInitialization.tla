----------------------- MODULE MCEntropyInitialization -----------------------
(* Processes are interchangeable.                                          *)
EXTENDS EntropyInitialization, TLC

Symmetry == Permutations(Processes)
=============================================================================
