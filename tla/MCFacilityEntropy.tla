-------------------------- MODULE MCFacilityEntropy --------------------------
(* Threads are interchangeable.                                            *)
EXTENDS FacilityEntropy, TLC

Symmetry == Permutations(Callers)
=============================================================================
