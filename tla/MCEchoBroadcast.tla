---------------------------- MODULE MCEchoBroadcast ----------------------------
(* EchoBroadcast for model checking: honest nodes are interchangeable. *)
EXTENDS EchoBroadcast, TLC

Symmetry == Permutations(Honest)
=============================================================================
