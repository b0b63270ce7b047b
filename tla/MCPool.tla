-------------------------------- MODULE MCPool --------------------------------
(* Pool for model checking: the nodes are interchangeable. *)
EXTENDS Pool, TLC

Symmetry == Permutations(Node)
=============================================================================
