------------------------------- MODULE MCMesh -------------------------------
(* Two nodes and two sessions: in one the first node broadcasts, in the    *)
(* other it sends a direct message, so that two of its threads share a     *)
(* link; the links break in both directions.                               *)
EXTENDS Mesh

CONSTANTS n1, n2

MCScript == (n1 :> << <<All>>, <<n2>> >>) @@ (n2 :> << <<>>, <<>> >>)
MCFlaky == {<<n1, n2>>, <<n2, n1>>}
=============================================================================
