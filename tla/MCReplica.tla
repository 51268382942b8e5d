------------------------------ MODULE MCReplica ------------------------------
(* Model-checking instance of Replica: generation names are model values. *)
EXTENDS Replica, TLC

CONSTANTS g1, g2

\* One generation, or two for the runs about a generation change.
MCOneGen == {g1}
MCTwoGens == {g1, g2}


=============================================================================
