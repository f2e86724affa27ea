----------------------------- MODULE MCReplicas -----------------------------
(***************************************************************************)
(* Model checking of Replicas.                                             *)
(***************************************************************************)
EXTENDS Replicas, TLC

Symmetry == Permutations(Files) \cup Permutations(Tasks)

\* The flags of a careful administrator and of the commands by default.
UsualModes == {<<TRUE, TRUE>>, <<FALSE, TRUE>>}

\* The flags of the automatic replication.
AutomaticModes == {<<TRUE, FALSE>>}

=============================================================================
