----------------------------- MODULE MCUploads -----------------------------
(***************************************************************************)
(* Model checking of Uploads: the symmetry of the instances.               *)
(***************************************************************************)
EXTENDS Uploads, TLC

\* Sound: files are interchangeable, and so are requests.
Symmetry ==
  {p @@ q : p \in Permutations(Files), q \in Permutations(Requests)}

=============================================================================
