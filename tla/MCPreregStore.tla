--------------------------- MODULE MCPreregStore ---------------------------
(* Instances of PreregStore for TLC. *)
EXTENDS PreregStore, TLC

Symmetry == Permutations(Run)
=============================================================================
