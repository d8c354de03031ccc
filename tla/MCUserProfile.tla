--------------------------- MODULE MCUserProfile ---------------------------
(***************************************************************************)
(* Small instances of UserProfile for TLC.                                 *)
(***************************************************************************)
EXTENDS UserProfile, TLC

Symmetry == Permutations(Requests) \cup Permutations(Instances)
=============================================================================
