------------------------------ MODULE MCSharing ------------------------------
(***************************************************************************)
(* SharingSession for TLC: the two phones of a pair are interchangeable.   *)
(***************************************************************************)
EXTENDS SharingProperties, TLC

Symmetry == Permutations(Phone)
=============================================================================
