-------------------------- MODULE MCControlSession --------------------------
(***************************************************************************)
(* ControlSession on small instances: its properties and what TLC needs.   *)
(***************************************************************************)
EXTENDS ControlSessionProperties, TLC

Symmetry == Permutations(Phone)
=============================================================================
