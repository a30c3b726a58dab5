----------------------------- MODULE MCPairing -----------------------------
(***************************************************************************)
(* Pairing on small instances: its properties and what TLC needs.          *)
(***************************************************************************)
EXTENDS PairingProperties, TLC

Symmetry == Permutations(Phone) \cup Permutations(Pair)
=============================================================================
