------------------------------ MODULE MCLibrary ------------------------------
(* Instances of Library for TLC. *)
EXTENDS Library, TLC

Symmetry == Permutations(Paths) \cup Permutations(Contents) \cup Permutations(Ops)
=============================================================================
