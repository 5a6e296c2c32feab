------------------------------ MODULE MCFiles -------------------------------
(***************************************************************************)
(* Instances of Files for TLC: two processes, and so few sectors that they *)
(* are used again and that the disk runs full.                             *)
(***************************************************************************)
EXTENDS Files, TLC

CONSTANTS P, Q, A, B

Symmetry == Permutations(Proc) \cup Permutations(Name)
=============================================================================
