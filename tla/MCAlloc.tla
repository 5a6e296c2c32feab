------------------------------ MODULE MCAlloc -------------------------------
(***************************************************************************)
(* Instances of Alloc for TLC.                                             *)
(***************************************************************************)
EXTENDS Alloc, TLC

CONSTANTS A, B, Small
=============================================================================
