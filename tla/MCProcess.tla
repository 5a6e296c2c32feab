----------------------------- MODULE MCProcess ------------------------------
(***************************************************************************)
(* Instances of Process for TLC: the initial process and two more. *)
(***************************************************************************)
EXTENDS Process, TLC

CONSTANTS P1, P2

Symmetry == Permutations(Pid \ {Boot})
=============================================================================
