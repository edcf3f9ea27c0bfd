-------------------------- MODULE MCRotationCommit --------------------------
(***************************************************************************)
(* Small instances of RotationCommit for TLC: two or three manual routes,  *)
(* two or three addresses to fight over, and at most one reload.           *)
(***************************************************************************)
EXTENDS RotationCommit, TLC

Symmetry == Permutations(IPs)
=============================================================================
