---------------------------- MODULE MCJobDriver ----------------------------
(* Two jobs of one persona compete for its one operation. *)
EXTENDS JobDriver, TLC

JobSymmetry == Permutations(Jobs)
=============================================================================
