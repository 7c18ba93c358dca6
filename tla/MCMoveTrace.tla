---------------------------- MODULE MCMoveTrace -----------------------------
(* TLC instances of MoveTrace.                                             *)
EXTENDS MoveTrace, TLC

Symmetry == Permutations(Run)
=============================================================================
