--------------------------- MODULE MCBranchStore ---------------------------
(* TLC instances of BranchStore.                                           *)
EXTENDS BranchStore, TLC

CONSTANTS w1, w2, b1, b2, e1, none, root

Symmetry == Permutations(Worker) \cup Permutations(Branch)
              \cup Permutations(Proposal)
=============================================================================
