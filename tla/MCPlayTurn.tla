----------------------------- MODULE MCPlayTurn -----------------------------
(* Workers, requests, moves and possibilities only differ by their names.  *)
EXTENDS PlayTurn, TLC

Symmetry == Permutations(Worker) \cup Permutations(Move) \cup Permutations(Request)
              \cup Permutations(Possibility)
=============================================================================
