------------------------- MODULE MCOperationManager -------------------------
(* TLC instances of OperationManager.                                      *)
EXTENDS OperationManager, TLC

CONSTANTS r1, r2, r3, s1, s2, s3, c1, c2

\* r1 and r2 act on the same session.
TwoScopes == [r \in Request |-> IF r = r3 THEN s2 ELSE s1]
Preparations == {r3}
NoPreparations == {}
Handlers == Permutations(Client) \cup Permutations({r1, r2})
=============================================================================
