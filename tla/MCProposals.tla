---------------------------- MODULE MCProposals ----------------------------
EXTENDS Proposals, TLC

CONSTANTS p1, p2, p3, a1, a2, b1, b2
MCIds == {p1, p2, p3}
MCTarget == (p1 :> a1) @@ (p2 :> a1) @@ (p3 :> a2)
MCBatchOf == (p1 :> b1) @@ (p2 :> b2) @@ (p3 :> b1)
=============================================================================
