-------------------------- MODULE MCWorkspaceLock --------------------------
(* TLC instances of WorkspaceLock.                                         *)
EXTENDS WorkspaceLock, TLC

CONSTANTS p1, p2, p3, p4, h1, h2

\* The last process runs on a host of its own.
TwoHosts == [p \in Process |-> IF p = p4 THEN h2 ELSE h1]
SameHost == Permutations({p1, p2, p3})
=============================================================================
