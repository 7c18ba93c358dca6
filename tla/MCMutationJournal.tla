------------------------- MODULE MCMutationJournal -------------------------
\* Small instances of MutationJournal for TLC.
EXTENDS MutationJournal, TLC

\* Keys, fingerprints and handlers are interchangeable.
Symmetry == Permutations(Key) \cup Permutations(Fingerprint) \cup Permutations(Call)
=============================================================================
