--------------------------- MODULE MCCompileLoop ---------------------------
(* Two supervisors of one source; patches differ by nothing but identity.  *)
EXTENDS CompileLoop, TLC

Symmetry == Permutations(Supervisors) \cup Permutations(Patches)
=============================================================================
