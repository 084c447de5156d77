---------------------------- MODULE MCRuntimeGuard ----------------------------
(* RuntimeGuard with interchangeable processes, keys and checks. *)
EXTENDS RuntimeGuard, TLC

Symmetry == Permutations(Procs) \union Permutations(Keys) \union Permutations(Checks)
=============================================================================
