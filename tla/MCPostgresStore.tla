--------------------------- MODULE MCPostgresStore ---------------------------
(* PostgresStore with interchangeable callers. *)
EXTENDS PostgresStore, TLC

Symmetry == Permutations(Callers)
=============================================================================
