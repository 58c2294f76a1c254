----------------------------- MODULE MCGuardSync -----------------------------
(* Finite instances of GuardSync. *)
EXTENDS GuardSync, TLC

\* Actions are interchangeable when all or none of them may be contested,
\* predate the lease or be retried by hand; so are gates.
Interchangeable == Permutations(Mutations) \cup Permutations(Gates)
=============================================================================
