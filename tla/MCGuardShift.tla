---------------------------- MODULE MCGuardShift ----------------------------
(* Finite instances of GuardShift. *)
EXTENDS GuardShift, TLC

\* Sessions are interchangeable.
Interchangeable == Permutations(Sessions)
=============================================================================
