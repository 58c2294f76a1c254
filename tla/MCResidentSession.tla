------------------------- MODULE MCResidentSession -------------------------
(* Finite instances of ResidentSession. *)
EXTENDS ResidentSession, TLC

\* Attempts are interchangeable.
Interchangeable == Permutations(Attempts)
=============================================================================
