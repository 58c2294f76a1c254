--------------------------- MODULE MCPushDelivery ---------------------------
(* Finite instances of PushDelivery. *)
EXTENDS PushDelivery, TLC

Interchangeable == Permutations(Workers) \cup Permutations(Events)
=============================================================================
