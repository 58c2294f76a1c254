---------------------------- MODULE Transactions ----------------------------
(***************************************************************************)
(* The SERIALIZABLE transactions every operation of the API but one runs   *)
(* in.  A transaction reads from the snapshot its first statement takes    *)
(* and PostgreSQL lets it commit only if no other transaction of the       *)
(* society committed since: all of them read the newest audit entry and    *)
(* append after it (module Journal), so any two that overlap conflict.     *)
(* The error it gets instead is not retried by the API.                    *)
(*                                                                         *)
(* A module that EXTENDS this one gives db its contents and one action per *)
(* operation, which reads tx[a].seen and ends in Commit.                   *)
(***************************************************************************)
CONSTANTS Admins      \* callers with a request under way

VARIABLES db,         \* the committed rows
          tx          \* caller -> its transaction: open?, snapshot, overtaken?

txVars == <<db, tx>>

TxInit(rows) == tx = [a \in Admins |-> [open |-> FALSE, seen |-> rows, stale |-> FALSE]]

\* Mutant: READ COMMITTED, nobody is aborted for what it did not see.
ConflictUnseen(a) == FALSE

\* A transaction committed after the snapshot was taken.
Conflict(a) == tx[a].stale

Begin(a) ==
    /\ ~tx[a].open
    /\ tx' = [tx EXCEPT ![a] = [open |-> TRUE, seen |-> db, stale |-> FALSE]]
    /\ UNCHANGED db

\* The rows become rows; whoever is still open has been overtaken.
Commit(a, rows) ==
    /\ tx[a].open /\ ~Conflict(a)
    /\ db' = rows
    /\ tx' = [b \in Admins |->
         IF b = a THEN [open |-> FALSE, seen |-> rows, stale |-> FALSE]
         ELSE IF tx[b].open THEN [tx[b] EXCEPT !.stale = TRUE]
         ELSE [tx[b] EXCEPT !.seen = rows]]

\* A serialization error, a refusal (404, 409), a lost connection.
Abort(a) ==
    /\ tx[a].open
    /\ tx' = [tx EXCEPT ![a] = [open |-> FALSE, seen |-> db, stale |-> FALSE]]
    /\ UNCHANGED db

TransactionStep(a) == Begin(a) \/ Abort(a)
=============================================================================
