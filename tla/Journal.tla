------------------------------ MODULE Journal ------------------------------
(***************************************************************************)
(* The idempotent mutation journal of the API: every state-changing        *)
(* request runs MutationJournalService.begin, its own statements and       *)
(* MutationJournalService.commit in one transaction, which claims the      *)
(* idempotency record, appends to the society's audit chain and inserts    *)
(* the outbox event.                                                       *)
(*                                                                         *)
(* Isolation matters.  All operations but those in Relaxed run             *)
(* SERIALIZABLE: their reads come from the snapshot of the first           *)
(* statement, and PostgreSQL aborts one of two such transactions that      *)
(* both appended to the chain.  It does not watch READ COMMITTED ones.     *)
(* The key stands for the operation as well: the record is unique in       *)
(* (society, actor, operation, key).                                       *)
(***************************************************************************)
EXTENDS Naturals, Sequences, FiniteSets

CONSTANTS Requests,    \* requests the clients have under way
          Keys,        \* idempotency keys
          Bodies,      \* what a request asks for (requestHash)
          Relaxed,     \* keys of operations that run READ COMMITTED
          MaxSends     \* bound: how often a client sends one request

\* A stored body is neither the absence of one nor the code of a refusal.
ASSUME BodiesAreBodies == "none" \notin Bodies /\ "IDEMPOTENCY_KEY_REUSED" \notin Bodies
ASSUME MaxSendsNatural == MaxSends \in Nat

NoEntry == [id |-> 0, prev |-> 0, key |-> "none"]

VARIABLES chain,     \* audit_logs in (occurred_at, id) order; prev is previous_hash
          record,    \* idempotency_records: key -> the body it is COMPLETED for
          request,   \* request -> its key, body, phase, snapshot, answer
          applied    \* history: (key, body) of the committed executions, in order

journalVars == <<chain, record, request, applied>>

Nobody == "none"
Phases == {"new", "begun", "execute", "audit", "failed", "done"}

JournalTypeOK ==
    /\ \A i \in DOMAIN chain : chain[i].id \in Nat /\ chain[i].prev \in Nat /\ chain[i].key \in Keys
    /\ record \in [Keys -> Bodies \cup {Nobody}]
    /\ \A r \in Requests :
         /\ request[r].phase \in Phases
         /\ request[r].key \in Keys
         /\ request[r].body \in Bodies
         /\ request[r].seenLength \in 0..Len(chain)
         /\ request[r].sends \in 0..MaxSends

Idle(k, b) == [key |-> k, body |-> b, phase |-> "new", seenLength |-> 0,
               seenRecord |-> Nobody, head |-> 0, sends |-> 0, answer |-> "none"]

JournalInit ==
    /\ chain = <<>>
    /\ record = [k \in Keys |-> Nobody]
    /\ request \in [Requests -> {Idle(k, b) : k \in Keys, b \in Bodies}]
    /\ applied = <<>>

Serializable(r) == request[r].key \notin Relaxed

\* Open transactions that inserted the idempotency row of the key: the unique
\* index makes a second insert wait for them.
HoldsRow(r) == request[r].phase \in {"execute", "audit"}
RowFree(k) == \A r \in Requests : HoldsRow(r) => request[r].key # k

\* pg_advisory_xact_lock(society): held from appendAudit to the transaction's end.
ChainFree == \A r \in Requests : request[r].phase # "audit"

Finish(r, answer) == request' = [request EXCEPT ![r].phase = "done", ![r].answer = answer]
Fail(r) == request' = [request EXCEPT ![r].phase = "failed"]

-----------------------------------------------------------------------------
(* The client sends a request; the transaction's first statement takes the  *)
(* snapshot.                                                                *)
Send(r) ==
    /\ request[r].phase \in {"new", "failed"}
    /\ request[r].sends < MaxSends
    /\ request' = [request EXCEPT ![r].phase = "begun",
                                  ![r].sends = @ + 1,
                                  ![r].seenLength = Len(chain),
                                  ![r].seenRecord = record[request[r].key]]
    /\ UNCHANGED <<chain, record, applied>>

\* Mutant: a stored answer is returned for whatever the request asks.
AnswerUnhashed(r) == record[request[r].key]

\* begin: what a request is told when its key's record is already COMPLETED.
StoredAnswer(r) ==
    IF record[request[r].key] = request[r].body THEN record[request[r].key]
    ELSE "IDEMPOTENCY_KEY_REUSED"

\* begin: the upsert waits for the row's holder, then claims the key, answers
\* from the record, or (SERIALIZABLE, record committed after the snapshot)
\* fails with a serialization error, which nothing retries.
Upsert(r) ==
    /\ request[r].phase = "begun"
    /\ RowFree(request[r].key)
    /\ \/ /\ record[request[r].key] = Nobody
          /\ request' = [request EXCEPT ![r].phase = "execute"]
       \/ /\ record[request[r].key] # Nobody
          /\ Serializable(r) => request[r].seenRecord = record[request[r].key]
          /\ Finish(r, StoredAnswer(r))
       \/ /\ Serializable(r)
          /\ request[r].seenRecord # record[request[r].key]
          /\ Fail(r)
    /\ UNCHANGED <<chain, record, applied>>

LastId(c) == IF c = <<>> THEN 0 ELSE c[Len(c)].id

\* appendAudit: take the lock, then read the newest entry - in a SERIALIZABLE
\* transaction the newest of its snapshot.
LockChain(r) ==
    /\ request[r].phase = "execute"
    /\ ChainFree
    /\ LET visible == IF Serializable(r) THEN SubSeq(chain, 1, request[r].seenLength) ELSE chain
       IN  request' = [request EXCEPT ![r].phase = "audit", ![r].head = LastId(visible)]
    /\ UNCHANGED <<chain, record, applied>>

\* Another SERIALIZABLE transaction appended after this one's snapshot.
ConflictsOnChain(r) ==
    /\ Serializable(r)
    /\ \E i \in (request[r].seenLength + 1)..Len(chain) : chain[i].key \notin Relaxed

\* Append, insert the event, complete the record, COMMIT.  The answer may be
\* lost on its way (failed, and the client may send again).
CommitMutation(r) ==
    /\ request[r].phase = "audit"
    /\ ~ConflictsOnChain(r)
    /\ chain' = Append(chain, [id |-> Len(chain) + 1, prev |-> request[r].head,
                               key |-> request[r].key])
    /\ record' = [record EXCEPT ![request[r].key] = request[r].body]
    /\ applied' = Append(applied, <<request[r].key, request[r].body>>)
    /\ Finish(r, request[r].body) \/ Fail(r)

\* A serialization error, a refusal of the operation itself, a lost
\* connection: everything the transaction wrote is gone.
AbortMutation(r) ==
    /\ request[r].phase \in {"begun", "execute", "audit"}
    /\ Fail(r)
    /\ UNCHANGED <<chain, record, applied>>

JournalNext ==
    \E r \in Requests : Send(r) \/ Upsert(r) \/ LockChain(r) \/ CommitMutation(r) \/ AbortMutation(r)

JournalSpec == JournalInit /\ [][JournalNext]_journalVars

-----------------------------------------------------------------------------
(* Properties *)

\* A key takes effect at most once, however often its request is sent, and
\* whoever gets an answer that is not a refusal is told of the execution that
\* took effect, which is one of what it asked for.
OneEffectPerKey ==
    /\ \A i, j \in DOMAIN applied : applied[i][1] = applied[j][1] => i = j
    /\ \A r \in Requests :
         request[r].answer \in Bodies =>
           /\ request[r].answer = request[r].body
           /\ \E i \in DOMAIN applied : applied[i] = <<request[r].key, request[r].body>>

\* auditFollowUp: previous_hash IS NOT DISTINCT FROM the entry_hash before it.
AuditChainUnbroken ==
    \A i \in DOMAIN chain : chain[i].prev = LastId(SubSeq(chain, 1, i - 1))
=============================================================================
