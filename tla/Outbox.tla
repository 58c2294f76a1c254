------------------------------- MODULE Outbox -------------------------------
(***************************************************************************)
(* The transactional outbox of apps/worker: rows of outbox_events and      *)
(* outbox_attempts, and the worker processes that lease a batch of rows,   *)
(* run the job handler on each, and record the outcome.                    *)
(*                                                                         *)
(* Each SQL statement is one step (it is one CTE, run at READ COMMITTED    *)
(* under row locks).  Everything between two statements is interleaved     *)
(* with other workers: the handler call, the wait for the reply, a crash.  *)
(* Time is abstracted to the one question the statements ask of it: due[e] *)
(* says that available_at has passed (PENDING, RETRY) or that claimed_at   *)
(* is older than the lease (PROCESSING).                                   *)
(***************************************************************************)
EXTENDS Naturals, FiniteSets

CONSTANTS Events,        \* primary keys of outbox_events the API may insert
          Workers,       \* worker processes
          MaxAttempts,   \* WORKER_MAX_ATTEMPTS, 1..30 in config.ts
          BatchSize      \* WORKER_BATCH_SIZE, 1..100

ASSUME EventsFinite == IsFiniteSet(Events)
ASSUME MaxAttemptsPositive == MaxAttempts \in Nat \ {0}
ASSUME BatchSizePositive == BatchSize \in Nat \ {0}

Attempts == 1..MaxAttempts

Job == [event : Events, attempt : Attempts]
NoJob == [event |-> "none", attempt |-> 0]

Statuses == {"ABSENT", "PENDING", "PROCESSING", "RETRY", "PUBLISHED", "DEAD_LETTER"}
Outcomes == {"PUBLISHED", "RETRY", "DEAD_LETTER"}
Settled == {"PUBLISHED", "DEAD_LETTER"}
Steps == {"idle", "handle", "publish", "fail"}

VARIABLES status,        \* outbox_events.status ("ABSENT" before the insert)
          attemptCount,  \* outbox_events.attempt_count
          due,           \* available_at or the lease has elapsed
          ledger,        \* outbox_attempts: attempt number -> status, "none" if no row
          batch,         \* leased jobs the worker has not finished
          job,           \* the job the worker is on
          step,          \* where in the loop of pollOnce the worker is
          handled        \* history: attempts in which the handler returned normally

rows == <<status, attemptCount, due, ledger>>
local == <<batch, job, step>>
vars == <<status, attemptCount, due, ledger, batch, job, step, handled>>

Init ==
    /\ status = [e \in Events |-> "ABSENT"]
    /\ attemptCount = [e \in Events |-> 0]
    /\ due = [e \in Events |-> FALSE]
    /\ ledger = [e \in Events |-> [a \in Attempts |-> "none"]]
    /\ batch = [w \in Workers |-> {}]
    /\ job = [w \in Workers |-> NoJob]
    /\ step = [w \in Workers |-> "idle"]
    /\ handled = [e \in Events |-> {}]

-----------------------------------------------------------------------------
(* The producers and the clock *)

\* MutationJournal.commit inserts the row in the transaction of the change it
\* reports; the expo.receipt row of the push handler starts in the future.
Enqueue(e) ==
    /\ status[e] = "ABSENT"
    /\ status' = [status EXCEPT ![e] = "PENDING"]
    /\ \E now \in BOOLEAN : due' = [due EXCEPT ![e] = now]
    /\ UNCHANGED <<attemptCount, ledger, local, handled>>

\* available_at passes for a waiting row.
BackoffElapses(e) ==
    /\ status[e] \in {"PENDING", "RETRY"}
    /\ ~due[e]
    /\ due' = [due EXCEPT ![e] = TRUE]
    /\ UNCHANGED <<status, attemptCount, ledger, local, handled>>

\* claimed_at falls behind NOW() - WORKER_LEASE_SECONDS, whether or not the
\* worker that claimed the row is still working through its batch.
LeaseExpires(e) ==
    /\ status[e] = "PROCESSING"
    /\ ~due[e]
    /\ due' = [due EXCEPT ![e] = TRUE]
    /\ UNCHANGED <<status, attemptCount, ledger, local, handled>>

-----------------------------------------------------------------------------
(* The three statements *)

\* Mutant: the statement looks at waiting rows only, so an expired lease is
\* never taken over.
CandidatesWaiting == {e \in Events : due[e] /\ status[e] \in {"PENDING", "RETRY"}}

Candidates == {e \in Events : due[e] /\ status[e] \in {"PENDING", "RETRY", "PROCESSING"}}

HasRow(e, a) == a \in Attempts /\ ledger[e][a] # "none"

\* Mutant: the takeover does not close the attempt it interrupts.
AbandonedIgnored(e) == FALSE

\* A PROCESSING candidate whose worker never recorded an outcome.
Abandoned(e) ==
    status[e] = "PROCESSING" /\ attemptCount[e] > 0 /\ ~HasRow(e, attemptCount[e])

Exhausted(e) == status[e] = "PROCESSING" /\ attemptCount[e] >= MaxAttempts

\* LEASE_SQL on the candidate rows S: close abandoned attempts in the ledger,
\* bury the exhausted rows, claim the others for a further attempt.
LeaseRows(S) ==
    /\ ledger' = [e \in Events |->
         IF e \in S /\ Abandoned(e)
         THEN [ledger[e] EXCEPT ![attemptCount[e]] =
                 IF attemptCount[e] >= MaxAttempts THEN "DEAD_LETTER" ELSE "RETRY"]
         ELSE ledger[e]]
    /\ status' = [e \in Events |->
         IF e \notin S THEN status[e]
         ELSE IF Exhausted(e) THEN "DEAD_LETTER" ELSE "PROCESSING"]
    /\ attemptCount' = [e \in Events |->
         IF e \in S /\ ~Exhausted(e) THEN attemptCount[e] + 1 ELSE attemptCount[e]]
    /\ due' = [e \in Events |-> IF e \in S THEN FALSE ELSE due[e]]

\* Mutant: the statement returns the attempt number a taken-over row had
\* before the claim.
LeasedStale(S) ==
    {[event |-> e, attempt |-> IF attemptCount[e] = 0 THEN 1 ELSE attemptCount[e]] :
       e \in {x \in S : ~Exhausted(x)}}

Leased(S) == {[event |-> e, attempt |-> attemptCount[e] + 1] : e \in {x \in S : ~Exhausted(x)}}

\* Mutant: the outcome is guarded by the attempt number alone.
OwnsByNumber(j) == attemptCount[j.event] = j.attempt

\* The WHERE clause COMPLETE_SQL and FAIL_SQL share.
Owns(j) ==
    /\ status[j.event] = "PROCESSING"
    /\ attemptCount[j.event] = j.attempt
    /\ ~HasRow(j.event, j.attempt)

\* COMPLETE_SQL and FAIL_SQL: record the outcome and close the attempt, if the
\* attempt is still the caller's; a lost row changes nothing.
Record(j, outcome) ==
    IF Owns(j)
    THEN /\ status' = [status EXCEPT ![j.event] = outcome]
         /\ due' = [due EXCEPT ![j.event] = FALSE]
         /\ ledger' = [ledger EXCEPT ![j.event][j.attempt] = outcome]
         /\ UNCHANGED attemptCount
    ELSE UNCHANGED rows

\* Mutant: the limit is off by one.
FailureOutcomeEarly(j) == IF j.attempt + 1 >= MaxAttempts THEN "DEAD_LETTER" ELSE "RETRY"
FailureOutcome(j) == IF j.attempt >= MaxAttempts THEN "DEAD_LETTER" ELSE "RETRY"

-----------------------------------------------------------------------------
(* The worker: pollOnce *)

\* outbox.lease() answers.  ORDER BY only decides which due rows fit the LIMIT
\* and SKIP LOCKED may hide others: any choice is allowed.
Poll(w) ==
    /\ step[w] = "idle" /\ batch[w] = {}
    /\ \E S \in SUBSET Candidates :
         /\ S # {} /\ Cardinality(S) <= BatchSize
         /\ LeaseRows(S)
         /\ batch' = [batch EXCEPT ![w] = Leased(S)]
    /\ UNCHANGED <<job, step, handled>>

\* The statement commits but the worker never sees the answer (connection
\* lost, process killed): the rows are PROCESSING and nobody works on them.
PollAnswerLost(w) ==
    /\ step[w] = "idle" /\ batch[w] = {}
    /\ \E S \in SUBSET Candidates :
         S # {} /\ Cardinality(S) <= BatchSize /\ LeaseRows(S)
    /\ UNCHANGED <<local, handled>>

\* The next event of the batch goes to JobHandler.handle; nothing checks that
\* the lease still stands.
StartJob(w) ==
    /\ step[w] = "idle"
    /\ \E j \in batch[w] : job' = [job EXCEPT ![w] = j]
    /\ step' = [step EXCEPT ![w] = "handle"]
    /\ UNCHANGED <<rows, batch, handled>>

HandlerReturns(w) ==
    /\ step[w] = "handle"
    /\ step' = [step EXCEPT ![w] = "publish"]
    /\ handled' = [handled EXCEPT ![job[w].event] = @ \cup {job[w].attempt}]
    /\ UNCHANGED <<rows, batch, job>>

\* Mutant: an exception of the handler is swallowed.
HandlerThrowsSwallowed(w) ==
    /\ step[w] = "handle"
    /\ step' = [step EXCEPT ![w] = "publish"]
    /\ UNCHANGED <<rows, batch, job, handled>>

HandlerThrows(w) ==
    /\ step[w] = "handle"
    /\ step' = [step EXCEPT ![w] = "fail"]
    /\ UNCHANGED <<rows, batch, job, handled>>

\* The loop body ends: the job leaves the batch.
JobEnds(w) ==
    /\ batch' = [batch EXCEPT ![w] = @ \ {job[w]}]
    /\ job' = [job EXCEPT ![w] = NoJob]
    /\ step' = [step EXCEPT ![w] = "idle"]

\* outbox.publish(event): a lost attempt throws and so runs into the catch.
PublishJob(w) ==
    /\ step[w] = "publish"
    /\ Record(job[w], "PUBLISHED")
    /\ IF Owns(job[w])
       THEN JobEnds(w)
       ELSE step' = [step EXCEPT ![w] = "fail"] /\ UNCHANGED <<batch, job>>
    /\ UNCHANGED handled

\* The publish statement raises a connection error; it may have committed.
PublishErrors(w) ==
    /\ step[w] = "publish"
    /\ Record(job[w], "PUBLISHED") \/ UNCHANGED rows
    /\ step' = [step EXCEPT ![w] = "fail"]
    /\ UNCHANGED <<batch, job, handled>>

\* outbox.fail(event, error): a lost attempt is logged and dropped.
FailJob(w) ==
    /\ step[w] = "fail"
    /\ Record(job[w], FailureOutcome(job[w]))
    /\ JobEnds(w)
    /\ UNCHANGED handled

\* The fail statement raises before committing; the error is logged and the
\* row stays PROCESSING until its lease expires.
FailErrors(w) ==
    /\ step[w] = "fail"
    /\ JobEnds(w)
    /\ UNCHANGED <<rows, handled>>

\* The process dies and a new one takes its place.
Crash(w) ==
    /\ batch[w] # {}
    /\ batch' = [batch EXCEPT ![w] = {}]
    /\ job' = [job EXCEPT ![w] = NoJob]
    /\ step' = [step EXCEPT ![w] = "idle"]
    /\ UNCHANGED <<rows, handled>>

-----------------------------------------------------------------------------
EventStep(e) == Enqueue(e) \/ BackoffElapses(e) \/ LeaseExpires(e)

WorkerStep(w) ==
    \/ Poll(w) \/ PollAnswerLost(w) \/ StartJob(w)
    \/ HandlerReturns(w) \/ HandlerThrows(w)
    \/ PublishJob(w) \/ PublishErrors(w)
    \/ FailJob(w) \/ FailErrors(w)
    \/ Crash(w)

Next == (\E e \in Events : EventStep(e)) \/ (\E w \in Workers : WorkerStep(w))

Spec == Init /\ [][Next]_vars

\* The poll timer keeps firing, handlers return or time out (every provider
\* call carries an abort timeout), statements answer, and time passes.
\* Nothing makes an event appear, a statement fail or a process crash.
Fairness ==
    /\ \A e \in Events : WF_vars(BackoffElapses(e)) /\ WF_vars(LeaseExpires(e))
    /\ \A w \in Workers :
         /\ WF_vars(Poll(w)) /\ WF_vars(StartJob(w))
         /\ WF_vars(HandlerReturns(w) \/ HandlerThrows(w))
         /\ WF_vars(PublishJob(w) \/ PublishErrors(w))
         /\ WF_vars(FailJob(w) \/ FailErrors(w))

FairSpec == Spec /\ Fairness

-----------------------------------------------------------------------------
(* Properties *)

\* Every variable has its type: no attempt number leaves 1..MaxAttempts.
TypeOK ==
    /\ status \in [Events -> Statuses]
    /\ attemptCount \in [Events -> 0..MaxAttempts]
    /\ due \in [Events -> BOOLEAN]
    /\ ledger \in [Events -> [Attempts -> Outcomes \cup {"none"}]]
    /\ batch \in [Workers -> SUBSET Job]
    /\ job \in [Workers -> Job \cup {NoJob}]
    /\ step \in [Workers -> Steps]
    /\ handled \in [Events -> SUBSET Attempts]

\* The attempt ledger agrees with the event row: every attempt before the
\* current one is closed as RETRY, no row exists for a later one, and the row
\* of the current one says what the event's status says -- whichever of a
\* worker and the lease sweep closed it.
LedgerAgrees ==
    \A e \in Events :
      /\ \A a \in Attempts :
           /\ a < attemptCount[e] => ledger[e][a] = "RETRY"
           /\ a > attemptCount[e] => ledger[e][a] = "none"
      /\ status[e] \in {"ABSENT", "PENDING"} => attemptCount[e] = 0
      /\ status[e] \in Outcomes \cup {"PROCESSING"} =>
           /\ attemptCount[e] \in Attempts
           /\ ledger[e][attemptCount[e]] =
                IF status[e] = "PROCESSING" THEN "none" ELSE status[e]

\* An event is buried only after every allowed attempt: a worker that takes an
\* expired lease over never uses up an attempt without opening it.
DeadLetterIsExhausted ==
    \A e \in Events : status[e] = "DEAD_LETTER" => attemptCount[e] = MaxAttempts

\* A row that may be retried still has an attempt left (the lease statement
\* only checks exhaustion on PROCESSING rows).
RetryHasBudget ==
    \A e \in Events : status[e] = "RETRY" => attemptCount[e] < MaxAttempts

\* No two workers ever hold the same attempt of the same event, so the guard
\* on attempt_count fences a slow worker against the one that took over.
AttemptsNotShared ==
    \A v, w \in Workers : v # w => batch[v] \cap batch[w] = {}

\* An event is marked published only if its handler returned normally in the
\* very attempt the ledger credits.
PublishedWasHandled ==
    \A e \in Events : status[e] = "PUBLISHED" => attemptCount[e] \in handled[e]

\* No statement of a slow worker rewrites what is settled: PUBLISHED and
\* DEAD_LETTER are final, ledger rows are append-only and the attempt number
\* only grows.
SettledForever ==
    [][\A e \in Events :
         /\ status[e] \in Settled => status'[e] = status[e]
         /\ \A a \in Attempts : ledger[e][a] # "none" => ledger'[e][a] = ledger[e][a]
         /\ attemptCount'[e] \in {attemptCount[e], attemptCount[e] + 1}]_vars

\* Each inserted event is eventually settled, whatever crashes, lost answers
\* and takeovers happen: every one of them uses up an attempt.
EventuallySettled ==
    \A e \in Events : status[e] = "PENDING" ~> status[e] \in Settled

\* The strengthening the proofs need.  Every held job is of an attempt already
\* issued, so a fresh lease is of an attempt nobody holds; the job in hand is
\* one of the batch; and a worker about to publish has seen its handler return.
JobsIssued ==
    \A w \in Workers :
      /\ \A j \in batch[w] : j.attempt <= attemptCount[j.event]
      /\ step[w] = "idle" => job[w] = NoJob
      /\ step[w] # "idle" => job[w] \in batch[w]
      /\ step[w] = "publish" => job[w].attempt \in handled[job[w].event]

IInv ==
    /\ TypeOK
    /\ LedgerAgrees
    /\ DeadLetterIsExhausted
    /\ RetryHasBudget
    /\ JobsIssued
    /\ AttemptsNotShared
    /\ PublishedWasHandled

\* The abstract state of an event.
Fate(e) ==
    CASE status[e] = "ABSENT" -> "unborn"
      [] status[e] = "PUBLISHED" -> "published"
      [] status[e] = "DEAD_LETTER" -> "dead"
      [] OTHER -> "open"

Promise == INSTANCE AtLeastOnce
             WITH fate <- [e \in Events |-> Fate(e)], tries <- attemptCount

\* The outbox implements the at-least-once contract its producers rely on.
ImplementsPromise == Promise!AtLeastOnceSpec
=============================================================================
