---------------------------- MODULE OutboxProofs ----------------------------
(***************************************************************************)
(* Theorems about the outbox, for any events, workers, batch size and      *)
(* number of attempts.  The invariant is split: RowsOK speaks of one       *)
(* database row at a time and is kept by every statement whoever runs it;  *)
(* JobsIssued and its companions relate the workers to the rows.  Then     *)
(* about push notifications: their composition with the outbox takes only  *)
(* steps of the outbox, so the outbox's invariants hold of it; on top of   *)
(* them every worker in dispatchNotification is on a delivery that exists, *)
(* whose attempts it has paid for before it calls the provider.            *)
(***************************************************************************)
EXTENDS PushDelivery, FiniteSetTheorems, TLAPS

\* What the row of one event looks like: status s, attempt number n, ledger L.
RowOK(s, n, L) ==
    /\ s \in Statuses /\ n \in 0..MaxAttempts
    /\ L \in [Attempts -> Outcomes \cup {"none"}]
    /\ \A a \in Attempts : (a < n => L[a] = "RETRY") /\ (a > n => L[a] = "none")
    /\ s \in {"ABSENT", "PENDING"} => n = 0
    /\ s \in Outcomes \cup {"PROCESSING"} =>
         n \in Attempts /\ L[n] = IF s = "PROCESSING" THEN "none" ELSE s
    /\ s = "DEAD_LETTER" => n = MaxAttempts
    /\ s = "RETRY" => n < MaxAttempts

RowsOK == \A e \in Events : RowOK(status[e], attemptCount[e], ledger[e])

\* The variables are functions; their values are RowsOK's and LocalOK's matter.
Shape ==
    /\ status \in [Events -> Statuses]
    /\ attemptCount \in [Events -> 0..MaxAttempts]
    /\ due \in [Events -> BOOLEAN]
    /\ ledger \in [Events -> [Attempts -> Outcomes \cup {"none"}]]

LocalShape ==
    /\ batch \in [Workers -> SUBSET Job]
    /\ job \in [Workers -> Job \cup {NoJob}]
    /\ step \in [Workers -> Steps]
    /\ handled \in [Events -> SUBSET Attempts]

USE MaxAttemptsPositive

-----------------------------------------------------------------------------
(* One row at a time *)

\* A fresh claim of a waiting row keeps the row consistent.
LEMMA ClaimRow ==
    ASSUME NEW s, NEW n, NEW L, RowOK(s, n, L), s \in {"PENDING", "RETRY"}
    PROVE  RowOK("PROCESSING", n + 1, L)
<1>1. n \in 0..MaxAttempts /\ n < MaxAttempts
  BY DEF RowOK
<1>2. n + 1 \in Attempts /\ L[n + 1] = "none"
  BY <1>1 DEF RowOK, Attempts
<1>3. \A a \in Attempts : (a < n + 1 => L[a] = "RETRY") /\ (a > n + 1 => L[a] = "none")
  <2> TAKE a \in Attempts
  <2>1. a > n + 1 => L[a] = "none"
    BY <1>1 DEF RowOK, Attempts
  <2>2. CASE s = "PENDING"
    BY <2>1, <2>2, <1>1 DEF RowOK, Attempts
  <2>3. CASE s = "RETRY"
    BY <2>1, <2>3, <1>1 DEF RowOK, Attempts, Outcomes
  <2> QED
    BY <2>2, <2>3
<1> QED
  BY <1>1, <1>2, <1>3 DEF RowOK, Statuses, Attempts, Outcomes

\* Taking an abandoned row over closes its attempt as RETRY and opens the next.
LEMMA TakeOverRow ==
    ASSUME NEW n, NEW L, RowOK("PROCESSING", n, L), n < MaxAttempts
    PROVE  RowOK("PROCESSING", n + 1, [L EXCEPT ![n] = "RETRY"])
<1>1. n \in Attempts /\ L[n] = "none"
  BY DEF RowOK
<1>2. n + 1 \in Attempts
  BY <1>1 DEF Attempts
<1> QED
  BY <1>1, <1>2 DEF RowOK, Statuses, Attempts, Outcomes

\* Recording an outcome closes the current attempt: DEAD_LETTER only in the
\* last one, RETRY only before it.
LEMMA RecordRow ==
    ASSUME NEW n, NEW L, RowOK("PROCESSING", n, L), NEW o \in Outcomes,
           o = "DEAD_LETTER" => n = MaxAttempts, o = "RETRY" => n < MaxAttempts
    PROVE  RowOK(o, n, [L EXCEPT ![n] = o])
<1>1. n \in Attempts /\ L[n] = "none"
  BY DEF RowOK
<1> QED
  BY <1>1 DEF RowOK, Statuses, Attempts, Outcomes

-----------------------------------------------------------------------------
(* The statements *)

\* LEASE_SQL keeps every row consistent, whichever candidates it takes.
LEMMA LeaseKeepsRows ==
    ASSUME Shape, RowsOK, NEW S \in SUBSET Candidates, LeaseRows(S)
    PROVE  Shape' /\ RowsOK'
<1>1. \A e \in Events :
        /\ status'[e] = IF e \notin S THEN status[e]
                        ELSE IF Exhausted(e) THEN "DEAD_LETTER" ELSE "PROCESSING"
        /\ attemptCount'[e] = IF e \in S /\ ~Exhausted(e)
                              THEN attemptCount[e] + 1 ELSE attemptCount[e]
        /\ ledger'[e] = IF e \in S /\ Abandoned(e)
                        THEN [ledger[e] EXCEPT ![attemptCount[e]] =
                                IF attemptCount[e] >= MaxAttempts THEN "DEAD_LETTER" ELSE "RETRY"]
                        ELSE ledger[e]
  BY DEF LeaseRows
<1>2. ASSUME NEW e \in Events
      PROVE  RowOK(status'[e], attemptCount'[e], ledger'[e])
  <2>0. RowOK(status[e], attemptCount[e], ledger[e])
    BY DEF RowsOK
  <2>1. CASE e \notin S
    BY <1>1, <2>0, <2>1
  <2>2. CASE e \in S /\ status[e] # "PROCESSING"
    <3>1. status[e] \in {"PENDING", "RETRY"}
      BY <2>2 DEF Candidates
    <3>2. /\ status'[e] = "PROCESSING" /\ attemptCount'[e] = attemptCount[e] + 1
          /\ ledger'[e] = ledger[e]
      BY <1>1, <2>2 DEF Exhausted, Abandoned
    <3> QED
      BY <2>0, <3>1, <3>2, ClaimRow
  <2>3. CASE e \in S /\ status[e] = "PROCESSING"
    <3>1. attemptCount[e] \in Attempts /\ ledger[e][attemptCount[e]] = "none"
      BY <2>0, <2>3 DEF RowOK
    <3>0. RowOK("PROCESSING", attemptCount[e], ledger[e])
      BY <2>0, <2>3
    <3>2. Abandoned(e)
      BY <2>3, <3>1 DEF Abandoned, HasRow, Attempts
    <3>3. CASE attemptCount[e] < MaxAttempts
      <4>1. ~Exhausted(e)
        BY <3>1, <3>3 DEF Exhausted, Attempts
      <4>2. ledger'[e] = [ledger[e] EXCEPT ![attemptCount[e]] = "RETRY"]
        BY <1>1, <2>3, <3>1, <3>2, <3>3 DEF Attempts
      <4>3. RowOK("PROCESSING", attemptCount[e] + 1, [ledger[e] EXCEPT ![attemptCount[e]] = "RETRY"])
        BY <3>0, <3>3, TakeOverRow
      <4> QED
        BY <1>1, <2>3, <4>1, <4>2, <4>3
    <3>4. CASE attemptCount[e] = MaxAttempts
      <4>1. Exhausted(e)
        BY <2>3, <3>4 DEF Exhausted
      <4>2. ledger'[e] = [ledger[e] EXCEPT ![attemptCount[e]] = "DEAD_LETTER"]
        BY <1>1, <2>3, <3>2, <3>4
      <4>3. "DEAD_LETTER" \in Outcomes
        BY DEF Outcomes
      <4>4. RowOK("DEAD_LETTER", attemptCount[e], [ledger[e] EXCEPT ![attemptCount[e]] = "DEAD_LETTER"])
        BY <3>0, <3>4, <4>3, RecordRow
      <4> QED
        BY <1>1, <2>3, <4>1, <4>2, <4>4
    <3> QED
      BY <3>1, <3>3, <3>4 DEF Attempts
  <2> QED
    BY <2>1, <2>2, <2>3
<1>3. RowsOK'
  BY <1>2 DEF RowsOK
<1>4. Shape'
  <2>1. \A e \in Events : /\ status'[e] \in Statuses
                          /\ attemptCount'[e] \in 0..MaxAttempts
                          /\ ledger'[e] \in [Attempts -> Outcomes \cup {"none"}]
    BY <1>2 DEF RowOK
  <2> QED
    BY <2>1 DEF Shape, LeaseRows
<1> QED
  BY <1>3, <1>4

\* COMPLETE_SQL and FAIL_SQL keep every row consistent, even when the worker
\* that runs them lost the attempt long ago.
LEMMA RecordKeepsRows ==
    ASSUME Shape, RowsOK, NEW j \in Job, NEW o \in Outcomes, Record(j, o),
           o = "DEAD_LETTER" => j.attempt = MaxAttempts,
           o = "RETRY" => j.attempt < MaxAttempts
    PROVE  Shape' /\ RowsOK'
<1>1. CASE ~Owns(j)
  BY <1>1 DEF Record, rows, Shape, RowsOK
<1>2. CASE Owns(j)
  <2>1. /\ status' = [status EXCEPT ![j.event] = o]
        /\ due' = [due EXCEPT ![j.event] = FALSE]
        /\ ledger' = [ledger EXCEPT ![j.event][j.attempt] = o]
        /\ attemptCount' = attemptCount
    BY <1>2 DEF Record
  <2>2. j.event \in Events /\ j.attempt \in Attempts
    BY DEF Job
  <2>3. Shape'
    BY <2>1, <2>2 DEF Shape, Statuses, Outcomes
  <2>4. ASSUME NEW e \in Events
        PROVE  RowOK(status'[e], attemptCount'[e], ledger'[e])
    <3>1. RowOK(status[e], attemptCount[e], ledger[e])
      BY DEF RowsOK
    <3>2. CASE e # j.event
      BY <2>1, <2>2, <3>1, <3>2 DEF Shape
    <3>3. CASE e = j.event
      <4>1. status[e] = "PROCESSING" /\ attemptCount[e] = j.attempt
        BY <1>2, <3>3 DEF Owns
      <4>2. status'[e] = o /\ ledger'[e] = [ledger[e] EXCEPT ![j.attempt] = o]
        BY <2>1, <2>2, <3>3 DEF Shape
      <4> QED
        BY <2>1, <3>1, <4>1, <4>2, RecordRow
    <3> QED
      BY <3>2, <3>3
  <2> QED
    BY <2>3, <2>4 DEF RowsOK
<1> QED
  BY <1>1, <1>2

-----------------------------------------------------------------------------
(* The whole inductive invariant *)

LocalOK == LocalShape /\ JobsIssued /\ AttemptsNotShared /\ PublishedWasHandled

Inductive == Shape /\ RowsOK /\ LocalOK

\* Jobs are never the placeholder.
LEMMA NoJobIsNotAJob == NoJob \notin Job
BY DEF NoJob, Job, Attempts

LEMMA InitInductive == Init => Inductive
<1> SUFFICES ASSUME Init PROVE Inductive
  OBVIOUS
<1>1. Shape /\ LocalShape
  BY DEF Init, Shape, LocalShape, Statuses, Steps
<1>2. RowsOK
  <2> DEFINE empty == [a \in Attempts |-> "none"]
  <2>1. RowOK("ABSENT", 0, empty)
    BY DEF RowOK, Statuses, Outcomes, Attempts
  <2> QED
    BY <2>1 DEF Init, RowsOK
<1>3. JobsIssued /\ AttemptsNotShared /\ PublishedWasHandled
  BY DEF Init, JobsIssued, AttemptsNotShared, PublishedWasHandled
<1> QED
  BY <1>1, <1>2, <1>3 DEF Inductive, LocalOK

\* A worker past StartJob has a real job in hand.
LEMMA JobInHand ==
    ASSUME Inductive, NEW w \in Workers, step[w] # "idle"
    PROVE  job[w] \in Job /\ job[w] \in batch[w]
BY DEF Inductive, LocalOK, LocalShape, JobsIssued

\* The outcome fail() picks fits the attempt it closes.
LEMMA FailureOutcomeFits ==
    ASSUME NEW j \in Job
    PROVE  /\ FailureOutcome(j) \in Outcomes \ {"PUBLISHED"}
           /\ FailureOutcome(j) = "DEAD_LETTER" => j.attempt = MaxAttempts
           /\ FailureOutcome(j) = "RETRY" => j.attempt < MaxAttempts
BY DEF FailureOutcome, Job, Attempts, Outcomes

\* The attempt number of a row never decreases, and a row becomes PUBLISHED
\* only under Record.
LEMMA LeaseEffect ==
    ASSUME Inductive, NEW S \in SUBSET Candidates, LeaseRows(S)
    PROVE  /\ \A e \in Events : attemptCount'[e] \in {attemptCount[e], attemptCount[e] + 1}
           /\ \A e \in Events : attemptCount[e] <= attemptCount'[e]
           /\ \A e \in Events : status'[e] = "PUBLISHED" =>
                status[e] = "PUBLISHED" /\ attemptCount'[e] = attemptCount[e]
           /\ \A j \in Leased(S) :
                /\ j \in Job
                /\ j.attempt = attemptCount[j.event] + 1
                /\ j.attempt = attemptCount'[j.event]
<1>1. Shape /\ Shape'
  BY LeaseKeepsRows DEF Inductive
<1>2. \A e \in Events : attemptCount[e] \in Nat /\ attemptCount'[e] \in 0..MaxAttempts
  BY <1>1 DEF Shape
<1>3. \A e \in Events : attemptCount'[e] = IF e \in S /\ ~Exhausted(e)
                                          THEN attemptCount[e] + 1 ELSE attemptCount[e]
  BY DEF LeaseRows
<1>4. \A e \in Events : status'[e] = "PUBLISHED" => e \notin S /\ status[e] = "PUBLISHED"
  BY DEF LeaseRows
<1>5. ASSUME NEW j \in Leased(S)
      PROVE  /\ j \in Job
             /\ j.attempt = attemptCount[j.event] + 1
             /\ j.attempt = attemptCount'[j.event]
  <2>1. PICK e \in S : ~Exhausted(e) /\ j = [event |-> e, attempt |-> attemptCount[e] + 1]
    BY DEF Leased
  <2>2. e \in Events /\ attemptCount'[e] = attemptCount[e] + 1
    BY <1>3, <2>1 DEF Candidates
  <2>3. attemptCount[e] + 1 \in Attempts
    BY <1>2, <2>2 DEF Attempts
  <2> QED
    BY <2>1, <2>2, <2>3 DEF Job
<1> QED
  BY <1>2, <1>3, <1>4, <1>5

\* Record changes one row of the caller's own attempt, or nothing.
LEMMA RecordEffect ==
    ASSUME Inductive, NEW j \in Job, NEW o \in Outcomes, Record(j, o)
    PROVE  /\ attemptCount' = attemptCount
           /\ \A e \in Events : status'[e] # status[e] =>
                /\ e = j.event /\ status[e] = "PROCESSING" /\ status'[e] = o
                /\ attemptCount[e] = j.attempt
<1>1. CASE Owns(j)
  BY <1>1 DEF Record, Owns, Job, Inductive, Shape
<1>2. CASE ~Owns(j)
  BY <1>2 DEF Record, rows
<1> QED
  BY <1>1, <1>2

-----------------------------------------------------------------------------
(* Every step keeps the invariant *)

\* Steps that leave the rows alone keep them consistent.
LEMMA RowsAlone ==
    ASSUME Shape, RowsOK, UNCHANGED rows
    PROVE  Shape' /\ RowsOK'
BY DEF rows, Shape, RowsOK

LEMMA EventStepInductive ==
    ASSUME Inductive, NEW e \in Events, EventStep(e)
    PROVE  Inductive'
<1>1. LocalOK'
  <2>1. UNCHANGED <<batch, job, step, handled, attemptCount>>
    BY DEF EventStep, Enqueue, BackoffElapses, LeaseExpires, local
  <2>2. \A x \in Events : status'[x] = "PUBLISHED" => status[x] = "PUBLISHED"
    BY DEF EventStep, Enqueue, BackoffElapses, LeaseExpires, Inductive, Shape
  <2> QED
    BY <2>1, <2>2 DEF Inductive, LocalOK, LocalShape, JobsIssued, AttemptsNotShared,
                      PublishedWasHandled
<1>2. Shape' /\ RowsOK'
  <2>1. CASE Enqueue(e)
    <3>1. Shape'
      BY <2>1 DEF Enqueue, Inductive, Shape, Statuses
    <3>2. ASSUME NEW x \in Events PROVE RowOK(status'[x], attemptCount'[x], ledger'[x])
      <4>1. RowOK(status[x], attemptCount[x], ledger[x])
        BY DEF Inductive, RowsOK
      <4>2. CASE x # e
        BY <2>1, <4>1, <4>2 DEF Enqueue, Inductive, Shape
      <4>3. CASE x = e
        <5>1. /\ status[x] = "ABSENT" /\ status'[x] = "PENDING"
              /\ attemptCount' = attemptCount /\ ledger' = ledger
          BY <2>1, <4>3 DEF Enqueue, Inductive, Shape
        <5> QED
          BY <4>1, <5>1 DEF RowOK, Statuses, Outcomes
      <4> QED
        BY <4>2, <4>3
    <3> QED
      BY <3>1, <3>2 DEF RowsOK
  <2>2. CASE BackoffElapses(e) \/ LeaseExpires(e)
    BY <2>2 DEF BackoffElapses, LeaseExpires, Inductive, Shape, RowsOK
  <2> QED
    BY <2>1, <2>2 DEF EventStep
<1> QED
  BY <1>1, <1>2 DEF Inductive

\* A lease hands worker w jobs of attempts nobody has held before.
LEMMA LeaseInductive ==
    ASSUME Inductive, NEW w \in Workers, NEW S \in SUBSET Candidates, LeaseRows(S),
           step[w] = "idle", batch[w] = {}, UNCHANGED <<job, step, handled>>,
           NEW J \in SUBSET Leased(S), batch' = [batch EXCEPT ![w] = J]
    PROVE  Inductive'
<1>1. Shape' /\ RowsOK'
  BY LeaseKeepsRows DEF Inductive
<1>2. LocalShape'
  BY LeaseEffect DEF Inductive, LocalOK, LocalShape
<1>3. \A v \in Workers : batch'[v] = IF v = w THEN J ELSE batch[v]
  BY DEF Inductive, LocalOK, LocalShape
<1>4. \A v \in Workers : batch[v] \in SUBSET Job
  BY DEF Inductive, LocalOK, LocalShape
<1>5. \A e \in Events : attemptCount[e] \in Nat /\ attemptCount'[e] \in Nat
  BY <1>1 DEF Inductive, Shape
<1>6. JobsIssued'
  <2> SUFFICES ASSUME NEW v \in Workers
               PROVE  /\ \A j \in batch'[v] : j.attempt <= attemptCount'[j.event]
                      /\ step[v] = "idle" => job[v] = NoJob
                      /\ step[v] # "idle" => job[v] \in batch'[v]
                      /\ step[v] = "publish" => job[v].attempt \in handled[job[v].event]
    BY DEF JobsIssued
  <2>1. ASSUME NEW j \in batch'[v] PROVE j.attempt <= attemptCount'[j.event]
    <3>1. CASE v = w
      <4>1. j \in Job /\ j.attempt = attemptCount'[j.event]
        BY <1>3, <3>1, LeaseEffect
      <4> QED
        BY <1>5, <4>1 DEF Job
    <3>2. CASE v # w
      <4>1. j \in batch[v] /\ j \in Job
        BY <1>3, <1>4, <3>2
      <4>2. j.attempt <= attemptCount[j.event]
        BY <4>1 DEF Inductive, LocalOK, JobsIssued
      <4>3. j.event \in Events /\ j.attempt \in Nat
        BY <4>1 DEF Job, Attempts
      <4> QED
        BY <1>5, <4>2, <4>3, LeaseEffect
    <3> QED
      BY <3>1, <3>2
  <2>2. step[v] # "idle" => job[v] \in batch'[v]
    BY <1>3 DEF Inductive, LocalOK, JobsIssued
  <2> QED
    BY <2>1, <2>2 DEF Inductive, LocalOK, JobsIssued
<1>7. AttemptsNotShared'
  <2>1. ASSUME NEW v \in Workers, v # w, NEW j \in J PROVE j \notin batch[v]
    <3>1. j \in Job /\ j.attempt = attemptCount[j.event] + 1
      BY LeaseEffect
    <3>2. j \in batch[v] => j.attempt <= attemptCount[j.event]
      BY DEF Inductive, LocalOK, JobsIssued
    <3> QED
      BY <1>5, <3>1, <3>2 DEF Job
  <2> QED
    BY <1>3, <2>1 DEF AttemptsNotShared, Inductive, LocalOK
<1>8. PublishedWasHandled'
  <2> SUFFICES ASSUME NEW e \in Events, status'[e] = "PUBLISHED"
               PROVE  attemptCount'[e] \in handled[e]
    BY DEF PublishedWasHandled
  <2> QED
    BY LeaseEffect DEF Inductive, LocalOK, PublishedWasHandled
<1> QED
  BY <1>1, <1>2, <1>6, <1>7, <1>8 DEF Inductive, LocalOK

\* A worker that only moves on within its own batch keeps the local part, if
\* the rows keep theirs and nothing is published behind its back.
LEMMA MovingOnInductive ==
    ASSUME Inductive, Shape', RowsOK', attemptCount' = attemptCount,
           NEW w \in Workers, NEW B \in SUBSET batch[w], NEW k, NEW t \in Steps,
           batch' = [batch EXCEPT ![w] = B],
           job' = [job EXCEPT ![w] = k],
           step' = [step EXCEPT ![w] = t],
           handled' \in [Events -> SUBSET Attempts],
           \A e \in Events : handled[e] \subseteq handled'[e],
           t = "idle" => k = NoJob,
           t # "idle" => k \in B,
           t = "publish" => k.attempt \in handled'[k.event],
           \A e \in Events : status'[e] = "PUBLISHED" =>
             status[e] = "PUBLISHED" \/ attemptCount[e] \in handled[e]
    PROVE  Inductive'
<1>1. /\ \A v \in Workers : batch'[v] = IF v = w THEN B ELSE batch[v]
      /\ \A v \in Workers : job'[v] = IF v = w THEN k ELSE job[v]
      /\ \A v \in Workers : step'[v] = IF v = w THEN t ELSE step[v]
      /\ \A v \in Workers : batch[v] \in SUBSET Job
  BY DEF Inductive, LocalOK, LocalShape
<1>2. \A v \in Workers : batch'[v] \subseteq batch[v]
  BY <1>1
<1>3. k \in Job \cup {NoJob}
  BY <1>1
<1>4. LocalShape'
  <2>1. batch' \in [Workers -> SUBSET Job]
    BY <1>1 DEF Inductive, LocalOK, LocalShape
  <2>2. job' \in [Workers -> Job \cup {NoJob}]
    BY <1>3 DEF Inductive, LocalOK, LocalShape
  <2>3. step' \in [Workers -> Steps]
    BY DEF Inductive, LocalOK, LocalShape
  <2> QED
    BY <2>1, <2>2, <2>3 DEF LocalShape
<1>5. JobsIssued'
  <2> SUFFICES ASSUME NEW v \in Workers
               PROVE  /\ \A j \in batch'[v] : j.attempt <= attemptCount[j.event]
                      /\ step'[v] = "idle" => job'[v] = NoJob
                      /\ step'[v] # "idle" => job'[v] \in batch'[v]
                      /\ step'[v] = "publish" => job'[v].attempt \in handled'[job'[v].event]
    BY DEF JobsIssued
  <2>1. \A j \in batch'[v] : j.attempt <= attemptCount[j.event]
    BY <1>2 DEF Inductive, LocalOK, JobsIssued
  <2>2. CASE v = w
    BY <1>1, <2>1, <2>2
  <2>3. CASE v # w
    <3>1. /\ job'[v] = job[v] /\ step'[v] = step[v] /\ batch'[v] = batch[v]
      BY <1>1, <2>3
    <3>2. step[v] = "publish" => job[v].attempt \in handled'[job[v].event]
      <4> SUFFICES ASSUME step[v] = "publish" PROVE job[v].attempt \in handled'[job[v].event]
        OBVIOUS
      <4>1. job[v].event \in Events
        BY JobInHand DEF Job
      <4> QED
        BY <4>1 DEF Inductive, LocalOK, JobsIssued
    <3> QED
      BY <2>1, <3>1, <3>2 DEF Inductive, LocalOK, JobsIssued
  <2> QED
    BY <2>2, <2>3
<1>6. AttemptsNotShared'
  BY <1>2 DEF AttemptsNotShared, Inductive, LocalOK
<1>7. PublishedWasHandled'
  <2> SUFFICES ASSUME NEW e \in Events, status'[e] = "PUBLISHED"
               PROVE  attemptCount[e] \in handled'[e]
    BY DEF PublishedWasHandled
  <2> QED
    BY DEF Inductive, LocalOK, PublishedWasHandled
<1> QED
  BY <1>4, <1>5, <1>6, <1>7 DEF Inductive, LocalOK

\* A recorded outcome and the move after it.
LEMMA RecordInductive ==
    ASSUME Inductive, NEW w \in Workers, step[w] # "idle",
           NEW o \in Outcomes, Record(job[w], o),
           o = "PUBLISHED" => step[w] = "publish",
           o = "DEAD_LETTER" => job[w].attempt = MaxAttempts,
           o = "RETRY" => job[w].attempt < MaxAttempts,
           UNCHANGED handled,
           \/ JobEnds(w)
           \/ step' = [step EXCEPT ![w] = "fail"] /\ UNCHANGED <<batch, job>>
    PROVE  Inductive'
<1>1. job[w] \in Job /\ job[w] \in batch[w]
  BY JobInHand
<1>2. Shape' /\ RowsOK' /\ attemptCount' = attemptCount
  BY <1>1, RecordKeepsRows, RecordEffect DEF Inductive
<1>3. ASSUME NEW e \in Events, status'[e] = "PUBLISHED"
      PROVE  status[e] = "PUBLISHED" \/ attemptCount[e] \in handled[e]
  <2>1. CASE status'[e] = status[e]
    BY <1>3, <2>1
  <2>2. CASE status'[e] # status[e]
    <3>1. e = job[w].event /\ status'[e] = o /\ attemptCount[e] = job[w].attempt
      BY <1>1, <2>2, RecordEffect
    <3>2. step[w] = "publish"
      BY <1>3, <3>1
    <3> QED
      BY <3>1, <3>2 DEF Inductive, LocalOK, JobsIssued
  <2> QED
    BY <2>1, <2>2
<1>4. handled' \in [Events -> SUBSET Attempts] /\ handled' = handled
  BY DEF Inductive, LocalOK, LocalShape
<1>5. CASE JobEnds(w)
  <2>1. "idle" \in Steps /\ batch[w] \ {job[w]} \in SUBSET batch[w]
    BY DEF Steps
  <2> QED
    BY <1>2, <1>3, <1>4, <1>5, <2>1, MovingOnInductive DEF JobEnds
<1>6. CASE step' = [step EXCEPT ![w] = "fail"] /\ UNCHANGED <<batch, job>>
  <2>1. "fail" \in Steps
    BY DEF Steps
  <2>2. batch' = [batch EXCEPT ![w] = batch[w]] /\ job' = [job EXCEPT ![w] = job[w]]
    BY <1>6 DEF Inductive, LocalOK, LocalShape
  <2>3. batch[w] \in SUBSET batch[w] /\ "fail" # "idle" /\ "fail" # "publish"
    OBVIOUS
  <2>4. \A e \in Events : handled[e] \subseteq handled'[e]
    BY <1>4
  <2>5. step' = [step EXCEPT ![w] = "fail"]
    BY <1>6
  <2> QED
    BY <1>1, <1>2, <1>3, <1>4, <2>1, <2>2, <2>3, <2>4, <2>5, MovingOnInductive
<1> QED
  BY <1>5, <1>6

\* The moves of a worker that run no statement, or lose their answer.
LEMMA QuietInductive ==
    ASSUME Inductive, NEW w \in Workers, UNCHANGED rows,
           NEW B \in SUBSET batch[w], NEW k, NEW t \in Steps,
           batch' = [batch EXCEPT ![w] = B],
           job' = [job EXCEPT ![w] = k],
           step' = [step EXCEPT ![w] = t],
           handled' \in [Events -> SUBSET Attempts],
           \A e \in Events : handled[e] \subseteq handled'[e],
           t = "idle" => k = NoJob,
           t # "idle" => k \in B,
           t = "publish" => k.attempt \in handled'[k.event]
    PROVE  Inductive'
<1>1. Shape' /\ RowsOK'
  BY RowsAlone DEF Inductive
<1>2. attemptCount' = attemptCount /\ status' = status
  BY DEF rows
<1> QED
  BY <1>1, <1>2, MovingOnInductive

LEMMA WorkerStepInductive ==
    ASSUME Inductive, NEW w \in Workers, WorkerStep(w)
    PROVE  Inductive'
<1>0. /\ batch \in [Workers -> SUBSET Job] /\ job \in [Workers -> Job \cup {NoJob}]
      /\ step \in [Workers -> Steps] /\ handled \in [Events -> SUBSET Attempts]
      /\ \A v \in Workers : step[v] = "idle" => job[v] = NoJob
  BY DEF Inductive, LocalOK, LocalShape, JobsIssued
<1>1. CASE Poll(w)
  <2>1. PICK S \in SUBSET Candidates :
          LeaseRows(S) /\ batch' = [batch EXCEPT ![w] = Leased(S)]
    BY <1>1 DEF Poll
  <2> QED
    BY <1>1, <2>1, LeaseInductive DEF Poll
<1>2. CASE PollAnswerLost(w)
  <2>1. PICK S \in SUBSET Candidates : LeaseRows(S)
    BY <1>2 DEF PollAnswerLost
  <2>2. batch' = [batch EXCEPT ![w] = {}] /\ {} \in SUBSET Leased(S)
    BY <1>0, <1>2 DEF PollAnswerLost, local
  <2>3. step[w] = "idle" /\ batch[w] = {} /\ UNCHANGED <<job, step, handled>>
    BY <1>2 DEF PollAnswerLost, local
  <2> QED
    BY <2>1, <2>2, <2>3, LeaseInductive
<1>3. CASE StartJob(w)
  <2>1. PICK j \in batch[w] : job' = [job EXCEPT ![w] = j]
    BY <1>3 DEF StartJob
  <2>2. /\ batch' = [batch EXCEPT ![w] = batch[w]] /\ batch[w] \in SUBSET batch[w]
        /\ "handle" \in Steps
    BY <1>0, <1>3 DEF StartJob, Steps
  <2>3. handled' = handled /\ step' = [step EXCEPT ![w] = "handle"] /\ UNCHANGED rows
    BY <1>3 DEF StartJob
  <2> QED
    BY <1>0, <2>1, <2>2, <2>3, QuietInductive
<1>4. CASE HandlerReturns(w)
  <2>1. job[w] \in Job /\ job[w] \in batch[w]
    BY <1>4, JobInHand DEF HandlerReturns
  <2>2. /\ batch' = [batch EXCEPT ![w] = batch[w]] /\ batch[w] \in SUBSET batch[w]
        /\ job' = [job EXCEPT ![w] = job[w]]
        /\ "publish" \in Steps
    BY <1>0, <1>4 DEF HandlerReturns, Steps
  <2>3. job[w].event \in Events /\ job[w].attempt \in Attempts
    BY <2>1 DEF Job
  <2>4. /\ handled' \in [Events -> SUBSET Attempts]
        /\ \A e \in Events : handled[e] \subseteq handled'[e]
        /\ job[w].attempt \in handled'[job[w].event]
    BY <1>0, <1>4, <2>3 DEF HandlerReturns
  <2>5. step' = [step EXCEPT ![w] = "publish"] /\ UNCHANGED rows
    BY <1>4 DEF HandlerReturns
  <2> QED
    BY <2>1, <2>2, <2>4, <2>5, QuietInductive
<1>5. CASE HandlerThrows(w)
  <2>1. job[w] \in Job /\ job[w] \in batch[w]
    BY <1>5, JobInHand DEF HandlerThrows
  <2>2. /\ batch' = [batch EXCEPT ![w] = batch[w]] /\ batch[w] \in SUBSET batch[w]
        /\ job' = [job EXCEPT ![w] = job[w]]
        /\ "fail" \in Steps
    BY <1>0, <1>5 DEF HandlerThrows, Steps
  <2>3. handled' = handled /\ step' = [step EXCEPT ![w] = "fail"] /\ UNCHANGED rows
    BY <1>5 DEF HandlerThrows
  <2> QED
    BY <1>0, <2>1, <2>2, <2>3, QuietInductive
<1>6. CASE PublishJob(w)
  <2>1. "PUBLISHED" \in Outcomes /\ step[w] = "publish"
    BY <1>6 DEF PublishJob, Outcomes
  <2>2. \/ JobEnds(w)
        \/ step' = [step EXCEPT ![w] = "fail"] /\ UNCHANGED <<batch, job>>
    BY <1>6 DEF PublishJob
  <2> QED
    BY <1>6, <2>1, <2>2, RecordInductive DEF PublishJob
<1>7. CASE PublishErrors(w)
  <2>1. /\ "PUBLISHED" \in Outcomes /\ step[w] = "publish"
        /\ step' = [step EXCEPT ![w] = "fail"] /\ UNCHANGED <<batch, job, handled>>
    BY <1>7 DEF PublishErrors, Outcomes
  <2>2. CASE Record(job[w], "PUBLISHED")
    BY <2>1, <2>2, RecordInductive
  <2>3. CASE UNCHANGED rows
    <3>1. /\ batch' = [batch EXCEPT ![w] = batch[w]] /\ batch[w] \in SUBSET batch[w]
          /\ job' = [job EXCEPT ![w] = job[w]]
          /\ "fail" \in Steps
      BY <1>0, <2>1 DEF Steps
    <3>2. job[w] \in batch[w]
      BY <2>1, JobInHand
    <3>3. /\ step' = [step EXCEPT ![w] = "fail"]
          /\ handled' \in [Events -> SUBSET Attempts]
          /\ \A e \in Events : handled[e] \subseteq handled'[e]
      BY <1>0, <2>1
    <3> QED
      BY <2>3, <3>1, <3>2, <3>3, QuietInductive
  <2> QED
    BY <1>7, <2>2, <2>3 DEF PublishErrors
<1>8. CASE FailJob(w)
  <2>1. job[w] \in Job
    BY <1>8, JobInHand DEF FailJob
  <2> QED
    BY <1>8, <2>1, FailureOutcomeFits, RecordInductive DEF FailJob
<1>9. CASE FailErrors(w) \/ Crash(w)
  <2>1. PICK B \in SUBSET batch[w] : batch' = [batch EXCEPT ![w] = B]
    <3>1. CASE FailErrors(w)
      BY <3>1 DEF FailErrors, JobEnds
    <3>2. CASE Crash(w)
      BY <3>2 DEF Crash
    <3> QED
      BY <1>9, <3>1, <3>2
  <2>2. /\ job' = [job EXCEPT ![w] = NoJob] /\ step' = [step EXCEPT ![w] = "idle"]
        /\ UNCHANGED rows /\ handled' = handled
        /\ "idle" \in Steps
    BY <1>9 DEF FailErrors, JobEnds, Crash, Steps
  <2> QED
    BY <1>0, <2>1, <2>2, QuietInductive
<1> QED
  BY <1>1, <1>2, <1>3, <1>4, <1>5, <1>6, <1>7, <1>8, <1>9 DEF WorkerStep

LEMMA NextInductive == Inductive /\ [Next]_vars => Inductive'
<1> SUFFICES ASSUME Inductive, [Next]_vars PROVE Inductive'
  OBVIOUS
<1>1. CASE UNCHANGED vars
  BY <1>1 DEF vars, Inductive, Shape, RowsOK, LocalOK, LocalShape, JobsIssued,
              AttemptsNotShared, PublishedWasHandled
<1>2. CASE Next
  BY <1>2, EventStepInductive, WorkerStepInductive DEF Next
<1> QED
  BY <1>1, <1>2

LEMMA InductiveImpliesIInv == Inductive => IInv
<1> SUFFICES ASSUME Inductive PROVE IInv
  OBVIOUS
<1>1. \A e \in Events : RowOK(status[e], attemptCount[e], ledger[e])
  BY DEF Inductive, RowsOK
<1>2. LedgerAgrees
  BY <1>1 DEF LedgerAgrees, RowOK
<1>3. DeadLetterIsExhausted /\ RetryHasBudget
  BY <1>1 DEF DeadLetterIsExhausted, RetryHasBudget, RowOK
<1>4. TypeOK
  BY DEF TypeOK, Inductive, Shape, LocalOK, LocalShape
<1> QED
  BY <1>2, <1>3, <1>4 DEF IInv, Inductive, LocalOK

LEMMA SpecInductive == Spec => []Inductive
BY InitInductive, NextInductive, PTL DEF Spec

-----------------------------------------------------------------------------
(* The theorems *)

\* Every variable of the outbox keeps its type for any number of events,
\* workers and attempts: no row is ever claimed beyond WORKER_MAX_ATTEMPTS.
THEOREM TypeCorrect == Spec => []TypeOK
BY SpecInductive, InductiveImpliesIInv, PTL DEF IInv

\* The attempt ledger always agrees with the event rows, whichever worker or
\* lease sweep closed each attempt.
THEOREM LedgerConsistent == Spec => []LedgerAgrees
BY SpecInductive, InductiveImpliesIInv, PTL DEF IInv

\* Events are buried after exactly WORKER_MAX_ATTEMPTS attempts, and a row
\* left for retry always has one to spend.
THEOREM BudgetRespected == Spec => [](DeadLetterIsExhausted /\ RetryHasBudget)
BY SpecInductive, InductiveImpliesIInv, PTL DEF IInv

\* No attempt is ever in the hands of two workers.
THEOREM AttemptsFenced == Spec => []AttemptsNotShared
BY SpecInductive, InductiveImpliesIInv, PTL DEF IInv

\* A published event was handled to completion in the attempt credited.
THEOREM PublishedHandled == Spec => []PublishedWasHandled
BY SpecInductive, InductiveImpliesIInv, PTL DEF IInv

-----------------------------------------------------------------------------
(* What a step may never do *)

\* The action SettledForever boxes.
Keeps(e) ==
    /\ status[e] \in Settled => status'[e] = status[e]
    /\ \A a \in Attempts : ledger[e][a] # "none" => ledger'[e][a] = ledger[e][a]
    /\ attemptCount'[e] \in {attemptCount[e], attemptCount[e] + 1}

LEMMA LeaseKeeps ==
    ASSUME Inductive, NEW S \in SUBSET Candidates, LeaseRows(S), NEW e \in Events
    PROVE  Keeps(e)
<1>1. status[e] \in Settled => e \notin S
  BY DEF Settled, Candidates
<1>2. \A a \in Attempts : ledger[e][a] # "none" => ledger'[e][a] = ledger[e][a]
  <2>1. CASE Abandoned(e) /\ e \in S
    <3>1. ledger[e] \in [Attempts -> Outcomes \cup {"none"}] /\ attemptCount[e] \in 0..MaxAttempts
      BY DEF Inductive, Shape
    <3>2. PICK o : ledger'[e] = [ledger[e] EXCEPT ![attemptCount[e]] = o]
      BY <2>1 DEF LeaseRows
    <3>3. attemptCount[e] \in Attempts => ledger[e][attemptCount[e]] = "none"
      BY <2>1 DEF Abandoned, HasRow
    <3> QED
      BY <3>1, <3>2, <3>3
  <2>2. CASE ~(Abandoned(e) /\ e \in S)
    <3>1. ledger'[e] = ledger[e]
      BY <2>2 DEF LeaseRows
    <3> QED
      BY <3>1
  <2> QED
    BY <2>1, <2>2
<1>3. status[e] \in Settled => status'[e] = status[e]
  BY <1>1 DEF LeaseRows
<1> QED
  BY <1>2, <1>3, LeaseEffect DEF Keeps

LEMMA RecordKeeps ==
    ASSUME Inductive, NEW j \in Job, NEW o \in Outcomes, Record(j, o), NEW e \in Events
    PROVE  Keeps(e)
<1>1. status[e] \in Settled => status'[e] = status[e]
  BY RecordEffect DEF Settled
<1>2. attemptCount'[e] = attemptCount[e]
  BY RecordEffect
<1>3. \A a \in Attempts : ledger[e][a] # "none" => ledger'[e][a] = ledger[e][a]
  <2>1. CASE Owns(j)
    BY <2>1 DEF Record, Owns, HasRow, Job, Inductive, Shape
  <2>2. CASE ~Owns(j)
    BY <2>2 DEF Record, rows
  <2> QED
    BY <2>1, <2>2
<1> QED
  BY <1>1, <1>2, <1>3 DEF Keeps

LEMMA QuietKeeps ==
    ASSUME UNCHANGED rows, NEW e \in Events
    PROVE  Keeps(e)
BY DEF rows, Keeps

LEMMA NextKeeps ==
    ASSUME Inductive, [Next]_vars, NEW e \in Events
    PROVE  Keeps(e)
<1>1. CASE UNCHANGED vars
  BY <1>1 DEF vars, Keeps
<1>2. ASSUME NEW x \in Events, EventStep(x) PROVE Keeps(e)
  BY <1>2 DEF EventStep, Enqueue, BackoffElapses, LeaseExpires, Keeps, Settled, Inductive, Shape
<1>3. ASSUME NEW w \in Workers, WorkerStep(w) PROVE Keeps(e)
  <2>1. CASE Poll(w) \/ PollAnswerLost(w)
    <3>1. PICK S \in SUBSET Candidates : LeaseRows(S)
      BY <2>1 DEF Poll, PollAnswerLost
    <3> QED
      BY <3>1, LeaseKeeps
  <2>2. CASE StartJob(w) \/ HandlerReturns(w) \/ HandlerThrows(w) \/ FailErrors(w) \/ Crash(w)
    <3>1. UNCHANGED rows
      BY <2>2 DEF StartJob, HandlerReturns, HandlerThrows, FailErrors, Crash
    <3> QED
      BY <3>1, QuietKeeps
  <2>3. CASE PublishJob(w) \/ PublishErrors(w)
    <3>1. job[w] \in Job /\ "PUBLISHED" \in Outcomes
      BY <2>3, JobInHand DEF PublishJob, PublishErrors, Outcomes
    <3>2. Record(job[w], "PUBLISHED") \/ UNCHANGED rows
      BY <2>3 DEF PublishJob, PublishErrors
    <3> QED
      BY <3>1, <3>2, RecordKeeps, QuietKeeps
  <2>4. CASE FailJob(w)
    <3>1. job[w] \in Job
      BY <2>4, JobInHand DEF FailJob
    <3> QED
      BY <2>4, <3>1, FailureOutcomeFits, RecordKeeps DEF FailJob
  <2> QED
    BY <1>3, <2>1, <2>2, <2>3, <2>4 DEF WorkerStep
<1> QED
  BY <1>1, <1>2, <1>3 DEF Next

\* No step reopens a settled event, rewrites an attempt row or skips an attempt
\* number, however late the worker that takes it.
THEOREM NothingSettledIsReopened == Spec => SettledForever
<1>1. Inductive /\ [Next]_vars => \A e \in Events : Keeps(e)
  BY NextKeeps
<1>2. (\A e \in Events : Keeps(e)) =>
        \A e \in Events :
          /\ status[e] \in Settled => status'[e] = status[e]
          /\ \A a \in Attempts : ledger[e][a] # "none" => ledger'[e][a] = ledger[e][a]
          /\ attemptCount'[e] \in {attemptCount[e], attemptCount[e] + 1}
  BY DEF Keeps
<1> QED
  BY <1>1, <1>2, SpecInductive, PTL DEF Spec, SettledForever

-----------------------------------------------------------------------------
(* The refinement of the abstract specification *)

\* The map is injective on the statuses that are settled or absent.
LEMMA FateOf ==
    ASSUME Inductive, NEW e \in Events
    PROVE  /\ Fate(e) = "unborn" <=> status[e] = "ABSENT"
           /\ Fate(e) = "published" <=> status[e] = "PUBLISHED"
           /\ Fate(e) = "dead" <=> status[e] = "DEAD_LETTER"
           /\ Fate(e) = "open" <=> status[e] \in {"PENDING", "PROCESSING", "RETRY"}
BY DEF Inductive, Shape, Statuses, Fate

\* A step that changes the status of one event changes at most its fate.
LEMMA FateChanges ==
    ASSUME Inductive, NEW e \in Events, NEW s \in Statuses, status' = [status EXCEPT ![e] = s]
    PROVE  /\ \A x \in Events : x # e => Fate(x)' = Fate(x)
           /\ s = "PUBLISHED" => Fate(e)' = "published"
           /\ s = "DEAD_LETTER" => Fate(e)' = "dead"
           /\ s \in {"PENDING", "RETRY"} => Fate(e)' = "open"
<1>1. \A x \in Events : status'[x] = IF x = e THEN s ELSE status[x]
  BY DEF Inductive, Shape
<1>2. ASSUME NEW x \in Events, x # e PROVE Fate(x)' = Fate(x)
  BY <1>1, <1>2 DEF Fate
<1>3. /\ s = "PUBLISHED" => Fate(e)' = "published"
      /\ s = "DEAD_LETTER" => Fate(e)' = "dead"
      /\ s \in {"PENDING", "RETRY"} => Fate(e)' = "open"
  BY <1>1 DEF Fate
<1> QED
  BY <1>2, <1>3

LEMMA EnqueueSubmits == ASSUME Inductive, NEW e \in Events, Enqueue(e) PROVE Promise!Submit(e)
<1>1. status[e] = "ABSENT" /\ status' = [status EXCEPT ![e] = "PENDING"]
      /\ UNCHANGED <<attemptCount, handled>>
  BY DEF Enqueue
<1>2. \A x \in Events : Fate(x)' = IF x = e THEN "open" ELSE Fate(x)
  BY <1>1, FateChanges DEF Statuses
<1> QED
  BY <1>1, <1>2, FateOf DEF Promise!Submit

\* LEASE_SQL on S: the exhausted rows of S are buried, the others tried again.
LEMMA LeaseSweeps ==
    ASSUME Inductive, NEW S \in SUBSET Candidates, LeaseRows(S), UNCHANGED handled
    PROVE  \E C, B \in SUBSET Events : Promise!Sweep(C, B)
<1> DEFINE C == {e \in S : ~Exhausted(e)}
           B == {e \in S : Exhausted(e)}
<1>1. S \subseteq Events /\ \A e \in S : Fate(e) = "open"
  BY FateOf DEF Candidates
<1>2. \A e \in C : attemptCount[e] < MaxAttempts
  <2> SUFFICES ASSUME NEW e \in C PROVE attemptCount[e] < MaxAttempts
    OBVIOUS
  <2>1. RowOK(status[e], attemptCount[e], ledger[e]) /\ status[e] \in {"PENDING", "RETRY", "PROCESSING"}
    BY <1>1 DEF Inductive, RowsOK, Candidates
  <2> QED
    BY <2>1 DEF RowOK, Exhausted
<1>3. \A e \in B : attemptCount[e] = MaxAttempts
  BY <1>1 DEF Exhausted, Inductive, Shape
<1>4. attemptCount' = [e \in Events |-> IF e \in C THEN attemptCount[e] + 1 ELSE attemptCount[e]]
  BY DEF LeaseRows
<1>5. \A e \in Events : Fate(e)' = IF e \in B THEN "dead" ELSE Fate(e)
  <2> SUFFICES ASSUME NEW e \in Events PROVE Fate(e)' = IF e \in B THEN "dead" ELSE Fate(e)
    OBVIOUS
  <2>1. status'[e] = IF e \notin S THEN status[e]
                     ELSE IF Exhausted(e) THEN "DEAD_LETTER" ELSE "PROCESSING"
    BY DEF LeaseRows
  <2> QED
    BY <1>1, <2>1 DEF Fate
<1>6. Promise!Sweep(C, B)
  BY <1>1, <1>2, <1>3, <1>4, <1>5 DEF Promise!Sweep
<1> QED
  BY <1>1, <1>6

\* COMPLETE_SQL and FAIL_SQL publish or bury the event, or do nothing the promise speaks of.
LEMMA RecordRefines ==
    ASSUME Inductive, NEW j \in Job, NEW o \in Outcomes, Record(j, o), UNCHANGED handled,
           o = "PUBLISHED" => j.attempt \in handled[j.event],
           o = "DEAD_LETTER" => j.attempt = MaxAttempts
    PROVE  \/ Promise!Publish(j.event) \/ Promise!Bury(j.event)
           \/ UNCHANGED Promise!abstractVars
<1> DEFINE e == j.event
<1>0. e \in Events
  BY DEF Job
<1>1. CASE Owns(j)
  <2>1. /\ status[e] = "PROCESSING" /\ attemptCount[e] = j.attempt /\ UNCHANGED attemptCount
        /\ status' = [status EXCEPT ![e] = o]
    BY <1>1 DEF Owns, Record
  <2>2. Fate(e) = "open"
    BY <1>0, <2>1, FateOf
  <2>3. CASE o = "PUBLISHED"
    <3>1. \A x \in Events : Fate(x)' = IF x = e THEN "published" ELSE Fate(x)
      BY <1>0, <2>1, <2>3, FateChanges DEF Statuses
    <3> QED
      BY <1>0, <2>1, <2>2, <2>3, <3>1 DEF Promise!Publish
  <2>4. CASE o = "DEAD_LETTER"
    <3>1. \A x \in Events : Fate(x)' = IF x = e THEN "dead" ELSE Fate(x)
      BY <1>0, <2>1, <2>4, FateChanges DEF Statuses
    <3> QED
      BY <1>0, <2>1, <2>2, <2>4, <3>1 DEF Promise!Bury
  <2>5. CASE o = "RETRY"
    <3>1. \A x \in Events : Fate(x)' = Fate(x)
      BY <1>0, <2>1, <2>2, <2>5, FateChanges DEF Statuses
    <3> QED
      BY <2>1, <3>1 DEF Promise!abstractVars
  <2> QED
    BY <2>3, <2>4, <2>5 DEF Outcomes
<1>2. CASE ~Owns(j)
  <2>1. UNCHANGED <<status, attemptCount>>
    BY <1>2 DEF Record, rows
  <2> QED
    BY <2>1 DEF Promise!abstractVars, Fate
<1> QED
  BY <1>1, <1>2

\* A handler returns in a try that was made: the attempt was issued when the event was leased.
LEMMA ReturnCompletes ==
    ASSUME Inductive, NEW w \in Workers, HandlerReturns(w)
    PROVE  \E e \in Events, n \in 1..MaxAttempts : Promise!Complete(e, n)
<1> DEFINE j == job[w]
<1>1. j \in Job /\ j \in batch[w]
  BY JobInHand DEF HandlerReturns
<1>2. j.event \in Events /\ j.attempt \in 1..MaxAttempts
  BY <1>1 DEF Job, Attempts
<1>3. attemptCount[j.event] \in Nat
  BY <1>2 DEF Inductive, Shape
<1>4. j.attempt \in 1..attemptCount[j.event]
  BY <1>1, <1>2, <1>3 DEF Inductive, LocalOK, JobsIssued
<1>5. UNCHANGED <<status, attemptCount>> /\ handled' = [handled EXCEPT ![j.event] = @ \cup {j.attempt}]
  BY DEF HandlerReturns, rows
<1>6. Promise!Complete(j.event, j.attempt)
  BY <1>4, <1>5 DEF Promise!Complete, Fate
<1> QED
  BY <1>2, <1>6

LEMMA QuietRefines == UNCHANGED <<status, attemptCount, handled>> => UNCHANGED Promise!abstractVars
BY DEF Promise!abstractVars, Fate

LEMMA NextRefines ==
    ASSUME Inductive, [Next]_vars
    PROVE  [Promise!AbstractNext]_Promise!abstractVars
<1>1. CASE UNCHANGED vars
  BY <1>1, QuietRefines DEF vars
<1>2. ASSUME NEW e \in Events, EventStep(e) PROVE [Promise!AbstractNext]_Promise!abstractVars
  <2>1. CASE Enqueue(e)
    BY <2>1, EnqueueSubmits DEF Promise!AbstractNext
  <2>2. CASE BackoffElapses(e) \/ LeaseExpires(e)
    BY <2>2, QuietRefines DEF BackoffElapses, LeaseExpires
  <2> QED
    BY <1>2, <2>1, <2>2 DEF EventStep
<1>3. ASSUME NEW w \in Workers, WorkerStep(w) PROVE [Promise!AbstractNext]_Promise!abstractVars
  <2>1. CASE Poll(w) \/ PollAnswerLost(w)
    <3>1. PICK S \in SUBSET Candidates : LeaseRows(S)
      BY <2>1 DEF Poll, PollAnswerLost
    <3>2. UNCHANGED handled
      BY <2>1 DEF Poll, PollAnswerLost
    <3> QED
      BY <3>1, <3>2, LeaseSweeps DEF Promise!AbstractNext
  <2>2. CASE StartJob(w) \/ HandlerThrows(w) \/ FailErrors(w) \/ Crash(w)
    BY <2>2, QuietRefines DEF StartJob, HandlerThrows, FailErrors, Crash, rows
  <2>3. CASE HandlerReturns(w)
    BY <2>3, ReturnCompletes DEF Promise!AbstractNext
  <2>4. CASE PublishJob(w) \/ PublishErrors(w)
    <3>1. /\ job[w] \in Job /\ job[w].attempt \in handled[job[w].event] /\ "PUBLISHED" \in Outcomes
          /\ UNCHANGED handled
      BY <2>4, JobInHand DEF PublishJob, PublishErrors, Outcomes, Inductive, LocalOK, JobsIssued
    <3>2. Record(job[w], "PUBLISHED") \/ UNCHANGED rows
      BY <2>4 DEF PublishJob, PublishErrors
    <3>3. job[w].event \in Events
      BY <3>1 DEF Job
    <3> QED
      BY <3>1, <3>2, <3>3, RecordRefines, QuietRefines DEF Promise!AbstractNext, rows
  <2>5. CASE FailJob(w)
    <3>1. job[w] \in Job /\ job[w].event \in Events /\ UNCHANGED handled
      BY <2>5, JobInHand DEF FailJob, Job
    <3> QED
      BY <2>5, <3>1, FailureOutcomeFits, RecordRefines DEF FailJob, Promise!AbstractNext
  <2> QED
    BY <1>3, <2>1, <2>2, <2>3, <2>4, <2>5 DEF WorkerStep
<1> QED
  BY <1>1, <1>2, <1>3 DEF Next

\* The outbox implements what its producers rely on, for any events, workers, batches and attempts:
\* each of its steps is a step of AtLeastOnce or invisible to it.
THEOREM OutboxImplementsPromise == Spec => ImplementsPromise
<1>1. Init => Promise!AbstractInit
  BY DEF Init, Promise!AbstractInit, Fate
<1> QED
  BY <1>1, NextRefines, SpecInductive, PTL DEF Spec, ImplementsPromise, Promise!AtLeastOnceSpec

-----------------------------------------------------------------------------
(* The composition runs on the outbox *)

LEMMA HandlerIsTheOutboxs ==
    ASSUME NEW w \in Workers, DispatchStep(w)
    PROVE  UNCHANGED vars \/ HandlerReturns(w) \/ HandlerThrows(w)
BY DEF DispatchStep, ClaimDelivery, InspectDelivery, MarkExhausted, SendPush, CompleteDelivery,
       MarkForRetry, FailTerminally, StatementFails, Returns, Throws

LEMMA StepOfTheOutbox == [PushNext]_pushVars => [Next]_vars
<1> SUFFICES ASSUME [PushNext]_pushVars PROVE [Next]_vars
  OBVIOUS
<1>1. ASSUME NEW d \in Deliveries, NEW e \in Events, NewDelivery(d, e) \/ RetryDelivery(d, e)
      PROVE  Next
  BY <1>1 DEF NewDelivery, RetryDelivery, Next, EventStep
<1>2. ASSUME NEW d \in Deliveries, DeliveryAges(d) \/ ReceiptExpired(d)
      PROVE  UNCHANGED vars
  BY <1>2 DEF DeliveryAges, ReceiptExpired
<1>3. ASSUME NEW w \in Workers, StartDispatch(w) \/ DispatchStep(w) \/ CrashInDispatch(w)
      PROVE  [Next]_vars
  BY <1>3, HandlerIsTheOutboxs DEF StartDispatch, CrashInDispatch, Next, WorkerStep
<1>4. ASSUME OutboxStep PROVE Next
  BY <1>4 DEF OutboxStep, Next, EventStep, WorkerStep
<1>5. UNCHANGED pushVars => UNCHANGED vars
  BY DEF pushVars
<1> QED
  BY <1>1, <1>2, <1>3, <1>4, <1>5 DEF PushNext

\* Whatever dispatchNotification does, the rows and workers of the outbox take
\* only the steps of pollOnce: what is proved of Outbox holds of the push jobs.
THEOREM PushRunsOnTheOutbox == PushSpec => RunsOnTheOutbox
<1>1. PushInit => Init
  BY DEF PushInit
<1> QED
  BY <1>1, StepOfTheOutbox, PTL DEF PushSpec, Spec, RunsOnTheOutbox

LEMMA PushSpecInductive == PushSpec => []Inductive
BY PushRunsOnTheOutbox, SpecInductive DEF RunsOnTheOutbox

-----------------------------------------------------------------------------
(* The inductive invariant *)

\* The handler runs exactly while pollOnce waits for it.
InTheHandler == \A w \in Workers : phase[w] # "none" <=> step[w] = "handle"

\* An inserted event dispatches a delivery.
EventsTargeted == \A e \in Events : status[e] # "ABSENT" => target[e] \in Deliveries

\* A worker about to record the delivery, and a recorded one, rest on an
\* accepted push, Expo's on a queued receipt check too.
Accepted ==
    /\ \A w \in Workers : phase[w] = "complete" => accepted[DeliveryOf(w)] > 0
    /\ \A d \in Deliveries : delivery[d] = "DELIVERED" =>
         accepted[d] > 0 /\ (provider[d] = "EXPO" => receipt[d])

PInv == PushTypeOK /\ InTheHandler /\ EventsTargeted /\ Accepted /\ SendsBounded

LEMMA InitPInv == PushInit => PInv
<1> SUFFICES ASSUME PushInit PROVE PInv
  OBVIOUS
<1>1. PushTypeOK /\ InTheHandler /\ EventsTargeted /\ Accepted
  <2>1. PushTypeOK
    BY MaxAttemptsPositive DEF PushInit, PushTypeOK, DeliveryStatuses, Phases
  <2>2. InTheHandler /\ EventsTargeted /\ Accepted
    BY DEF PushInit, Init, InTheHandler, EventsTargeted, Accepted
  <2> QED
    BY <2>1, <2>2
<1>2. ASSUME NEW d \in Deliveries
      PROVE  sends[d] + Cardinality({w \in Workers : Sending(w, d)}) <= tries[d]
  <2>1. {w \in Workers : Sending(w, d)} = {}
    BY DEF PushInit, Sending
  <2> QED
    BY <2>1, FS_EmptySet DEF PushInit
<1> QED
  BY <1>1, <1>2 DEF PInv, SendsBounded

\* The job of a worker in the handler is of an inserted event: its attempt was
\* issued, and an absent event has issued none.
LEMMA OnADelivery ==
    ASSUME Inductive, PInv, NEW w \in Workers, phase[w] # "none"
    PROVE  /\ step[w] = "handle" /\ job[w] \in Job /\ status[job[w].event] # "ABSENT"
           /\ DeliveryOf(w) \in Deliveries
<1>1. step[w] = "handle"
  BY DEF PInv, InTheHandler
<1>2. job[w] \in Job /\ job[w] \in batch[w]
  BY <1>1, JobInHand
<1>3. job[w].attempt <= attemptCount[job[w].event] /\ job[w].attempt \in Attempts
      /\ job[w].event \in Events
  BY <1>2 DEF Inductive, LocalOK, JobsIssued, Job
<1>4. RowOK(status[job[w].event], attemptCount[job[w].event], ledger[job[w].event])
  BY <1>3 DEF Inductive, RowsOK
<1>5. status[job[w].event] # "ABSENT"
  BY <1>3, <1>4 DEF RowOK, Attempts
<1> QED
  BY <1>1, <1>2, <1>3, <1>5 DEF PInv, EventsTargeted, DeliveryOf

\* What SendsBounded says of one delivery.
Bounded(d) == sends[d] + Cardinality({w \in Workers : Sending(w, d)}) <= tries[d]

\* Fewer senders and no more claims given back keep the bound.
LEMMA BoundKept ==
    ASSUME PInv, NEW d \in Deliveries, sends'[d] = sends[d], tries'[d] \in Nat, tries'[d] >= tries[d],
           \A w \in Workers : Sending(w, d)' => Sending(w, d)
    PROVE  Bounded(d)'
<1> DEFINE Now == {w \in Workers : Sending(w, d)}
           Then == {w \in Workers : Sending(w, d)'}
<1>1. IsFiniteSet(Now) /\ Then \subseteq Now
  BY WorkersFinite, FS_Subset
<1>2. Cardinality(Then) <= Cardinality(Now) /\ Cardinality(Now) \in Nat /\ Cardinality(Then) \in Nat
  BY <1>1, FS_Subset, FS_CardinalityType
<1>3. sends[d] + Cardinality(Now) <= tries[d] /\ sends[d] \in Nat /\ tries[d] \in Nat
  BY DEF PInv, SendsBounded, PushTypeOK
<1> HIDE DEF Now, Then
<1>4. sends'[d] + Cardinality(Then) <= tries'[d]
  BY <1>2, <1>3
<1> QED
  BY <1>4 DEF Then, Bounded

\* A worker that sends or completes after the step did so before, and what the
\* step marks as delivered was accepted: the accounts stay in order.
LEMMA AccountsKept ==
    ASSUME PInv, PushTypeOK', UNCHANGED <<provider, pushHistory>>,
           \A d \in Deliveries : tries'[d] >= tries[d],
           \A v \in Workers : phase'[v] \in {"send", "complete"} =>
              phase[v] = phase'[v] /\ DeliveryOf(v)' = DeliveryOf(v),
           \A d \in Deliveries : delivery'[d] = "DELIVERED" =>
             accepted[d] > 0 /\ (provider'[d] = "EXPO" => receipt'[d])
    PROVE  Accepted' /\ SendsBounded'
<1>1. Accepted'
  BY DEF PInv, Accepted, pushHistory
<1>2. ASSUME NEW d \in Deliveries
      PROVE  Bounded(d)'
  <2>1. \A w \in Workers : Sending(w, d)' => Sending(w, d)
    BY DEF Sending
  <2>2. sends'[d] = sends[d] /\ tries'[d] \in Nat /\ tries'[d] >= tries[d]
    BY DEF pushHistory, PushTypeOK
  <2> QED
    BY <2>1, <2>2, BoundKept
<1> QED
  BY <1>1, <1>2 DEF SendsBounded, Bounded

\* A dispatch event is inserted for a delivery; no worker is on that event yet.
LEMMA InsertKeeps ==
    ASSUME Inductive, PInv, NEW d \in Deliveries, NEW e \in Events, NEW s \in {"PENDING", "RETRY"},
           Enqueue(e), target' = [target EXCEPT ![e] = d], delivery' = [delivery EXCEPT ![d] = s],
           stale' \in [Deliveries -> BOOLEAN],
           UNCHANGED <<tries, endpoint, provider, receipt, pushLocal, pushHistory>>
    PROVE  PInv'
<1>1. UNCHANGED <<phase, fresh, job, step>> /\ status[e] = "ABSENT" /\ status' = [status EXCEPT ![e] = "PENDING"]
  BY DEF Enqueue, pushLocal, local
<1>2. PushTypeOK'
  BY <1>1 DEF PInv, PushTypeOK, pushHistory, DeliveryStatuses
<1>3. InTheHandler'
  BY <1>1 DEF PInv, InTheHandler
<1>4. EventsTargeted'
  BY <1>1 DEF PInv, EventsTargeted, PushTypeOK, Inductive, Shape
<1>5. ASSUME NEW v \in Workers, phase'[v] # "none"
      PROVE  phase[v] = phase'[v] /\ DeliveryOf(v)' = DeliveryOf(v)
  <2>1. job[v].event # e /\ job[v].event \in Events
    BY <1>1, <1>5, OnADelivery DEF Job
  <2> QED
    BY <1>1, <2>1 DEF DeliveryOf, PInv, PushTypeOK
<1>6. \A x \in Deliveries : delivery'[x] = "DELIVERED" =>
        accepted[x] > 0 /\ (provider'[x] = "EXPO" => receipt'[x])
  BY DEF PInv, PushTypeOK, Accepted
<1>7. \A x \in Deliveries : tries'[x] >= tries[x]
  BY DEF PInv, PushTypeOK
<1>8. Accepted' /\ SendsBounded'
  BY <1>2, <1>5, <1>6, <1>7, AccountsKept
<1> QED
  BY <1>2, <1>3, <1>4, <1>8 DEF PInv

\* The lease passes, or Expo reports an expired endpoint: no worker moves.
LEMMA RowAlonePInv ==
    ASSUME PInv, NEW d \in Deliveries, DeliveryAges(d) \/ ReceiptExpired(d)
    PROVE  PInv'
<1>1. /\ UNCHANGED <<vars, tries, provider, receipt, target, phase, pushHistory>>
      /\ \/ delivery' = delivery /\ endpoint' = endpoint /\ stale' = [stale EXCEPT ![d] = TRUE]
            /\ fresh' \in [Workers -> BOOLEAN]
         \/ /\ delivery' = [delivery EXCEPT ![d] = "FAILED"] /\ endpoint' = [endpoint EXCEPT ![d] = FALSE]
            /\ UNCHANGED <<stale, fresh>>
  BY DEF DeliveryAges, ReceiptExpired, pushLocal, PInv, PushTypeOK
<1>2. PushTypeOK'
  BY <1>1 DEF PInv, PushTypeOK, pushHistory, DeliveryStatuses
<1>3. InTheHandler' /\ EventsTargeted'
  BY <1>1 DEF PInv, InTheHandler, EventsTargeted, vars
<1>4. \A v \in Workers : DeliveryOf(v)' = DeliveryOf(v)
  BY <1>1 DEF DeliveryOf, vars
<1>5. \A x \in Deliveries : delivery'[x] = "DELIVERED" =>
        accepted[x] > 0 /\ (provider'[x] = "EXPO" => receipt'[x])
  BY <1>1 DEF PInv, PushTypeOK, Accepted
<1>6. \A x \in Deliveries : tries'[x] >= tries[x]
  BY <1>1 DEF PInv, PushTypeOK
<1>7. Accepted' /\ SendsBounded'
  BY <1>1, <1>2, <1>4, <1>5, <1>6, AccountsKept
<1> QED
  BY <1>2, <1>3, <1>7 DEF PInv

\* No statement makes an event absent, or present that was not.
LEMMA StatementsInsertNothing ==
    ASSUME Inductive, NEW w \in Workers,
           \/ Poll(w) \/ PollAnswerLost(w) \/ PublishJob(w) \/ PublishErrors(w)
           \/ FailJob(w) \/ FailErrors(w)
    PROVE  \A e \in Events : status'[e] # "ABSENT" => status[e] # "ABSENT"
<1>1. ASSUME NEW S \in SUBSET Candidates, LeaseRows(S)
      PROVE  \A e \in Events : status'[e] # "ABSENT" => status[e] # "ABSENT"
  BY <1>1 DEF LeaseRows, Candidates
<1>2. ASSUME NEW o, Record(job[w], o)
      PROVE  \A e \in Events : status'[e] # "ABSENT" => status[e] # "ABSENT"
  BY <1>2 DEF Record, Owns, rows, Inductive, Shape
<1> QED
  BY <1>1, <1>2 DEF Poll, PollAnswerLost, PublishJob, PublishErrors, FailJob, FailErrors, rows

\* A step of pollOnce outside the handler leaves the workers in it alone.
LEMMA OutsideTheHandler ==
    ASSUME Inductive, PInv, OutboxStep
    PROVE  /\ \A v \in Workers : step[v] = "handle" => step'[v] = "handle" /\ job'[v] = job[v]
           /\ \A v \in Workers : step[v] # "handle" => step'[v] # "handle"
           /\ \A e \in Events : status'[e] # "ABSENT" => status[e] # "ABSENT"
<1>1. ASSUME NEW e \in Events, BackoffElapses(e) \/ LeaseExpires(e)
      PROVE  UNCHANGED <<step, job, status>>
  BY <1>1 DEF BackoffElapses, LeaseExpires, local
<1>2. ASSUME NEW w \in Workers,
             \/ Poll(w) \/ PollAnswerLost(w) \/ PublishJob(w) \/ PublishErrors(w)
             \/ FailJob(w) \/ FailErrors(w)
      PROVE  /\ step[w] # "handle" /\ step' \in {step} \cup {[step EXCEPT ![w] = s] : s \in {"idle", "fail"}}
             /\ job' \in {job, [job EXCEPT ![w] = NoJob]}
  BY <1>2 DEF Poll, PollAnswerLost, PublishJob, PublishErrors, FailJob, FailErrors, JobEnds, local
<1>3. step \in [Workers -> Steps] /\ job \in [Workers -> Job \cup {NoJob}]
  BY DEF Inductive, LocalOK, LocalShape
<1>4. ASSUME NEW w \in Workers, step[w] # "handle", NEW s \in {"idle", "fail"},
             step' \in {step, [step EXCEPT ![w] = s]}, job' \in {job, [job EXCEPT ![w] = NoJob]}
      PROVE  /\ \A v \in Workers : step[v] = "handle" => step'[v] = "handle" /\ job'[v] = job[v]
             /\ \A v \in Workers : step[v] # "handle" => step'[v] # "handle"
  BY <1>3, <1>4
<1> QED
  BY <1>1, <1>2, <1>4, StatementsInsertNothing DEF OutboxStep

\* The worker enters the handler, dies in it, or the loop is elsewhere.
LEMMA AroundTheHandlerPInv ==
    ASSUME Inductive, PInv,
           OutboxStep \/ \E w \in Workers : StartDispatch(w) \/ CrashInDispatch(w)
    PROVE  PInv'
<1>0. step \in [Workers -> Steps] /\ job \in [Workers -> Job \cup {NoJob}]
      /\ phase \in [Workers -> Phases] /\ fresh \in [Workers -> BOOLEAN]
      /\ \A v \in Workers : phase[v] # "none" <=> step[v] = "handle"
  BY DEF Inductive, LocalOK, LocalShape, PInv, PushTypeOK, InTheHandler
<1>1. UNCHANGED <<pushRows, pushHistory>>
  BY DEF OutboxStep, StartDispatch, CrashInDispatch
<1>2. /\ phase' \in [Workers -> Phases] /\ fresh' \in [Workers -> BOOLEAN]
      /\ \A v \in Workers : phase'[v] # "none" <=> step'[v] = "handle"
      /\ \A v \in Workers : phase'[v] \notin {"none", "claim"} => phase'[v] = phase[v] /\ job'[v] = job[v]
      /\ \A e \in Events : status'[e] # "ABSENT" => status[e] # "ABSENT"
  <2>1. CASE OutboxStep
    <3>1. UNCHANGED <<phase, fresh>>
      BY <2>1 DEF OutboxStep, pushLocal
    <3> QED
      BY <1>0, <2>1, <3>1, OutsideTheHandler
  <2>2. ASSUME NEW w \in Workers, StartDispatch(w)
        PROVE  <1>2!:
    <3>1. /\ step' = [step EXCEPT ![w] = "handle"] /\ phase' = [phase EXCEPT ![w] = "claim"]
          /\ UNCHANGED <<fresh, status>> /\ \E j : job' = [job EXCEPT ![w] = j]
      BY <2>2 DEF StartDispatch, StartJob, GoTo, rows
    <3>2. \A v \in Workers : v # w => step'[v] = step[v] /\ phase'[v] = phase[v] /\ job'[v] = job[v]
      BY <1>0, <3>1
    <3> QED
      BY <1>0, <3>1, <3>2 DEF Phases
  <2>3. ASSUME NEW w \in Workers, CrashInDispatch(w)
        PROVE  <1>2!:
    <3>1. /\ step' = [step EXCEPT ![w] = "idle"] /\ phase' = [phase EXCEPT ![w] = "none"]
          /\ fresh' = [fresh EXCEPT ![w] = FALSE] /\ UNCHANGED status /\ job' = [job EXCEPT ![w] = NoJob]
      BY <2>3 DEF CrashInDispatch, Crash, GoTo, rows
    <3>2. \A v \in Workers : v # w => step'[v] = step[v] /\ phase'[v] = phase[v] /\ job'[v] = job[v]
      BY <1>0, <3>1
    <3> QED
      BY <1>0, <3>1, <3>2 DEF Phases
  <2> QED
    BY <2>1, <2>2, <2>3
<1>3. PushTypeOK'
  BY <1>1, <1>2 DEF PInv, PushTypeOK, pushRows, pushHistory
<1>4. InTheHandler' /\ EventsTargeted'
  BY <1>1, <1>2 DEF PInv, InTheHandler, EventsTargeted, pushRows
<1>5. \A v \in Workers : phase'[v] \in {"send", "complete"} =>
        phase[v] = phase'[v] /\ DeliveryOf(v)' = DeliveryOf(v)
  BY <1>1, <1>2 DEF DeliveryOf, pushRows
<1>6. \A x \in Deliveries : delivery'[x] = "DELIVERED" =>
        accepted[x] > 0 /\ (provider'[x] = "EXPO" => receipt'[x])
  BY <1>1 DEF PInv, Accepted, pushRows
<1>7. \A x \in Deliveries : tries'[x] >= tries[x]
  BY <1>1 DEF PInv, PushTypeOK, pushRows
<1>8. Accepted' /\ SendsBounded'
  BY <1>1, <1>3, <1>5, <1>6, <1>7, AccountsKept DEF pushRows
<1> QED
  BY <1>3, <1>4, <1>8 DEF PInv

\* Inside dispatchNotification the worker goes from phase to phase, or the
\* handler ends and the worker goes on to record its outcome.
LEMMA HandlerMoves ==
    ASSUME Inductive, PInv, NEW w \in Workers, DispatchStep(w)
    PROVE  /\ phase[w] # "none" /\ UNCHANGED <<status, job, target>>
           /\ fresh' \in [Workers -> BOOLEAN]
           /\ \E p \in Phases : phase' = [phase EXCEPT ![w] = p]
           /\ InTheHandler' /\ EventsTargeted'
<1>0. step \in [Workers -> Steps] /\ phase \in [Workers -> Phases] /\ fresh \in [Workers -> BOOLEAN]
      /\ \A v \in Workers : phase[v] # "none" <=> step[v] = "handle"
  BY DEF Inductive, LocalOK, LocalShape, PInv, PushTypeOK, InTheHandler
<1>1. phase[w] # "none" /\ UNCHANGED target
  BY DEF DispatchStep, ClaimDelivery, InspectDelivery, MarkExhausted, SendPush, CompleteDelivery,
         MarkForRetry, FailTerminally, StatementFails, pushRows
<1>2. \/ /\ UNCHANGED vars
         /\ \E p \in Phases \ {"none"} : phase' = [phase EXCEPT ![w] = p]
         /\ \E b \in BOOLEAN : fresh' = [fresh EXCEPT ![w] = b]
      \/ Returns(w) \/ Throws(w)
  <2>1. ASSUME ClaimDelivery(w) PROVE <1>2
    BY <1>0, <2>1 DEF ClaimDelivery, GoTo, Phases
  <2>2. ASSUME InspectDelivery(w) PROVE <1>2
    BY <1>0, <2>2 DEF InspectDelivery, GoTo, Phases
  <2>3. ASSUME SendPush(w) PROVE <1>2
    BY <1>0, <2>3 DEF SendPush, GoTo, Phases
  <2> QED
    BY <2>1, <2>2, <2>3 DEF DispatchStep, MarkExhausted, CompleteDelivery, MarkForRetry,
                            FailTerminally, StatementFails
<1>3. /\ UNCHANGED <<status, job>> /\ fresh' \in [Workers -> BOOLEAN]
      /\ \E p \in Phases : phase' = [phase EXCEPT ![w] = p]
      /\ InTheHandler'
  <2>1. CASE UNCHANGED vars /\ \E p \in Phases \ {"none"} : phase' = [phase EXCEPT ![w] = p]
    BY <1>0, <1>1, <1>2, <2>1 DEF vars, InTheHandler, Returns, Throws
  <2>2. CASE Returns(w) \/ Throws(w)
    <3>1. /\ UNCHANGED <<status, job>> /\ fresh' = [fresh EXCEPT ![w] = FALSE]
          /\ phase' = [phase EXCEPT ![w] = "none"]
          /\ \E s \in {"publish", "fail"} : step' = [step EXCEPT ![w] = s]
      BY <2>2 DEF Returns, Throws, HandlerReturns, HandlerThrows, GoTo, rows
    <3> QED
      BY <1>0, <3>1 DEF InTheHandler, Phases
  <2> QED
    BY <1>2, <2>1, <2>2
<1>4. EventsTargeted'
  BY <1>1, <1>3 DEF PInv, EventsTargeted
<1> QED
  BY <1>1, <1>3, <1>4

\* The phases in which the worker neither claims nor sends.
AfterTheSend(w) ==
    \/ InspectDelivery(w) \/ MarkExhausted(w) \/ CompleteDelivery(w)
    \/ MarkForRetry(w) \/ FailTerminally(w) \/ StatementFails(w)

\* What they write: a row that was open, DELIVERED only by a worker whose push
\* was accepted, and by Expo with the receipt check.
LEMMA AfterTheSendWrites ==
    ASSUME Inductive, PInv, NEW w \in Workers, AfterTheSend(w)
    PROVE  /\ UNCHANGED <<tries, provider, pushHistory>>
           /\ delivery' \in [Deliveries -> DeliveryStatuses] /\ stale' \in [Deliveries -> BOOLEAN]
           /\ endpoint' \in [Deliveries -> BOOLEAN] /\ receipt' \in [Deliveries -> BOOLEAN]
           /\ phase'[w] \notin {"send", "complete"}
           /\ \A x \in Deliveries : receipt[x] => receipt'[x]
           /\ \A x \in Deliveries : delivery'[x] # delivery[x] =>
                /\ delivery[x] \in {"PENDING", "PROCESSING", "RETRY"}
                /\ delivery'[x] = "DELIVERED" =>
                     accepted[x] > 0 /\ (provider'[x] = "EXPO" => receipt'[x])
<1> DEFINE d == DeliveryOf(w)
<1>0. /\ delivery \in [Deliveries -> DeliveryStatuses] /\ stale \in [Deliveries -> BOOLEAN]
      /\ endpoint \in [Deliveries -> BOOLEAN] /\ receipt \in [Deliveries -> BOOLEAN]
      /\ phase \in [Workers -> Phases]
      /\ phase[w] = "complete" => accepted[d] > 0
  BY DEF PInv, PushTypeOK, Accepted
<1>1. phase[w] # "none" => d \in Deliveries
  BY OnADelivery
<1>2. UNCHANGED <<tries, provider, pushHistory>>
  BY DEF AfterTheSend, InspectDelivery, MarkExhausted, CompleteDelivery, MarkForRetry,
         FailTerminally, StatementFails, pushRows
<1>3. \E p \in {"none", "exhaust"} : phase' = [phase EXCEPT ![w] = p]
  BY DEF AfterTheSend, InspectDelivery, MarkExhausted, CompleteDelivery, MarkForRetry,
         FailTerminally, StatementFails, Returns, Throws, GoTo
<1>4. \/ UNCHANGED <<delivery, stale, endpoint, receipt>>
      \/ /\ phase[w] # "none" /\ delivery[d] \in {"PENDING", "PROCESSING", "RETRY"}
         /\ stale' = [stale EXCEPT ![d] = FALSE]
         /\ endpoint' \in {endpoint, [endpoint EXCEPT ![d] = FALSE]}
         /\ \/ /\ phase[w] = "complete" /\ delivery' = [delivery EXCEPT ![d] = "DELIVERED"]
               /\ receipt' = [receipt EXCEPT ![d] = @ \/ provider[d] = "EXPO"]
            \/ /\ \E s \in {"FAILED", "RETRY"} : delivery' = [delivery EXCEPT ![d] = s]
               /\ UNCHANGED receipt
  <2>1. ASSUME MarkExhausted(w) PROVE <1>4
    BY <2>1 DEF MarkExhausted
  <2>2. ASSUME CompleteDelivery(w) PROVE <1>4
    BY <2>2 DEF CompleteDelivery
  <2>3. ASSUME MarkForRetry(w) PROVE <1>4
    BY <2>3 DEF MarkForRetry
  <2>4. ASSUME FailTerminally(w) PROVE <1>4
    BY <2>4 DEF FailTerminally
  <2>5. InspectDelivery(w) \/ StatementFails(w) => UNCHANGED <<delivery, stale, endpoint, receipt>>
    BY DEF InspectDelivery, StatementFails, pushRows
  <2> QED
    BY <2>1, <2>2, <2>3, <2>4, <2>5 DEF AfterTheSend
<1> HIDE DEF d
<1>5. phase'[w] \notin {"send", "complete"}
  BY <1>0, <1>3
<1>6. /\ delivery' \in [Deliveries -> DeliveryStatuses] /\ stale' \in [Deliveries -> BOOLEAN]
      /\ endpoint' \in [Deliveries -> BOOLEAN] /\ receipt' \in [Deliveries -> BOOLEAN]
  BY <1>0, <1>4 DEF DeliveryStatuses
<1>7. \A x \in Deliveries :
        /\ receipt[x] => receipt'[x]
        /\ delivery'[x] # delivery[x] =>
             /\ delivery[x] \in {"PENDING", "PROCESSING", "RETRY"}
             /\ delivery'[x] = "DELIVERED" =>
                  accepted[x] > 0 /\ (provider'[x] = "EXPO" => receipt'[x])
  BY <1>0, <1>1, <1>2, <1>4
<1> QED
  BY <1>2, <1>5, <1>6, <1>7

LEMMA AfterTheSendPInv ==
    ASSUME Inductive, PInv, NEW w \in Workers, AfterTheSend(w)
    PROVE  PInv'
<1>1. DispatchStep(w)
  BY DEF AfterTheSend, DispatchStep
<1>2. /\ UNCHANGED <<status, job, target>> /\ fresh' \in [Workers -> BOOLEAN]
      /\ \E p \in Phases : phase' = [phase EXCEPT ![w] = p]
      /\ InTheHandler' /\ EventsTargeted'
  BY <1>1, HandlerMoves
<1>3. PushTypeOK'
  BY <1>2, AfterTheSendWrites DEF PInv, PushTypeOK, pushHistory
<1>4. \A v \in Workers : phase'[v] \in {"send", "complete"} =>
        phase[v] = phase'[v] /\ DeliveryOf(v)' = DeliveryOf(v)
  BY <1>2, AfterTheSendWrites DEF DeliveryOf, PInv, PushTypeOK
<1>5. \A x \in Deliveries : delivery'[x] = "DELIVERED" =>
        accepted[x] > 0 /\ (provider'[x] = "EXPO" => receipt'[x])
  BY AfterTheSendWrites DEF PInv, Accepted
<1>6. UNCHANGED <<provider, pushHistory>> /\ \A x \in Deliveries : tries'[x] >= tries[x]
  BY AfterTheSendWrites DEF PInv, PushTypeOK
<1>7. Accepted' /\ SendsBounded'
  BY <1>3, <1>4, <1>5, <1>6, AccountsKept
<1> QED
  BY <1>2, <1>3, <1>7 DEF PInv

\* The claim spends an attempt of the delivery for the send that follows.
LEMMA ClaimPInv ==
    ASSUME Inductive, PInv, NEW w \in Workers, ClaimDelivery(w)
    PROVE  PInv'
<1>0. PICK d \in Deliveries : d = DeliveryOf(w)
  BY OnADelivery DEF ClaimDelivery
<1>1. /\ UNCHANGED <<status, job, target>> /\ fresh' \in [Workers -> BOOLEAN]
      /\ InTheHandler' /\ EventsTargeted'
  BY HandlerMoves DEF DispatchStep
<1>2. phase[w] = "claim" /\ UNCHANGED <<endpoint, provider, receipt, target, sends, accepted>>
  BY DEF ClaimDelivery, pushHistory
<1>3. \A v \in Workers : DeliveryOf(v)' = DeliveryOf(v)
  BY <1>1 DEF DeliveryOf
<1>4. /\ delivery \in [Deliveries -> DeliveryStatuses] /\ tries \in [Deliveries -> 0..MaxAttempts]
      /\ stale \in [Deliveries -> BOOLEAN] /\ phase \in [Workers -> Phases]
      /\ sends \in [Deliveries -> Nat] /\ MaxAttempts \in Nat
      /\ \A x \in Deliveries : delivery[x] = "DELIVERED" =>
           accepted[x] > 0 /\ (provider[x] = "EXPO" => receipt[x])
  BY MaxAttemptsPositive DEF PInv, PushTypeOK, Accepted
<1>5. CASE Claimable(d, job[w].attempt)
  <2>1. /\ delivery' = [delivery EXCEPT ![d] = "PROCESSING"] /\ tries' = [tries EXCEPT ![d] = @ + 1]
        /\ stale' = [stale EXCEPT ![d] = FALSE] /\ phase' = [phase EXCEPT ![w] = "send"]
        /\ tries[d] < MaxAttempts
    BY <1>0, <1>5 DEF ClaimDelivery, GoTo, Claimable
  <2>2. delivery' \in [Deliveries -> DeliveryStatuses] /\ stale' \in [Deliveries -> BOOLEAN]
        /\ phase' \in [Workers -> Phases]
    BY <1>4, <2>1 DEF DeliveryStatuses, Phases
  <2>3. tries' \in [Deliveries -> 0..MaxAttempts]
    BY <1>2, <1>4, <2>1
  <2>4. PushTypeOK'
    BY <1>1, <1>2, <2>2, <2>3 DEF PInv, PushTypeOK
  <2>5. Accepted'
    BY <1>0, <1>2, <1>3, <1>4, <2>1 DEF PInv, Accepted
  <2>6. ASSUME NEW x \in Deliveries, x # d
        PROVE  Bounded(x)'
    <3>1. sends'[x] = sends[x] /\ tries'[x] = tries[x] /\ tries[x] \in Nat
      BY <1>2, <1>4, <2>1, <2>6
    <3>2. \A v \in Workers : Sending(v, x)' => Sending(v, x)
      BY <1>0, <1>2, <1>3, <1>4, <2>1, <2>6 DEF Sending
    <3> QED
      BY <3>1, <3>2, BoundKept
  <2>7. Bounded(d)'
    <3> DEFINE Now == {v \in Workers : Sending(v, d)}
               Then == {v \in Workers : Sending(v, d)'}
    <3>1. \A v \in Workers : Sending(v, d)' <=> Sending(v, d) \/ v = w
      BY <1>0, <1>2, <1>3, <1>4, <2>1 DEF Sending
    <3>2. Then = Now \cup {w}
      BY <3>1
    <3>3. w \notin Now /\ IsFiniteSet(Now)
      BY <1>0, <1>2, WorkersFinite, FS_Subset DEF Sending
    <3>4. Cardinality(Then) = Cardinality(Now) + 1 /\ Cardinality(Now) \in Nat
      BY <3>2, <3>3, FS_AddElement, FS_CardinalityType
    <3>5. sends[d] + Cardinality(Now) <= tries[d]
      BY <1>2 DEF PInv, SendsBounded
    <3> HIDE DEF Now, Then
    <3>6. sends'[d] + Cardinality(Then) <= tries'[d]
      BY <1>2, <1>4, <2>1, <3>4, <3>5
    <3> QED
      BY <3>6 DEF Then, Bounded
  <2>8. SendsBounded'
    <3>1. \A x \in Deliveries : Bounded(x)'
      BY <2>6, <2>7
    <3> QED
      BY <3>1 DEF SendsBounded, Bounded
  <2> QED
    BY <1>1, <2>4, <2>5, <2>8 DEF PInv
<1>6. CASE ~Claimable(d, job[w].attempt)
  <2>1. UNCHANGED <<delivery, tries, stale, pushHistory>> /\ phase' = [phase EXCEPT ![w] = "inspect"]
    BY <1>0, <1>6 DEF ClaimDelivery, GoTo
  <2>2. PushTypeOK'
    BY <1>1, <1>2, <2>1 DEF PInv, PushTypeOK, Phases
  <2>3. \A v \in Workers : phase'[v] \in {"send", "complete"} =>
          phase[v] = phase'[v] /\ DeliveryOf(v)' = DeliveryOf(v)
    BY <1>3, <1>4, <2>1
  <2>5. Accepted' /\ SendsBounded'
    BY <1>2, <1>4, <2>1, <2>2, <2>3, AccountsKept
  <2> QED
    BY <1>1, <2>2, <2>5 DEF PInv
<1> QED
  BY <1>5, <1>6

\* The call spends the claim: one sender less, at most one send more.
LEMMA SendPInv ==
    ASSUME Inductive, PInv, NEW w \in Workers, SendPush(w)
    PROVE  PInv'
<1>0. PICK d \in Deliveries : d = DeliveryOf(w)
  BY OnADelivery DEF SendPush
<1>1. /\ UNCHANGED <<status, job, target>> /\ fresh' \in [Workers -> BOOLEAN]
      /\ InTheHandler' /\ EventsTargeted'
  BY HandlerMoves DEF DispatchStep
<1>2. phase[w] = "send" /\ UNCHANGED <<delivery, tries, stale, endpoint, provider, receipt, target>>
  BY DEF SendPush, pushRows
<1>3. \A v \in Workers : DeliveryOf(v)' = DeliveryOf(v)
  BY <1>1 DEF DeliveryOf
<1>4. /\ tries \in [Deliveries -> 0..MaxAttempts] /\ phase \in [Workers -> Phases]
      /\ sends \in [Deliveries -> Nat] /\ accepted \in [Deliveries -> Nat] /\ MaxAttempts \in Nat
  BY MaxAttemptsPositive DEF PInv, PushTypeOK
<1>5. /\ sends' \in {sends, [sends EXCEPT ![d] = @ + 1]}
      /\ \E n \in {0, 1} : accepted' = [accepted EXCEPT ![d] = @ + n]
      /\ \/ phase' = [phase EXCEPT ![w] = "complete"] /\ accepted' = [accepted EXCEPT ![d] = @ + 1]
         \/ \E p \in {"retry", "terminal"} : phase' = [phase EXCEPT ![w] = p]
  <2>1. accepted = [accepted EXCEPT ![d] = @ + 0]
    BY <1>2, <1>4
  <2> QED
    BY <1>0, <2>1 DEF SendPush, GoTo, pushHistory
<1>6. /\ sends' \in [Deliveries -> Nat] /\ accepted' \in [Deliveries -> Nat]
      /\ \A x \in Deliveries : accepted'[x] >= accepted[x]
      /\ \A x \in Deliveries : x # d => sends'[x] = sends[x]
      /\ sends'[d] \in {sends[d], sends[d] + 1}
  BY <1>2, <1>4, <1>5
<1>7. PushTypeOK'
  BY <1>1, <1>2, <1>4, <1>5, <1>6 DEF PInv, PushTypeOK, Phases
<1>8. Accepted'
  <2>1. ASSUME NEW v \in Workers, phase'[v] = "complete" PROVE accepted'[DeliveryOf(v)'] > 0
    <3>1. CASE v = w
      BY <1>0, <1>2, <1>3, <1>4, <1>5, <2>1, <3>1
    <3>2. CASE v # w
      <4>1. phase[v] = "complete"
        BY <1>4, <1>5, <2>1, <3>2
      <4>2. accepted[DeliveryOf(v)] > 0 /\ DeliveryOf(v) \in Deliveries
        BY <4>1, OnADelivery DEF PInv, Accepted
      <4> QED
        BY <1>3, <1>4, <1>6, <4>2
    <3> QED
      BY <3>1, <3>2
  <2>2. \A x \in Deliveries : delivery'[x] = "DELIVERED" =>
          accepted'[x] > 0 /\ (provider'[x] = "EXPO" => receipt'[x])
    BY <1>2, <1>4, <1>6 DEF PInv, Accepted
  <2> QED
    BY <2>1, <2>2 DEF Accepted
<1>9. ASSUME NEW x \in Deliveries, x # d
      PROVE  Bounded(x)'
  <2>1. sends'[x] = sends[x] /\ tries'[x] = tries[x] /\ tries[x] \in Nat
    BY <1>2, <1>4, <1>6, <1>9
  <2>2. \A v \in Workers : Sending(v, x)' => Sending(v, x)
    BY <1>0, <1>3, <1>4, <1>5 DEF Sending
  <2> QED
    BY <2>1, <2>2, BoundKept
<1>10. Bounded(d)'
  <2> DEFINE Now == {v \in Workers : Sending(v, d)}
             Then == {v \in Workers : Sending(v, d)'}
  <2>1. \A v \in Workers : Sending(v, d)' <=> Sending(v, d) /\ v # w
    BY <1>0, <1>2, <1>3, <1>4, <1>5 DEF Sending
  <2>2. Then = Now \ {w}
    BY <2>1
  <2>3. w \in Now /\ IsFiniteSet(Now)
    BY <1>0, <1>2, WorkersFinite, FS_Subset DEF Sending
  <2>4. Cardinality(Then) = Cardinality(Now) - 1 /\ Cardinality(Now) \in Nat
    BY <2>2, <2>3, FS_RemoveElement, FS_CardinalityType
  <2>5. sends[d] + Cardinality(Now) <= tries[d]
    BY <1>2 DEF PInv, SendsBounded
  <2> HIDE DEF Now, Then
  <2>6. sends'[d] + Cardinality(Then) <= tries'[d]
    BY <1>2, <1>4, <1>6, <2>4, <2>5
  <2> QED
    BY <2>6 DEF Then, Bounded
<1>11. SendsBounded'
  <2>1. \A x \in Deliveries : Bounded(x)'
    BY <1>9, <1>10
  <2> QED
    BY <2>1 DEF SendsBounded, Bounded
<1> QED
  BY <1>1, <1>7, <1>8, <1>11 DEF PInv

LEMMA NextPInv == Inductive /\ PInv /\ [PushNext]_pushVars => PInv'
<1> SUFFICES ASSUME Inductive, PInv, [PushNext]_pushVars PROVE PInv'
  OBVIOUS
<1>1. ASSUME NEW d \in Deliveries, NEW e \in Events, NewDelivery(d, e) PROVE PInv'
  <2>1. UNCHANGED stale /\ stale \in [Deliveries -> BOOLEAN]
    BY <1>1 DEF NewDelivery, PInv, PushTypeOK
  <2> QED
    BY <1>1, <2>1, InsertKeeps DEF NewDelivery
<1>2. ASSUME NEW d \in Deliveries, NEW e \in Events, RetryDelivery(d, e) PROVE PInv'
  <2>1. stale' \in [Deliveries -> BOOLEAN]
    BY <1>2 DEF RetryDelivery, PInv, PushTypeOK
  <2> QED
    BY <1>2, <2>1, InsertKeeps DEF RetryDelivery
<1>3. ASSUME NEW w \in Workers, DispatchStep(w) PROVE PInv'
  BY <1>3, ClaimPInv, SendPInv, AfterTheSendPInv DEF DispatchStep, AfterTheSend
<1>4. CASE UNCHANGED pushVars
  <2>1. \A w \in Workers : DeliveryOf(w)' = DeliveryOf(w)
    BY <1>4 DEF pushVars, pushRows, vars, DeliveryOf
  <2>2. \A w \in Workers, d \in Deliveries : Sending(w, d)' <=> Sending(w, d)
    BY <1>4, <2>1 DEF pushVars, pushLocal, Sending
  <2>3. \A d \in Deliveries : {w \in Workers : Sending(w, d)'} = {w \in Workers : Sending(w, d)}
    BY <2>2
  <2>4. SendsBounded'
    BY <1>4, <2>3 DEF pushVars, pushRows, pushHistory, PInv, SendsBounded
  <2>5. PushTypeOK' /\ InTheHandler' /\ EventsTargeted' /\ Accepted'
    BY <1>4, <2>1 DEF pushVars, pushRows, pushLocal, pushHistory, vars, PInv, PushTypeOK,
                      InTheHandler, EventsTargeted, Accepted
  <2> QED
    BY <2>4, <2>5 DEF PInv
<1> QED
  BY <1>1, <1>2, <1>3, <1>4, RowAlonePInv, AroundTheHandlerPInv DEF PushNext

LEMMA PushSpecPInv == PushSpec => []PInv
BY InitPInv, NextPInv, PushSpecInductive, PTL DEF PushSpec

\* Only Expo's deliveries have their receipts checked.
ChecksAreExpos == \A d \in Deliveries : receipt[d] => provider[d] = "EXPO"

\* The one statement that queues a check asks for the provider, which no step changes.
LEMMA NextChecks == Inductive /\ PInv /\ ChecksAreExpos /\ [PushNext]_pushVars => ChecksAreExpos'
<1> SUFFICES ASSUME Inductive, PInv, ChecksAreExpos, [PushNext]_pushVars PROVE ChecksAreExpos'
  OBVIOUS
<1>1. UNCHANGED <<provider, receipt>> => ChecksAreExpos'
  BY DEF ChecksAreExpos
<1>2. ASSUME NEW w \in Workers, CompleteDelivery(w) PROVE ChecksAreExpos'
  <2>1. PICK d \in Deliveries : d = DeliveryOf(w)
    BY <1>2, OnADelivery DEF CompleteDelivery
  <2>2. /\ UNCHANGED provider
        /\ receipt' = receipt \/ receipt' = [receipt EXCEPT ![d] = @ \/ provider[d] = "EXPO"]
    BY <1>2, <2>1 DEF CompleteDelivery
  <2>3. receipt \in [Deliveries -> BOOLEAN]
    BY DEF PInv, PushTypeOK
  <2> QED
    BY <2>2, <2>3 DEF ChecksAreExpos
<1>3. ASSUME NEW w \in Workers, DispatchStep(w), ~CompleteDelivery(w)
      PROVE  UNCHANGED <<provider, receipt>>
  BY <1>3 DEF DispatchStep, ClaimDelivery, InspectDelivery, MarkExhausted, SendPush, MarkForRetry,
              FailTerminally, StatementFails, pushRows
<1>4. ASSUME NEW w \in Workers, StartDispatch(w) \/ CrashInDispatch(w)
      PROVE  UNCHANGED <<provider, receipt>>
  BY <1>4 DEF StartDispatch, CrashInDispatch, pushRows
<1>5. ASSUME NEW d \in Deliveries, NEW e \in Events, NewDelivery(d, e) \/ RetryDelivery(d, e)
      PROVE  UNCHANGED <<provider, receipt>>
  BY <1>5 DEF NewDelivery, RetryDelivery
<1>6. ASSUME NEW d \in Deliveries, DeliveryAges(d) \/ ReceiptExpired(d)
      PROVE  UNCHANGED <<provider, receipt>>
  BY <1>6 DEF DeliveryAges, ReceiptExpired
<1>7. OutboxStep \/ UNCHANGED pushVars => UNCHANGED <<provider, receipt>>
  BY DEF OutboxStep, pushVars, pushRows
<1> QED
  BY <1>1, <1>2, <1>3, <1>4, <1>5, <1>6, <1>7 DEF PushNext

LEMMA PushSpecChecks == PushSpec => []ChecksAreExpos
<1>1. PushInit => ChecksAreExpos
  BY DEF PushInit, ChecksAreExpos
<1> QED
  BY <1>1, NextChecks, PushSpecInductive, PushSpecPInv, PTL DEF PushSpec

-----------------------------------------------------------------------------
(* The theorems *)

\* Every variable of the push delivery keeps its type: no delivery is claimed
\* more than WORKER_MAX_ATTEMPTS times, over all its events.
THEOREM PushTypeCorrect == PushSpec => []PushTypeOK
BY PushSpecPInv, PTL DEF PInv

\* The provider is called at most once for each claim of a delivery, so at most
\* WORKER_MAX_ATTEMPTS times over its whole life, whatever workers take over
\* from each other and however often an administrator retries.
THEOREM PushSendsBounded == PushSpec => []SendsBounded
BY PushSpecPInv, PTL DEF PInv

\* The action that TerminalOutcomesStand boxes, for one delivery.
Stands(d) ==
    /\ delivery[d] = "DELIVERED" /\ delivery'[d] # "DELIVERED" =>
         provider[d] = "EXPO" /\ receipt[d] /\ delivery'[d] = "FAILED" /\ ~endpoint'[d]
    /\ delivery[d] = "FAILED" /\ delivery'[d] # "FAILED" =>
         \E e \in Events : status[e] = "ABSENT" /\ status'[e] = "PENDING" /\ target'[e] = d
    /\ ~endpoint[d] => tries'[d] = tries[d]
    /\ delivery'[d] = "DELIVERED" =>
         accepted[d] > 0 /\ (receipt'[d] <=> provider[d] = "EXPO")

LEMMA UntouchedStands ==
    ASSUME PInv, ChecksAreExpos, ChecksAreExpos', UNCHANGED provider, NEW d \in Deliveries,
           delivery'[d] = delivery[d], tries'[d] = tries[d], receipt[d] => receipt'[d]
    PROVE  Stands(d)
BY DEF PInv, Accepted, ChecksAreExpos, Stands

LEMMA StepStands ==
    ASSUME Inductive, PInv, ChecksAreExpos, [PushNext]_pushVars, NEW d \in Deliveries
    PROVE  Stands(d)
<1>0. /\ delivery \in [Deliveries -> DeliveryStatuses] /\ tries \in [Deliveries -> 0..MaxAttempts]
      /\ endpoint \in [Deliveries -> BOOLEAN] /\ target \in [Events -> Deliveries \cup {NoDelivery}]
      /\ ChecksAreExpos'
  BY NextChecks DEF PInv, PushTypeOK
<1>1. ASSUME NEW c \in Deliveries, NEW e \in Events, NewDelivery(c, e) \/ RetryDelivery(c, e)
      PROVE  Stands(d)
  <2>1. UNCHANGED <<tries, provider, receipt>> /\ target' = [target EXCEPT ![e] = c]
    BY <1>1 DEF NewDelivery, RetryDelivery
  <2>2. delivery[c] # "DELIVERED" /\ \E s \in {"PENDING", "RETRY"} : delivery' = [delivery EXCEPT ![c] = s]
    BY <1>1 DEF NewDelivery, RetryDelivery
  <2>3. status[e] = "ABSENT" /\ status'[e] = "PENDING"
    BY <1>1 DEF NewDelivery, RetryDelivery, Enqueue, Inductive, Shape
  <2>4. CASE d = c
    BY <1>0, <2>1, <2>2, <2>3, <2>4 DEF Stands
  <2>5. CASE d # c
    BY <1>0, <2>1, <2>2, <2>5, UntouchedStands
  <2> QED
    BY <2>4, <2>5
<1>2. ASSUME NEW c \in Deliveries, DeliveryAges(c) PROVE Stands(d)
  BY <1>0, <1>2, UntouchedStands DEF DeliveryAges
<1>3. ASSUME NEW c \in Deliveries, ReceiptExpired(c) PROVE Stands(d)
  <2>1. delivery' = [delivery EXCEPT ![c] = "FAILED"] /\ endpoint' = [endpoint EXCEPT ![c] = FALSE]
        /\ UNCHANGED <<tries, provider, receipt>> /\ receipt[c] /\ provider[c] = "EXPO"
    BY <1>3 DEF ReceiptExpired
  <2> QED
    BY <1>0, <2>1, UntouchedStands DEF Stands
<1>4. ASSUME NEW w \in Workers, ClaimDelivery(w) PROVE Stands(d)
  <2>1. UNCHANGED <<provider, receipt>> /\ DeliveryOf(w) \in Deliveries
    BY <1>4, OnADelivery DEF ClaimDelivery
  <2>2. CASE Claimable(DeliveryOf(w), job[w].attempt)
    <3> DEFINE c == DeliveryOf(w)
    <3>1. /\ delivery' = [delivery EXCEPT ![c] = "PROCESSING"] /\ tries' = [tries EXCEPT ![c] = @ + 1]
          /\ endpoint[c] /\ delivery[c] \notin {"DELIVERED", "FAILED"}
      BY <1>4, <2>2 DEF ClaimDelivery, Claimable
    <3> HIDE DEF c
    <3> QED
      BY <1>0, <2>1, <3>1, UntouchedStands DEF Stands
  <2>3. CASE ~Claimable(DeliveryOf(w), job[w].attempt)
    BY <1>0, <1>4, <2>3, UntouchedStands DEF ClaimDelivery
  <2> QED
    BY <2>2, <2>3
<1>5. ASSUME NEW w \in Workers, SendPush(w) PROVE Stands(d)
  BY <1>0, <1>5, UntouchedStands DEF SendPush, pushRows
<1>6. ASSUME NEW w \in Workers, AfterTheSend(w) PROVE Stands(d)
  <2>1. CASE delivery'[d] = delivery[d]
    <3>1. UNCHANGED <<tries, provider>> /\ (receipt[d] => receipt'[d])
      BY <1>6, AfterTheSendWrites
    <3> QED
      BY <1>0, <2>1, <3>1, UntouchedStands
  <2>2. CASE delivery'[d] # delivery[d]
    BY <1>0, <1>6, <2>2, AfterTheSendWrites DEF Stands, ChecksAreExpos
  <2> QED
    BY <2>1, <2>2
<1>7. ASSUME NEW w \in Workers, StartDispatch(w) \/ CrashInDispatch(w) PROVE Stands(d)
  BY <1>0, <1>7, UntouchedStands DEF StartDispatch, CrashInDispatch, pushRows
<1>8. CASE OutboxStep \/ UNCHANGED pushVars
  BY <1>0, <1>8, UntouchedStands DEF OutboxStep, pushVars, pushRows
<1> QED
  BY <1>1, <1>2, <1>3, <1>4, <1>5, <1>6, <1>7, <1>8 DEF PushNext, DispatchStep, AfterTheSend

\* A late worker never undoes a terminal delivery: DELIVERED gives way only to
\* the answer of a receipt check that found the endpoint expired, which FCM's has
\* not, FAILED only to an administrator's retry, a revoked endpoint is claimed no
\* more; DELIVERED rests on an accepted push, and a check is queued exactly for
\* Expo's.
THEOREM PushTerminalOutcomesStand == PushSpec => TerminalOutcomesStand
<1>1. Inductive /\ PInv /\ ChecksAreExpos /\ [PushNext]_pushVars =>
        [\A d \in Deliveries : Stands(d)]_pushVars
  BY StepStands
<1>2. (\A d \in Deliveries : Stands(d)) =>
        \A d \in Deliveries :
          /\ delivery[d] = "DELIVERED" /\ delivery'[d] # "DELIVERED" =>
               provider[d] = "EXPO" /\ receipt[d] /\ delivery'[d] = "FAILED" /\ ~endpoint'[d]
          /\ delivery[d] = "FAILED" /\ delivery'[d] # "FAILED" =>
               \E e \in Events : status[e] = "ABSENT" /\ status'[e] = "PENDING" /\ target'[e] = d
          /\ ~endpoint[d] => tries'[d] = tries[d]
          /\ delivery'[d] = "DELIVERED" =>
               accepted[d] > 0 /\ (receipt'[d] <=> provider[d] = "EXPO")
  BY DEF Stands
<1> QED
  BY <1>1, <1>2, PushSpecInductive, PushSpecPInv, PushSpecChecks, PTL
     DEF PushSpec, TerminalOutcomesStand
=============================================================================
