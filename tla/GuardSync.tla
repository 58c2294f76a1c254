------------------------------ MODULE GuardSync ------------------------------
(***************************************************************************)
(* The offline queue of the guard app (apps/guard-app/src/offline): actions *)
(* recorded without a connection, the synchronization loop that sends them *)
(* in batches, the guard's own retries, directory snapshots with the       *)
(* device's lease, restarts of the app -- and the server that decides on   *)
(* each action with evaluateOfflineMutation of packages/domain.            *)
(*                                                                         *)
(* One await of the app is one step: what is read before it may be stale   *)
(* after it.  The endpoint that receives a batch is not in the repository; *)
(* the server steps say what the app and the domain package rely on.       *)
(***************************************************************************)
EXTENDS Naturals, FiniteSets

CONSTANTS Mutations,     \* client_mutation_ids the guard may record
          Gates,         \* gates the device is assigned to
          ClaimLimit,    \* LIMIT of claimReadyMutations (20 in syncNow)
          Contested,     \* mutations whose server record others may change
          Datable,       \* mutations that may come to predate the lease
          Tapped         \* mutations the guard may retry by hand

ASSUME MutationsFinite == IsFiniteSet(Mutations)
ASSUME ClaimLimitPositive == ClaimLimit \in Nat \ {0}

Numbers == 0..Cardinality(Mutations)
Statuses == {"ABSENT", "LOCAL_PENDING", "SYNCING", "SYNCED", "CONFLICT", "FAILED"}
NoSnapshot == [gate |-> "none", last |-> 0]
NoAnswer == [m \in Mutations |-> "NONE"]

VARIABLES status,        \* offline_mutations.status ("ABSENT": no row)
          home,          \* offline_mutations.gate_id
          seq,           \* offline_mutations.local_sequence
          retryAt,       \* next_attempt_at: "none", "later", "due"
          lease,         \* offline_leases per gate: "none", "valid", "expired"
          leaseLast,     \* offline_leases.last_accepted_sequence
          nextSeq,       \* offline_sequences.next_sequence
          activeGate,    \* the gate of the session
          active,        \* the session says the device is ACTIVE
          pc,            \* where syncNow is
          syncGate,      \* the gate it runs for
          work,          \* the mutations selected, then claimed
          todo,          \* claimed mutations whose result is not applied yet
          answer,        \* the results it is to apply
          retrying,      \* retryMutation calls between their read and their write
          refreshDue,    \* the effect of SyncProvider is about to refresh
          snapshot,      \* a directory snapshot on its way
          net,           \* batches the server has not seen yet
          trusted,       \* server: the device is ACTIVE
          lastAccepted,  \* server: guard_devices.last_accepted_sequence
          applied,       \* server: mutations that took effect
          outdated,      \* server: mutations whose base version is behind
          aged           \* server: mutations older than the device's lease

queue == <<status, home, seq, retryAt>>
leases == <<lease, leaseLast, nextSeq>>
session == <<activeGate, active>>
sync == <<pc, syncGate, work, todo, answer>>
directory == <<refreshDue, snapshot>>
server == <<trusted, lastAccepted, applied, outdated, aged>>
vars == <<queue, leases, session, sync, retrying, directory, net, server>>

Init ==
    /\ status = [m \in Mutations |-> "ABSENT"]
    /\ activeGate \in Gates
    /\ home = [m \in Mutations |-> activeGate]
    /\ seq = [m \in Mutations |-> 0]
    /\ retryAt = [m \in Mutations |-> "none"]
    /\ lease = [g \in Gates |-> "none"]
    /\ leaseLast = [g \in Gates |-> 0]
    /\ nextSeq = [g \in Gates |-> 1]
    /\ active = TRUE
    /\ pc = "idle"
    /\ syncGate = activeGate
    /\ work = {} /\ todo = {} /\ answer = NoAnswer
    /\ retrying = {}
    /\ refreshDue = TRUE
    /\ snapshot = NoSnapshot
    /\ net = {}
    /\ trusted = TRUE
    /\ lastAccepted = 0
    /\ applied = {} /\ outdated = {} /\ aged = {}

Recorded == {m \in Mutations : status[m] # "ABSENT"}
Larger(i, j) == IF i > j THEN i ELSE j
First(S) == CHOOSE m \in S : \A n \in S : seq[m] <= seq[n]

-----------------------------------------------------------------------------
(* The guard and the clock *)

\* enqueueMutation: one exclusive transaction; needs a running lease.
Enqueue(m) ==
    LET g == activeGate
        number == Larger(nextSeq[g], leaseLast[g] + 1) IN
    /\ active /\ lease[g] = "valid"
    /\ seq[m] = 0
    /\ status' = [status EXCEPT ![m] = "LOCAL_PENDING"]
    /\ home' = [home EXCEPT ![m] = g]
    /\ seq' = [seq EXCEPT ![m] = number]
    /\ nextSeq' = [nextSeq EXCEPT ![g] = number + 1]
    /\ UNCHANGED <<retryAt, lease, leaseLast, session, sync, retrying, directory, net, server>>

\* The guard moves to another gate of the device; the effect runs again.
SelectGate(g) ==
    /\ activeGate # g
    /\ activeGate' = g
    /\ refreshDue' = TRUE
    /\ UNCHANGED <<queue, leases, active, sync, retrying, snapshot, net, server>>

\* Connectivity goes and comes back; the effect runs again.
Reconnect ==
    /\ ~refreshDue
    /\ refreshDue' = TRUE
    /\ UNCHANGED <<queue, leases, session, sync, retrying, snapshot, net, server>>

\* retryMutation reads the row and checks its status; the button is disabled
\* while a synchronization is shown as running.
RetryRead(m) ==
    /\ m \in Tapped \ retrying
    /\ pc = "idle"
    /\ status[m] \in {"FAILED", "CONFLICT"}
    /\ retrying' = retrying \cup {m}
    /\ UNCHANGED <<queue, leases, session, sync, directory, net, server>>

\* Its UPDATE has no condition on the status: whatever the row has become, it
\* is LOCAL_PENDING again (a row purged meanwhile stays away).
RetryWrite(m) ==
    /\ m \in retrying
    /\ retrying' = retrying \ {m}
    /\ IF status[m] = "ABSENT"
       THEN UNCHANGED queue
       ELSE /\ status' = [status EXCEPT ![m] = "LOCAL_PENDING"]
            /\ retryAt' = [retryAt EXCEPT ![m] = "none"]
            /\ UNCHANGED <<home, seq>>
    /\ UNCHANGED <<leases, session, sync, directory, net, server>>

\* retryDelayMs passes.
BackoffElapses(m) ==
    /\ retryAt[m] = "later"
    /\ retryAt' = [retryAt EXCEPT ![m] = "due"]
    /\ UNCHANGED <<status, home, seq, leases, session, sync, retrying, directory, net, server>>

LeaseExpires(g) ==
    /\ lease[g] = "valid"
    /\ lease' = [lease EXCEPT ![g] = "expired"]
    /\ UNCHANGED <<queue, leaseLast, nextSeq, session, sync, retrying, directory, net, server>>

\* The app is closed and opened again: initializeDatabase returns interrupted
\* rows to the queue; batches on their way stay on their way.
Restart ==
    /\ pc # "idle" \/ retrying # {} \/ \E m \in Mutations : status[m] = "SYNCING"
    /\ status' = [m \in Mutations |-> IF status[m] = "SYNCING" THEN "FAILED" ELSE status[m]]
    /\ retryAt' = [m \in Mutations |-> IF status[m] = "SYNCING" THEN "due" ELSE retryAt[m]]
    /\ pc' = "idle" /\ work' = {} /\ todo' = {} /\ answer' = NoAnswer
    /\ syncGate' = activeGate
    /\ retrying' = {}
    /\ refreshDue' = TRUE /\ snapshot' = NoSnapshot
    /\ UNCHANGED <<home, seq, leases, session, net, server>>

-----------------------------------------------------------------------------
(* refreshSnapshot *)

\* The effect does not refresh a directory of the last 15 minutes, nor while
\* another refresh is on its way; nothing brings it back later.
RefreshSkipped ==
    /\ refreshDue
    /\ ~active \/ lease[activeGate] = "valid" \/ snapshot # NoSnapshot
    /\ refreshDue' = FALSE
    /\ UNCHANGED <<queue, leases, session, sync, retrying, snapshot, net, server>>

\* The effect, or the guard by hand, asks for a snapshot.  The server answers
\* with its view of the device and renews the lease, which may leave recorded
\* actions further than the clock skew before its start.
SnapshotIssued(byHand) ==
    /\ byHand \/ refreshDue
    /\ active /\ trusted /\ snapshot = NoSnapshot
    /\ refreshDue' = (refreshDue /\ byHand)
    /\ snapshot' = [gate |-> activeGate, last |-> lastAccepted]
    /\ \E A \in SUBSET (Datable \cap Recorded) : aged' = aged \cup A
    /\ UNCHANGED <<queue, leases, session, sync, retrying, net,
                   trusted, lastAccepted, applied, outdated>>

\* Mutant: the snapshot sets the next number instead of raising it.
SnapshotStoredLow ==
    /\ snapshot # NoSnapshot
    /\ LET g == snapshot.gate IN
         /\ lease' = [lease EXCEPT ![g] = "valid"]
         /\ leaseLast' = [leaseLast EXCEPT ![g] = snapshot.last]
         /\ nextSeq' = [nextSeq EXCEPT ![g] = snapshot.last + 1]
    /\ snapshot' = NoSnapshot
    /\ UNCHANGED <<queue, session, refreshDue, sync, retrying, net, server>>

\* replaceDirectorySnapshot: one transaction.
SnapshotStored ==
    /\ snapshot # NoSnapshot
    /\ LET g == snapshot.gate IN
         /\ lease' = [lease EXCEPT ![g] = "valid"]
         /\ leaseLast' = [leaseLast EXCEPT ![g] = snapshot.last]
         /\ nextSeq' = [nextSeq EXCEPT ![g] = Larger(@, snapshot.last + 1)]
    /\ snapshot' = NoSnapshot
    /\ UNCHANGED <<queue, session, refreshDue, sync, retrying, net, server>>

SnapshotLost ==
    /\ snapshot # NoSnapshot
    /\ snapshot' = NoSnapshot
    /\ UNCHANGED <<queue, leases, session, refreshDue, sync, retrying, net, server>>

-----------------------------------------------------------------------------
(* syncNow *)

\* Mutant: failed rows wait for the guard, due or not.
ReadyPending(g) ==
    {m \in Mutations : home[m] = g /\ lease[g] = "valid" /\ status[m] = "LOCAL_PENDING"}

Ready(g) ==
    {m \in Mutations :
       /\ home[m] = g /\ lease[g] = "valid"
       /\ \/ status[m] = "LOCAL_PENDING"
          \/ status[m] = "FAILED" /\ retryAt[m] = "due"}

\* The first ClaimLimit of them by local_sequence.
Picks(g) == {m \in Ready(g) : Cardinality({n \in Ready(g) : seq[n] < seq[m]}) < ClaimLimit}

\* The SELECT of claimReadyMutations, for the gate of the session when the
\* timer, an enqueue or a retry starts the loop, else for the loop's own gate.
SelectReady ==
    LET g == IF pc = "idle" THEN activeGate ELSE syncGate IN
    /\ pc \in {"idle", "select"} /\ (pc = "idle" => active)
    /\ Picks(g) # {}
    /\ work' = Picks(g) /\ syncGate' = g /\ pc' = "mark"
    /\ UNCHANGED <<queue, leases, session, todo, answer, retrying, directory, net, server>>

\* Nothing is left to claim, or the fifth batch is done.
SyncEnds ==
    /\ pc = "select"
    /\ pc' = "idle"
    /\ UNCHANGED <<queue, leases, session, syncGate, work, todo, answer, retrying, directory, net, server>>

\* The UPDATE of claimReadyMutations, which looks at the status again.
MarkSyncing ==
    LET claimed == {m \in work : status[m] \in {"LOCAL_PENDING", "FAILED"}} IN
    /\ pc = "mark"
    /\ status' = [m \in Mutations |-> IF m \in claimed THEN "SYNCING" ELSE status[m]]
    /\ retryAt' = [m \in Mutations |-> IF m \in claimed THEN "none" ELSE retryAt[m]]
    /\ pc' = "reread"
    /\ UNCHANGED <<home, seq, leases, session, syncGate, work, todo, answer,
                   retrying, directory, net, server>>

\* Rows that are SYNCING on re-reading are sent as one batch.
SendBatch ==
    LET claimed == {m \in work : status[m] = "SYNCING"} IN
    /\ pc = "reread"
    /\ work' = claimed
    /\ IF claimed = {}
       THEN pc' = "idle" /\ UNCHANGED net
       ELSE pc' = "wait" /\ net' = net \cup {claimed}
    /\ UNCHANGED <<queue, leases, session, syncGate, todo, answer, retrying, directory, server>>

ReceiveAnswer ==
    /\ pc = "wait" /\ answer # NoAnswer
    /\ pc' = "apply" /\ todo' = work
    /\ UNCHANGED <<queue, leases, session, syncGate, work, answer, retrying, directory, net, server>>

AllFail(kind) ==
    /\ pc' = "failAll" /\ todo' = work
    /\ answer' = [m \in Mutations |-> kind]

\* Mutant: a failed request ends the loop and leaves its rows as they are.
RequestFailsQuietly ==
    /\ pc = "wait"
    /\ pc' = "idle" /\ work' = {}
    /\ UNCHANGED <<queue, leases, session, syncGate, todo, answer, retrying, directory, net, server>>

\* No connection, no answer within 20 s, or a 408, 429 or 5xx: to be retried.
\* The batch may still be on its way.
RequestFails ==
    /\ pc = "wait"
    /\ AllFail("RETRY")
    /\ UNCHANGED <<queue, leases, session, syncGate, work, retrying, directory, net, server>>

\* Any other error status: the request was refused and nothing is retried.
RequestRefused ==
    /\ pc = "wait" /\ work \in net
    /\ net' = net \ {work}
    /\ AllFail("REJECT")
    /\ UNCHANGED <<queue, leases, session, syncGate, work, retrying, directory, server>>

\* The server disowns the device: purgeGateData and markDeviceStatus.
DeviceDisowned ==
    /\ pc = "wait" /\ work \in net /\ ~trusted
    /\ net' = net \ {work}
    /\ status' = [m \in Mutations |-> "ABSENT"]
    /\ retryAt' = [m \in Mutations |-> "none"]
    /\ lease' = [g \in Gates |-> "none"]
    /\ leaseLast' = [g \in Gates |-> 0]
    /\ nextSeq' = [g \in Gates |-> 1]
    /\ active' = FALSE
    /\ pc' = "idle" /\ work' = {} /\ answer' = NoAnswer
    /\ UNCHANGED <<home, seq, activeGate, syncGate, todo, retrying, directory, server>>

\* What applyServerResult makes of a result.
ResultStatus(a) == IF a \in {"SYNCED", "CONFLICT"} THEN a ELSE "FAILED"

\* applyMutationResult on the next claimed row.  A row that is no longer
\* SYNCING raises: out of the results loop into the catch, which starts over
\* with a retryable failure for every claimed row; out of the catch for good.
ApplyResult ==
    LET m == First(todo) IN
    /\ pc \in {"apply", "failAll"} /\ todo # {}
    /\ IF status[m] = "SYNCING"
       THEN /\ status' = [status EXCEPT ![m] = ResultStatus(answer[m])]
            /\ retryAt' = [retryAt EXCEPT ![m] = IF answer[m] = "RETRY" THEN "later" ELSE "none"]
            /\ todo' = todo \ {m}
            /\ UNCHANGED <<pc, work, answer>>
       ELSE /\ IF pc = "apply"
               THEN AllFail("RETRY") /\ UNCHANGED work
               ELSE pc' = "idle" /\ work' = {} /\ todo' = {} /\ answer' = NoAnswer
            /\ UNCHANGED <<status, retryAt>>
    /\ UNCHANGED <<home, seq, leases, session, syncGate, retrying, directory, net, server>>

\* Every result is applied: on to the next batch, or out after a failure.
BatchDone ==
    /\ pc \in {"apply", "failAll"} /\ todo = {}
    /\ pc' = IF pc = "apply" THEN "select" ELSE "idle"
    /\ work' = {} /\ answer' = NoAnswer
    /\ UNCHANGED <<queue, leases, session, syncGate, todo, retrying, directory, net, server>>

-----------------------------------------------------------------------------
(* The server *)

\* Mutant: the sequence is only required to grow.
DecideGrowing(m, last) ==
    IF m \in aged THEN "REJECT"
    ELSE IF m \in applied THEN "SYNCED"
    ELSE IF seq[m] <= last \/ m \in outdated THEN "CONFLICT"
    ELSE "SYNCED"

\* evaluateOfflineMutation for a device and gate in good standing.
Decide(m, last) ==
    IF m \in aged THEN "REJECT"
    ELSE IF m \in applied THEN "SYNCED"
    ELSE IF seq[m] # last + 1 \/ m \in outdated THEN "CONFLICT"
    ELSE "SYNCED"

\* Mutant: an action without a result in the answer is taken for done.
MissingResultDone == "SYNCED"

\* SYNC_RESULT_MISSING.
MissingResult == "RETRY"

\* The server works through the first n actions of a batch, one transaction
\* each; it may stop early, and its answer may be lost or come too late.
ServerProcesses(b, n) ==
    LET rank(m) == Cardinality({x \in b : seq[x] <= seq[m]})
        item == [k \in 1..n |-> CHOOSE m \in b : rank(m) = k]
        accepts(m, last) == m \notin applied /\ Decide(m, last) = "SYNCED"
        last[k \in 0..n] ==
          IF k = 0 THEN lastAccepted
          ELSE IF accepts(item[k], last[k-1]) THEN seq[item[k]] ELSE last[k-1] IN
    /\ trusted
    /\ n <= Cardinality(b)
    /\ net' = net \ {b}
    /\ lastAccepted' = last[n]
    /\ applied' = applied \cup {item[k] : k \in {i \in 1..n : accepts(item[i], last[i-1])}}
    /\ \/ UNCHANGED answer
       \/ /\ pc = "wait" /\ b = work /\ answer = NoAnswer
          /\ answer' = [m \in Mutations |->
               IF m \in b /\ rank(m) <= n
               THEN Decide(m, last[rank(m) - 1]) ELSE MissingResult]
    /\ UNCHANGED <<queue, leases, session, pc, syncGate, work, todo, retrying,
                   directory, trusted, outdated, aged>>

\* A batch never arrives.
BatchLost(b) ==
    /\ net' = net \ {b}
    /\ UNCHANGED <<queue, leases, session, sync, retrying, directory, server>>

\* Someone else changes the record the action was based on.
RecordChanges(m) ==
    /\ m \in Contested \cap Recorded /\ m \notin applied \cup outdated
    /\ outdated' = outdated \cup {m}
    /\ UNCHANGED <<queue, leases, session, sync, retrying, directory, net,
                   trusted, lastAccepted, applied, aged>>

\* An administrator revokes the device or reports it lost.
DeviceRevoked ==
    /\ trusted
    /\ trusted' = FALSE
    /\ UNCHANGED <<queue, leases, session, sync, retrying, directory, net,
                   lastAccepted, applied, outdated, aged>>

-----------------------------------------------------------------------------
GuardStep ==
    \/ \E m \in Mutations : Enqueue(m) \/ RetryRead(m) \/ RetryWrite(m) \/ BackoffElapses(m)
    \/ \E g \in Gates : SelectGate(g) \/ LeaseExpires(g)
    \/ Restart \/ Reconnect \/ RefreshSkipped
    \/ (\E byHand \in BOOLEAN : SnapshotIssued(byHand)) \/ SnapshotStored \/ SnapshotLost

SyncStep ==
    \/ SelectReady \/ SyncEnds \/ MarkSyncing \/ SendBatch
    \/ ReceiveAnswer \/ RequestFails \/ RequestRefused \/ DeviceDisowned
    \/ ApplyResult \/ BatchDone

ServerStep ==
    \/ \E b \in net : BatchLost(b) \/ \E n \in Numbers : ServerProcesses(b, n)
    \/ \E m \in Mutations : RecordChanges(m)
    \/ DeviceRevoked

Next == GuardStep \/ SyncStep \/ ServerStep

Spec == Init /\ [][Next]_vars

\* A whole batch is decided and the answer is under way.
ServerAnswers ==
    /\ pc = "wait" /\ work \in net /\ answer = NoAnswer
    /\ ServerProcesses(work, Cardinality(work)) /\ answer' # NoAnswer

AnswerComplete == \A m \in work : answer[m] \in {"SYNCED", "CONFLICT", "REJECT"}

\* The 15 s timer keeps starting the loop (a lease lasts for hours), requests
\* end within 20 s, SQLite answers, backoffs end, the effect refreshes when it
\* is due.  The network and the app are not broken for
\* ever: a step that keeps being possible between failures and restarts is
\* taken at last.  Nothing makes the guard record, retry, reconnect or refresh
\* by hand, and nothing makes a request fail.
Fairness ==
    /\ \A m \in Mutations : WF_vars(RetryWrite(m)) /\ WF_vars(BackoffElapses(m))
    /\ SF_vars(SelectReady) /\ WF_vars(SyncEnds) /\ WF_vars(BatchDone)
    /\ SF_vars(MarkSyncing) /\ SF_vars(SendBatch)
    /\ WF_vars(ReceiveAnswer \/ RequestFails)
    /\ SF_vars(ServerAnswers) /\ SF_vars(AnswerComplete /\ ReceiveAnswer)
    /\ SF_vars(DeviceDisowned)
    /\ WF_vars(ApplyResult) /\ SF_vars(pc = "apply" /\ AnswerComplete /\ ApplyResult)
    /\ WF_vars(RefreshSkipped \/ SnapshotIssued(FALSE))
    /\ WF_vars(SnapshotStored \/ SnapshotLost) /\ SF_vars(SnapshotStored)

FairSpec == Spec /\ Fairness

-----------------------------------------------------------------------------
(* Properties *)

\* Every variable has its type.
TypeOK ==
    /\ status \in [Mutations -> Statuses]
    /\ home \in [Mutations -> Gates]
    /\ seq \in [Mutations -> Numbers]
    /\ retryAt \in [Mutations -> {"none", "later", "due"}]
    /\ lease \in [Gates -> {"none", "valid", "expired"}]
    /\ leaseLast \in [Gates -> Numbers]
    /\ nextSeq \in [Gates -> 1..(Cardinality(Mutations) + 1)]
    /\ activeGate \in Gates /\ syncGate \in Gates
    /\ active \in BOOLEAN /\ trusted \in BOOLEAN /\ refreshDue \in BOOLEAN
    /\ pc \in {"idle", "select", "mark", "reread", "wait", "apply", "failAll"}
    /\ work \subseteq Mutations /\ todo \subseteq work /\ retrying \subseteq Mutations
    /\ answer \in [Mutations -> {"SYNCED", "CONFLICT", "REJECT", "RETRY"}] \cup {NoAnswer}
    /\ snapshot \in [gate : Gates, last : Numbers] \cup {NoSnapshot}
    /\ net \subseteq SUBSET Mutations
    /\ lastAccepted \in Numbers
    /\ applied \subseteq Mutations /\ outdated \subseteq Mutations /\ aged \subseteq Mutations

\* The device calls an action synchronized only if it took effect on the
\* server, whatever answers were lost, partial or late.
SyncedIsApplied == \A m \in Mutations : status[m] = "SYNCED" => m \in applied

\* Actions of one gate take effect in the order the guard recorded them, and
\* none is passed over: a check-out never precedes its check-in.
AppliedInOrder ==
    \A m, n \in Mutations :
      home[m] = home[n] /\ 0 < seq[m] /\ seq[m] < seq[n] /\ n \in applied => m \in applied

\* No two actions of a gate carry the same number, so the unique index never
\* refuses to record one -- also when a snapshot issued before an action was
\* recorded is stored after it.
NumbersNotReused ==
    \A m, n \in Mutations :
      m # n /\ home[m] = home[n] /\ seq[m] > 0 => seq[m] # seq[n]

\* Between two synchronizations no row is left SYNCING: nothing but a restart
\* would ever pick it up again.
NoneLeftSyncing == pc = "idle" => \A m \in Mutations : status[m] # "SYNCING"

Decided(m) ==
    \/ status[m] \in {"SYNCED", "CONFLICT", "ABSENT"}
    \/ status[m] = "FAILED" /\ retryAt[m] = "none"

\* Without the guard's help, each recorded action is synchronized or comes back
\* for review, or else the device's lease runs out first.
DecidedWhileLeased ==
    \A m \in Mutations :
      status[m] = "LOCAL_PENDING" ~> Decided(m) \/ lease[home[m]] # "valid" \/ ~active

\* What implementation-plan.md asks: recorded actions are retried automatically
\* when connectivity returns, lease or no lease.
EventuallyDecided ==
    \A m \in Mutations : status[m] = "LOCAL_PENDING" ~> Decided(m) \/ ~active \/ ~trusted

\* What the app tells the guard of a CONFLICT: the server's state differs from
\* the local action.
ConflictIsGenuine == \A m \in Mutations : status[m] = "CONFLICT" => m \in outdated
=============================================================================
