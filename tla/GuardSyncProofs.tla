--------------------------- MODULE GuardSyncProofs ---------------------------
(***************************************************************************)
(* Theorems about the guard app's offline queue, for any actions, gates    *)
(* and batch limit, and for any of the actions contested, datable or       *)
(* retried by hand.  The server works through a batch in the order of the  *)
(* numbers the device gave, so most of the argument is about numbers: none *)
(* is given twice, none is ahead of the device's counter, and what the     *)
(* server accepts of a batch is decided by the recursion of                *)
(* ServerProcesses, which needs an induction of its own.                   *)
(***************************************************************************)
EXTENDS GuardSync, FiniteSetTheorems, WellFoundedInduction, TLAPS

-----------------------------------------------------------------------------
(* Induction over the natural numbers, by the least counterexample *)

Below == {p \in Nat \X Nat : p[1] < p[2]}

LEMMA BelowWellFounded == IsWellFoundedOn(Below, Nat)
<1>1. OpToRel(<, Nat) = Below
  BY DEF OpToRel, Below
<1> QED
  BY <1>1, NatLessThanWellFounded

LEMMA Least ==
    ASSUME NEW S \in SUBSET Nat, S # {}
    PROVE  \E i \in S : \A j \in S : i <= j
<1>1. \E i \in S : \A j \in S : ~(<<j, i>> \in Below)
  BY BelowWellFounded, WFMin
<1>2. ASSUME NEW i \in S, NEW j \in S, j < i PROVE <<j, i>> \in Below
  <2>1. <<j, i>> \in Nat \X Nat
    OBVIOUS
  <2>2. <<j, i>>[1] < <<j, i>>[2]
    BY <1>2
  <2> QED
    BY <2>1, <2>2, Zenon DEF Below
<1>3. \E i \in S : \A j \in S : ~(j < i)
  BY <1>1, <1>2, Zenon
<1> QED
  BY <1>3

\* A set that holds of 0 and with each number up to n of the next holds of all.
LEMMA Induction ==
    ASSUME NEW n \in Nat, NEW A, 0 \in A, \A i \in 0..n : i \in A /\ i < n => i + 1 \in A
    PROVE  \A i \in 0..n : i \in A
<1> DEFINE Bad == {i \in 0..n : i \notin A}
<1> SUFFICES ASSUME Bad # {} PROVE FALSE
  OBVIOUS
<1>1. PICK i \in Bad : \A j \in Bad : i <= j
  <2>1. Bad \in SUBSET Nat
    OBVIOUS
  <2> HIDE DEF Bad
  <2> QED
    BY <2>1, Least
<1>2. i # 0 /\ i - 1 \in 0..n /\ i - 1 \notin Bad /\ i - 1 < n /\ i = (i - 1) + 1
  BY <1>1
<1> QED
  BY <1>1, <1>2

-----------------------------------------------------------------------------
(* How the server works through a batch *)

\* The place of an action in the batch, by its number.
Rank(b, m) == Cardinality({x \in b : seq[x] <= seq[m]})

DistinctNumbers(b) == \A m, n \in b : m # n => seq[m] # seq[n]

LEMMA RanksArePlaces ==
    ASSUME seq \in [Mutations -> Nat], NEW b \in SUBSET Mutations, DistinctNumbers(b)
    PROVE  /\ IsFiniteSet(b) /\ Cardinality(b) \in Nat
           /\ \A m \in b : Rank(b, m) \in 1..Cardinality(b)
           /\ \A m, n \in b : Rank(b, m) = Rank(b, n) => m = n
           /\ \A k \in 1..Cardinality(b) : \E m \in b : Rank(b, m) = k
<1> DEFINE UpTo(m) == {x \in b : seq[x] <= seq[m]}
           rank == [m \in b |-> Rank(b, m)]
<1>1. IsFiniteSet(b) /\ Cardinality(b) \in Nat
  BY MutationsFinite, FS_Subset, FS_CardinalityType
<1>2. ASSUME NEW m \in b PROVE Rank(b, m) \in 1..Cardinality(b)
  <2>1. UpTo(m) \in SUBSET b /\ IsFiniteSet(UpTo(m)) /\ UpTo(m) # {}
    <3>1. m \in UpTo(m)
      OBVIOUS
    <3> QED
      BY <1>1, <3>1, FS_Subset
  <2>2. Cardinality(UpTo(m)) <= Cardinality(b) /\ Cardinality(UpTo(m)) \in Nat /\ Cardinality(UpTo(m)) # 0
    BY <1>1, <2>1, FS_Subset, FS_CardinalityType, FS_EmptySet
  <2> QED
    BY <1>1, <2>2 DEF Rank
<1>3. ASSUME NEW m \in b, NEW n \in b, seq[m] < seq[n] PROVE Rank(b, m) < Rank(b, n)
  <2>1. UpTo(m) \in SUBSET UpTo(n) /\ n \notin UpTo(m) /\ n \in UpTo(n)
    BY <1>3
  <2>2. IsFiniteSet(UpTo(n)) /\ UpTo(m) # UpTo(n)
    BY <1>1, <2>1, FS_Subset
  <2>3. Cardinality(UpTo(m)) <= Cardinality(UpTo(n)) /\ Cardinality(UpTo(m)) # Cardinality(UpTo(n))
        /\ Cardinality(UpTo(m)) \in Nat /\ Cardinality(UpTo(n)) \in Nat
    <3> HIDE DEF UpTo
    <3> QED
      BY <2>1, <2>2, FS_Subset, FS_CardinalityType
  <2> QED
    BY <2>3 DEF Rank
<1>4. ASSUME NEW m \in b, NEW n \in b, Rank(b, m) = Rank(b, n) PROVE m = n
  <2>1. Rank(b, m) \in Int /\ Rank(b, n) \in Int
    BY <1>2
  <2>2. ~(seq[m] < seq[n]) /\ ~(seq[n] < seq[m])
    BY <1>3, <1>4, <2>1
  <2> QED
    BY <2>2 DEF DistinctNumbers
<1>5. rank \in Injection(b, 1..Cardinality(b))
  BY <1>2, <1>4 DEF Injection, IsInjective
<1>6. rank \in Surjection(b, 1..Cardinality(b))
  <2>1. IsFiniteSet(1..Cardinality(b)) /\ Cardinality(1..Cardinality(b)) = Cardinality(b)
    BY <1>1, FS_Interval
  <2> HIDE DEF rank
  <2> QED
    BY <1>5, <2>1, FS_Injection
<1>7. \A k \in 1..Cardinality(b) : \E m \in b : Rank(b, m) = k
  BY <1>6 DEF Surjection
<1> QED
  BY <1>1, <1>2, <1>4, <1>7

\* The server accepts the action and raises the device's number to it.
Accepts(m, last) == m \notin applied /\ Decide(m, last) = "SYNCED"

\* The device's number before and after each of the first n actions.
Run(last, item, n) ==
    last = [k \in 0..n |->
             IF k = 0 THEN lastAccepted
             ELSE IF Accepts(item[k], last[k-1]) THEN seq[item[k]] ELSE last[k-1]]

LEMMA RunExists == ASSUME NEW n \in Nat, NEW item PROVE \E last : Run(last, item, n)
<1> DEFINE A == {i \in 0..n : \E last : Run(last, item, i)}
<1>1. 0 \in A
  <2>1. Run([k \in 0..0 |-> lastAccepted], item, 0)
    BY DEF Run
  <2> QED
    BY <2>1
<1>2. ASSUME NEW i \in 0..n, i \in A, i < n PROVE i + 1 \in A
  <2>1. PICK g : Run(g, item, i)
    BY <1>2
  <2> DEFINE h == [k \in 0..(i+1) |->
                    IF k <= i THEN g[k]
                    ELSE IF Accepts(item[k], g[k-1]) THEN seq[item[k]] ELSE g[k-1]]
  <2>2. ASSUME NEW k \in 0..(i+1)
        PROVE  h[k] = IF k = 0 THEN lastAccepted
                      ELSE IF Accepts(item[k], h[k-1]) THEN seq[item[k]] ELSE h[k-1]
    <3>1. CASE k <= i
      <4>1. g[k] = IF k = 0 THEN lastAccepted
                   ELSE IF Accepts(item[k], g[k-1]) THEN seq[item[k]] ELSE g[k-1]
        BY <2>1, <3>1 DEF Run
      <4>2. h[k] = g[k] /\ (k # 0 => h[k-1] = g[k-1])
        BY <3>1
      <4> HIDE DEF h
      <4> QED
        BY <4>1, <4>2
    <3>2. CASE k = i + 1
      <4>1. h[k] = (IF Accepts(item[k], g[k-1]) THEN seq[item[k]] ELSE g[k-1]) /\ h[k-1] = g[k-1] /\ k # 0
        BY <3>2
      <4> HIDE DEF h
      <4> QED
        BY <4>1
    <3> QED
      BY <3>1, <3>2
  <2>3. Run(h, item, i + 1)
    <3>1. h = [k \in 0..(i+1) |-> h[k]]
      OBVIOUS
    <3> HIDE DEF h
    <3> QED
      BY <2>2, <3>1 DEF Run
  <2> QED
    BY <1>2, <2>3
<1>3. n \in A
  <2> HIDE DEF A
  <2> QED
    BY <1>1, <1>2, Induction
<1> QED
  BY <1>3

\* What a step of the server does, without its local definitions.
LEMMA ServerRuns ==
    ASSUME seq \in [Mutations -> Nat], NEW b \in SUBSET Mutations, DistinctNumbers(b),
           NEW n \in Nat, ServerProcesses(b, n)
    PROVE  \E item, last :
             /\ item \in [1..n -> b]
             /\ \A m \in b : Rank(b, m) <= n => Rank(b, m) \in 1..n /\ item[Rank(b, m)] = m
             /\ Run(last, item, n)
             /\ lastAccepted' = last[n]
             /\ applied' = applied \cup {item[k] : k \in {i \in 1..n : Accepts(item[i], last[i-1])}}
             /\ \/ UNCHANGED answer
                \/ /\ pc = "wait"
                   /\ answer' = [m \in Mutations |->
                        IF m \in b /\ Rank(b, m) <= n
                        THEN Decide(m, last[Rank(b, m) - 1]) ELSE MissingResult]
<1> DEFINE item == [k \in 1..n |-> CHOOSE m \in b : Rank(b, m) = k]
           last[k \in 0..n] ==
             IF k = 0 THEN lastAccepted
             ELSE IF Accepts(item[k], last[k-1]) THEN seq[item[k]] ELSE last[k-1]
<1>1. n <= Cardinality(b)
  BY DEF ServerProcesses
<1>2. \A k \in 1..n : item[k] \in b /\ Rank(b, item[k]) = k
  BY <1>1, RanksArePlaces
<1>3. item \in [1..n -> b]
  BY <1>2
<1>4. ASSUME NEW m \in b, Rank(b, m) <= n
      PROVE  Rank(b, m) \in 1..n /\ item[Rank(b, m)] = m
  <2>1. Rank(b, m) \in 1..n
    BY <1>4, RanksArePlaces
  <2> HIDE DEF item
  <2> QED
    BY <1>2, <2>1, RanksArePlaces
<1>5. Run(last, item, n)
  <2>1. PICK g : Run(g, item, n)
    BY RunExists
  <2> HIDE DEF item
  <2> QED
    BY <2>1 DEF Run
<1>6. /\ lastAccepted' = last[n]
      /\ applied' = applied \cup {item[k] : k \in {i \in 1..n : Accepts(item[i], last[i-1])}}
      /\ \/ UNCHANGED answer
         \/ /\ pc = "wait"
            /\ answer' = [m \in Mutations |->
                 IF m \in b /\ Rank(b, m) <= n
                 THEN Decide(m, last[Rank(b, m) - 1]) ELSE MissingResult]
  BY DEF ServerProcesses, Rank, Accepts
<1> HIDE DEF item, last
<1> WITNESS item, last
<1> QED
  BY <1>3, <1>4, <1>5, <1>6

-----------------------------------------------------------------------------
(* The inductive invariant *)

\* Recorded once, an action keeps its number for good, though its row may go.
Issued == {m \in Mutations : seq[m] > 0}

\* What the device and the server have counted to: no number is ahead of the
\* number of actions recorded, and none behind the device's counter is free.
Counted ==
    /\ \A m \in Mutations : status[m] # "ABSENT" => seq[m] > 0
    /\ \A m \in Mutations : seq[m] <= Cardinality(Issued)
    /\ \A g \in Gates : nextSeq[g] <= Cardinality(Issued) + 1
    /\ lastAccepted <= Cardinality(Issued)
    /\ snapshot.last <= lastAccepted /\ \A g \in Gates : leaseLast[g] <= lastAccepted
    /\ active => \A m \in Mutations : seq[m] > 0 => seq[m] < nextSeq[home[m]]

\* A batch is of one gate, and so is what the loop holds.
OfOneGate ==
    /\ \A m \in work : seq[m] > 0 /\ home[m] = syncGate
    /\ \A b \in net : \A m, n \in b : seq[m] > 0 /\ home[m] = home[n]

\* No result is left to apply while the loop does not apply any.
NothingHeld == pc \in {"apply", "failAll"} \/ todo = {}

\* A positive answer is of an action that took effect, and that was recorded.
AnswersTrue ==
    /\ \A m \in Mutations : answer[m] = "SYNCED" => m \in applied
    /\ \A m \in applied : seq[m] > 0

GInv == TypeOK /\ Counted /\ NumbersNotReused /\ OfOneGate /\ NothingHeld /\ AnswersTrue /\ SyncedIsApplied

LEMMA InitGInv == Init => GInv
<1> SUFFICES ASSUME Init PROVE GInv
  OBVIOUS
<1>1. Issued = {} /\ Cardinality(Issued) = 0 /\ Cardinality(Mutations) \in Nat
  <2>1. Issued = {}
    BY DEF Init, Issued
  <2> QED
    BY <2>1, MutationsFinite, FS_EmptySet, FS_CardinalityType
<1>2. TypeOK
  <2>1. 0 \in Numbers /\ 1 \in 1..(Cardinality(Mutations) + 1)
    BY <1>1 DEF Numbers
  <2> QED
    BY <2>1 DEF Init, TypeOK, Statuses, NoSnapshot
<1>3. Counted
  BY <1>1 DEF Init, Counted, NoSnapshot
<1>4. NumbersNotReused /\ OfOneGate /\ NothingHeld /\ AnswersTrue /\ SyncedIsApplied
  BY DEF Init, NumbersNotReused, OfOneGate, NothingHeld, AnswersTrue, SyncedIsApplied, NoAnswer
<1> QED
  BY <1>2, <1>3, <1>4 DEF GInv

\* Most steps give no number, accept none and record no batch but the claimed
\* one: then it is the rows, the answers and the loop that may go wrong.
LEMMA NumbersAlone ==
    ASSUME GInv, TypeOK', UNCHANGED <<home, seq, leaseLast, nextSeq, lastAccepted, applied>>,
           active' => active,
           \A m \in Mutations : status'[m] # "ABSENT" => status[m] # "ABSENT",
           \A m \in Mutations : status'[m] = "SYNCED" => m \in applied,
           \A m \in Mutations : answer'[m] = "SYNCED" => m \in applied,
           snapshot'.last <= lastAccepted,
           \A m \in work' : seq[m] > 0 /\ home[m] = syncGate',
           net' \subseteq net \cup {work'},
           NothingHeld'
    PROVE  GInv'
<1>1. Issued' = Issued
  BY DEF Issued
<1>2. Counted'
  BY <1>1 DEF GInv, Counted
<1>3. NumbersNotReused' /\ AnswersTrue' /\ SyncedIsApplied'
  BY DEF GInv, NumbersNotReused, AnswersTrue, SyncedIsApplied
<1>4. OfOneGate'
  BY DEF GInv, OfOneGate
<1> QED
  BY <1>2, <1>3, <1>4 DEF GInv

\* The facts every case starts from.
LEMMA Known ==
    ASSUME GInv
    PROVE  /\ TypeOK /\ NothingHeld
           /\ \A m \in Mutations : status[m] # "ABSENT" => seq[m] > 0
           /\ \A m \in Mutations : status[m] = "SYNCED" \/ answer[m] = "SYNCED" => m \in applied
           /\ \A m \in work : seq[m] > 0 /\ home[m] = syncGate
           /\ snapshot.last <= lastAccepted
           /\ lastAccepted \in Nat /\ Cardinality(Mutations) \in Nat
BY MutationsFinite, FS_CardinalityType DEF GInv, Counted, SyncedIsApplied, AnswersTrue, OfOneGate, TypeOK, Numbers

\* The guard, the clock, the directory and a restart.
LEMMA GuardStepGInv ==
    ASSUME GInv, NEW m, NEW g, NEW byHand \in BOOLEAN,
           \/ m \in Mutations /\ (RetryRead(m) \/ RetryWrite(m) \/ BackoffElapses(m))
           \/ g \in Gates /\ (SelectGate(g) \/ LeaseExpires(g))
           \/ Restart \/ Reconnect \/ RefreshSkipped \/ SnapshotIssued(byHand) \/ SnapshotLost
    PROVE  GInv'
<1> USE Known
<1>1. CASE m \in Mutations /\ (RetryRead(m) \/ RetryWrite(m) \/ BackoffElapses(m))
  <2>1. UNCHANGED <<home, seq, leases, session, sync, directory, net, server>>
    BY <1>1 DEF RetryRead, RetryWrite, BackoffElapses, queue
  <2>2. TypeOK'
    BY <1>1, <2>1 DEF RetryRead, RetryWrite, BackoffElapses, queue, leases, session, sync, directory, server, TypeOK, Statuses
  <2>3. /\ \A x \in Mutations : status'[x] # "ABSENT" => status[x] # "ABSENT"
        /\ \A x \in Mutations : status'[x] = "SYNCED" => status[x] = "SYNCED"
    BY <1>1 DEF RetryRead, RetryWrite, BackoffElapses, queue, TypeOK
  <2> QED
    BY <2>1, <2>2, <2>3, NumbersAlone DEF leases, session, sync, directory, server, NothingHeld
<1>2. CASE (g \in Gates /\ (SelectGate(g) \/ LeaseExpires(g))) \/ Reconnect \/ RefreshSkipped
  <2>1. UNCHANGED <<queue, leaseLast, nextSeq, active, sync, retrying, snapshot, net, server>>
    BY <1>2 DEF SelectGate, LeaseExpires, Reconnect, RefreshSkipped, leases, session, directory
  <2>2. TypeOK'
    BY <1>2, <2>1 DEF SelectGate, LeaseExpires, Reconnect, RefreshSkipped, queue, directory, leases, session, sync, server, TypeOK
  <2> QED
    BY <2>1, <2>2, NumbersAlone DEF queue, sync, server, NothingHeld
<1>3. CASE Restart
  <2>1. /\ UNCHANGED <<home, seq, leases, session, net, server>> /\ snapshot' = NoSnapshot
        /\ pc' = "idle" /\ work' = {} /\ todo' = {} /\ answer' = NoAnswer
    BY <1>3 DEF Restart
  <2>2. TypeOK'
    BY <1>3, <2>1 DEF Restart, leases, session, server, TypeOK, Statuses
  <2>3. /\ \A x \in Mutations : status'[x] # "ABSENT" => status[x] # "ABSENT"
        /\ \A x \in Mutations : status'[x] = "SYNCED" => status[x] = "SYNCED"
    BY <1>3 DEF Restart
  <2> QED
    BY <2>1, <2>2, <2>3, NumbersAlone DEF leases, session, server, NothingHeld, NoAnswer, NoSnapshot
<1>4. CASE SnapshotIssued(byHand) \/ SnapshotLost
  <2>1. /\ UNCHANGED <<queue, leases, session, sync, retrying, net, trusted, lastAccepted, applied, outdated>>
        /\ snapshot' = NoSnapshot \/ snapshot' = [gate |-> activeGate, last |-> lastAccepted]
    BY <1>4 DEF SnapshotIssued, SnapshotLost, server
  <2>2. TypeOK'
    <3>1. snapshot' \in [gate : Gates, last : Numbers] \cup {NoSnapshot}
      BY <2>1 DEF TypeOK
    <3>2. aged' \subseteq Mutations /\ refreshDue' \in BOOLEAN
      BY <1>4 DEF SnapshotIssued, SnapshotLost, TypeOK, server, Recorded
    <3> QED
      BY <2>1, <3>1, <3>2 DEF queue, leases, session, sync, TypeOK
  <2>3. snapshot'.last <= lastAccepted
    BY <2>1 DEF NoSnapshot
  <2> QED
    BY <2>1, <2>2, <2>3, NumbersAlone DEF queue, leases, session, sync, NothingHeld
<1> QED
  BY <1>1, <1>2, <1>3, <1>4

\* The synchronization loop.
LEMMA ClaimGInv ==
    ASSUME GInv, SelectReady \/ SyncEnds \/ MarkSyncing \/ SendBatch
    PROVE  GInv'
<1> USE Known
<1>1. CASE SelectReady
  <2>1. PICK g \in Gates : /\ g = IF pc = "idle" THEN activeGate ELSE syncGate
                           /\ work' = Picks(g) /\ syncGate' = g
    BY <1>1 DEF SelectReady, TypeOK
  <2>2. /\ pc' = "mark" /\ pc \in {"idle", "select"}
        /\ UNCHANGED <<queue, leases, session, todo, answer, retrying, directory, net, server>>
    BY <1>1 DEF SelectReady
  <2>3. \A m \in work' : m \in Mutations /\ home[m] = g /\ seq[m] > 0
    BY <2>1 DEF Picks, Ready
  <2>4. TypeOK' /\ NothingHeld'
    BY <2>1, <2>2, <2>3 DEF queue, leases, session, directory, server, TypeOK, NothingHeld
  <2> QED
    BY <2>1, <2>2, <2>3, <2>4, NumbersAlone DEF queue, leases, session, directory, server
<1>2. CASE SyncEnds
  <2>1. pc' = "idle" /\ pc = "select"
        /\ UNCHANGED <<queue, leases, session, syncGate, work, todo, answer, retrying, directory, net, server>>
    BY <1>2 DEF SyncEnds
  <2>2. TypeOK' /\ NothingHeld'
    BY <2>1 DEF queue, leases, session, directory, server, TypeOK, NothingHeld
  <2> QED
    BY <2>1, <2>2, NumbersAlone DEF queue, leases, session, directory, server
<1>3. CASE MarkSyncing
  <2>1. /\ pc' = "reread" /\ pc = "mark"
        /\ UNCHANGED <<home, seq, leases, session, syncGate, work, todo, answer, retrying, directory, net, server>>
    BY <1>3 DEF MarkSyncing
  <2>2. TypeOK' /\ NothingHeld'
    BY <1>3, <2>1 DEF MarkSyncing, leases, session, directory, server, TypeOK, Statuses, NothingHeld
  <2>3. /\ \A x \in Mutations : status'[x] # "ABSENT" => status[x] # "ABSENT"
        /\ \A x \in Mutations : status'[x] = "SYNCED" => status[x] = "SYNCED"
    BY <1>3 DEF MarkSyncing
  <2> QED
    BY <2>1, <2>2, <2>3, NumbersAlone DEF leases, session, directory, server
<1>4. CASE SendBatch
  <2>1. /\ pc' \in {"idle", "wait"} /\ pc = "reread" /\ work' \subseteq work /\ net' \subseteq net \cup {work'}
        /\ UNCHANGED <<queue, leases, session, syncGate, todo, answer, retrying, directory, server>>
    BY <1>4 DEF SendBatch
  <2>2. TypeOK' /\ NothingHeld'
    <3>1. todo = {} /\ work' \subseteq Mutations /\ net' \subseteq SUBSET Mutations
      BY <2>1 DEF NothingHeld, TypeOK
    <3> QED
      BY <2>1, <3>1 DEF queue, leases, session, directory, server, TypeOK, NothingHeld
  <2> QED
    BY <2>1, <2>2, NumbersAlone DEF queue, leases, session, directory, server
<1> QED
  BY <1>1, <1>2, <1>3, <1>4

LEMMA AnswerGInv ==
    ASSUME GInv, ReceiveAnswer \/ RequestFails \/ RequestRefused \/ ApplyResult \/ BatchDone
    PROVE  GInv'
<1> USE Known
<1>1. CASE ReceiveAnswer \/ RequestFails \/ RequestRefused
  <2>1. /\ pc' \in {"apply", "failAll"} /\ todo' = work /\ net' \subseteq net
        /\ answer' = answer \/ \E a \in {"RETRY", "REJECT"} : answer' = [x \in Mutations |-> a]
        /\ UNCHANGED <<queue, leases, session, syncGate, work, retrying, directory, server>>
    BY <1>1 DEF ReceiveAnswer, RequestFails, RequestRefused, AllFail
  <2>2. TypeOK' /\ NothingHeld'
    BY <2>1 DEF queue, leases, session, directory, server, TypeOK, NothingHeld
  <2>3. \A x \in Mutations : answer'[x] = "SYNCED" => x \in applied
    BY <2>1
  <2> QED
    BY <2>1, <2>2, <2>3, NumbersAlone DEF queue, leases, session, directory, server
<1>2. CASE ApplyResult
  <2>1. PICK m : m = First(todo)
    OBVIOUS
  <2>2. UNCHANGED <<home, seq, leases, session, syncGate, retrying, directory, net, server>>
        /\ pc \in {"apply", "failAll"}
    BY <1>2 DEF ApplyResult
  <2>3. CASE status[m] = "SYNCING"
    <3>1. /\ status' = [status EXCEPT ![m] = ResultStatus(answer[m])]
          /\ retryAt' = [retryAt EXCEPT ![m] = IF answer[m] = "RETRY" THEN "later" ELSE "none"]
          /\ todo' = todo \ {m} /\ UNCHANGED <<pc, work, answer>>
      BY <1>2, <2>1, <2>3 DEF ApplyResult
    <3>2. ResultStatus(answer[m]) \in {"SYNCED", "CONFLICT", "FAILED"}
          /\ (ResultStatus(answer[m]) = "SYNCED" => answer[m] = "SYNCED")
      BY DEF ResultStatus
    <3>3. TypeOK' /\ NothingHeld'
      BY <2>2, <3>1, <3>2 DEF leases, session, directory, server, TypeOK, Statuses, NothingHeld
    <3>4. /\ \A x \in Mutations : status'[x] # "ABSENT" => status[x] # "ABSENT"
          /\ \A x \in Mutations : status'[x] = "SYNCED" => x \in applied
      BY <2>3, <3>1, <3>2 DEF TypeOK
    <3> QED
      BY <2>2, <3>1, <3>3, <3>4, NumbersAlone DEF leases, session, directory, server
  <2>4. CASE status[m] # "SYNCING"
    <3>1. /\ UNCHANGED <<status, retryAt>>
          /\ \/ pc' = "failAll" /\ todo' = work /\ answer' = [x \in Mutations |-> "RETRY"] /\ UNCHANGED work
             \/ pc' = "idle" /\ work' = {} /\ todo' = {} /\ answer' = NoAnswer
      BY <1>2, <2>1, <2>4 DEF ApplyResult, AllFail
    <3>2. TypeOK' /\ NothingHeld'
      BY <2>2, <3>1 DEF leases, session, directory, server, TypeOK, NothingHeld
    <3>3. \A x \in Mutations : answer'[x] = "SYNCED" => x \in applied
      BY <3>1 DEF NoAnswer
    <3>4. \A x \in work' : seq[x] > 0 /\ home[x] = syncGate'
      BY <2>2, <3>1
    <3> QED
      BY <2>2, <3>1, <3>2, <3>3, <3>4, NumbersAlone DEF leases, session, directory, server
  <2> QED
    BY <2>3, <2>4
<1>3. CASE BatchDone
  <2>1. /\ pc' \in {"select", "idle"} /\ work' = {} /\ answer' = NoAnswer /\ todo = {}
        /\ UNCHANGED <<queue, leases, session, syncGate, todo, retrying, directory, net, server>>
    BY <1>3 DEF BatchDone
  <2>2. TypeOK' /\ NothingHeld'
    BY <2>1 DEF queue, leases, session, directory, server, TypeOK, NothingHeld
  <2> QED
    BY <2>1, <2>2, NumbersAlone DEF queue, leases, session, directory, server, NoAnswer
<1> QED
  BY <1>1, <1>2, <1>3

\* The device is disowned: its rows go, its numbers stay, and it is never
\* active again, so no new number is given.
LEMMA DisownedGInv == ASSUME GInv, DeviceDisowned PROVE GInv'
<1> USE Known
<1>1. /\ status' = [m \in Mutations |-> "ABSENT"] /\ leaseLast' = [g \in Gates |-> 0]
      /\ nextSeq' = [g \in Gates |-> 1] /\ active' = FALSE /\ pc' = "idle" /\ work' = {}
      /\ answer' = NoAnswer /\ pc = "wait" /\ net' \subseteq net
      /\ UNCHANGED <<home, seq, syncGate, todo, snapshot, lastAccepted, applied>>
  BY DEF DeviceDisowned, directory, server
<1>2. TypeOK'
  <2>1. todo = {} /\ 0 \in Numbers /\ 1 \in 1..(Cardinality(Mutations) + 1)
    BY <1>1 DEF NothingHeld, Numbers
  <2>2. UNCHANGED <<home, seq, activeGate, syncGate, todo, retrying, directory, server>>
        /\ retryAt' = [m \in Mutations |-> "none"] /\ lease' = [g \in Gates |-> "none"]
    BY DEF DeviceDisowned
  <2> QED
    BY <1>1, <2>1, <2>2 DEF directory, server, TypeOK, Statuses
<1>3. Issued' = Issued /\ Cardinality(Issued) \in Nat
  <2>1. Issued \in SUBSET Mutations /\ Issued' = Issued
    BY <1>1 DEF Issued
  <2> QED
    BY <2>1, MutationsFinite, FS_Subset, FS_CardinalityType
<1>4. Counted'
  BY <1>1, <1>3 DEF GInv, Counted
<1>5. NumbersNotReused' /\ AnswersTrue' /\ SyncedIsApplied' /\ OfOneGate' /\ NothingHeld'
  BY <1>1 DEF GInv, NumbersNotReused, AnswersTrue, SyncedIsApplied, OfOneGate, NothingHeld, NoAnswer
<1> QED
  BY <1>2, <1>4, <1>5 DEF GInv

\* The next number is above every number of the gate and at most one above
\* the number of actions recorded.
LEMMA EnqueueGInv == ASSUME GInv, NEW m \in Mutations, Enqueue(m) PROVE GInv'
<1> USE Known
<1> DEFINE number == Larger(nextSeq[activeGate], leaseLast[activeGate] + 1)
<1>1. PICK g \in Gates : g = activeGate
  BY DEF TypeOK
<1>2. PICK i : i = number
  OBVIOUS
<1>3. /\ seq[m] = 0 /\ active
      /\ status' = [status EXCEPT ![m] = "LOCAL_PENDING"] /\ home' = [home EXCEPT ![m] = g]
      /\ seq' = [seq EXCEPT ![m] = i] /\ nextSeq' = [nextSeq EXCEPT ![g] = i + 1]
      /\ UNCHANGED <<retryAt, lease, leaseLast, session, sync, retrying, directory, net, server>>
  BY <1>1, <1>2 DEF Enqueue
<1>4. /\ seq \in [Mutations -> Nat] /\ nextSeq \in [Gates -> Nat] /\ leaseLast \in [Gates -> Nat]
      /\ nextSeq[g] >= 1 /\ Cardinality(Mutations) \in Nat
  BY <1>1 DEF TypeOK, Numbers
<1>5. Cardinality(Issued) \in Nat /\ Issued \in SUBSET Mutations /\ IsFiniteSet(Issued) /\ m \notin Issued
  <2>1. Issued \in SUBSET Mutations /\ m \notin Issued
    BY <1>3, <1>4 DEF Issued
  <2> QED
    BY <2>1, MutationsFinite, FS_Subset, FS_CardinalityType
<1>6. i \in Nat /\ nextSeq[g] <= i /\ i <= Cardinality(Issued) + 1 /\ i >= 1
  BY <1>1, <1>2, <1>4, <1>5 DEF Larger, GInv, Counted
<1>7. Issued' = Issued \cup {m} /\ Cardinality(Issued') = Cardinality(Issued) + 1
      /\ Cardinality(Issued') <= Cardinality(Mutations)
  <2>1. Issued' = Issued \cup {m}
    BY <1>3, <1>4, <1>6 DEF Issued
  <2>2. Issued' \in SUBSET Mutations
    BY <1>5, <2>1
  <2> QED
    BY <1>5, <2>1, <2>2, MutationsFinite, FS_AddElement, FS_Subset
<1>8. /\ \A x \in Mutations : seq'[x] = IF x = m THEN i ELSE seq[x]
      /\ \A x \in Mutations : home'[x] = IF x = m THEN g ELSE home[x]
      /\ \A x \in Gates : nextSeq'[x] = IF x = g THEN i + 1 ELSE nextSeq[x]
      /\ \A x \in Mutations : status'[x] = IF x = m THEN "LOCAL_PENDING" ELSE status[x]
  BY <1>3 DEF TypeOK
<1>9. TypeOK'
  <2>1. i \in Numbers /\ i + 1 \in 1..(Cardinality(Mutations) + 1)
    BY <1>4, <1>5, <1>6, <1>7 DEF Numbers
  <2>2. /\ seq' \in [Mutations -> Numbers] /\ nextSeq' \in [Gates -> 1..(Cardinality(Mutations) + 1)]
        /\ status' \in [Mutations -> Statuses] /\ home' \in [Mutations -> Gates]
    BY <1>3, <2>1 DEF TypeOK, Statuses
  <2> QED
    BY <1>3, <2>2 DEF session, sync, directory, server, TypeOK
<1>10. Counted'
  <2>1. UNCHANGED <<lastAccepted, snapshot, leaseLast, active>>
    BY <1>3 DEF session, directory, server
  <2>2. \A x \in Mutations : status'[x] # "ABSENT" => seq'[x] > 0
    BY <1>6, <1>8 DEF GInv, Counted
  <2>3. \A x \in Mutations : seq'[x] <= Cardinality(Issued')
    BY <1>4, <1>5, <1>6, <1>7, <1>8 DEF GInv, Counted
  <2>4. \A x \in Gates : nextSeq'[x] <= Cardinality(Issued') + 1
    BY <1>4, <1>5, <1>6, <1>7, <1>8 DEF GInv, Counted
  <2>5. lastAccepted <= Cardinality(Issued')
    BY <1>5, <1>7 DEF GInv, Counted
  <2>6. ASSUME NEW x \in Mutations, seq'[x] > 0 PROVE seq'[x] < nextSeq'[home'[x]]
    <3>1. CASE x = m
      BY <1>6, <1>8, <3>1
    <3>2. CASE x # m
      <4>1. seq[x] < nextSeq[home[x]] /\ home[x] \in Gates
        BY <1>3, <1>8, <2>6, <3>2 DEF GInv, Counted, TypeOK
      <4> QED
        BY <1>4, <1>6, <1>8, <3>2, <4>1
    <3> QED
      BY <3>1, <3>2
  <2>7. snapshot.last <= lastAccepted /\ \A x \in Gates : leaseLast[x] <= lastAccepted
    BY DEF GInv, Counted
  <2> QED
    BY <2>1, <2>2, <2>3, <2>4, <2>5, <2>6, <2>7 DEF Counted
<1>11. NumbersNotReused'
  <2>1. ASSUME NEW x \in Mutations, x # m, home[x] = g PROVE seq[x] # i
    BY <1>3, <1>4, <1>6, <2>1 DEF GInv, Counted
  <2> QED
    BY <1>6, <1>8, <2>1 DEF GInv, NumbersNotReused
<1>12. UNCHANGED <<work, todo, pc, syncGate, net, answer, applied>>
  BY <1>3 DEF sync, server
<1>13. OfOneGate'
  BY <1>3, <1>6, <1>8, <1>12 DEF GInv, OfOneGate, TypeOK
<1>14. AnswersTrue' /\ SyncedIsApplied' /\ NothingHeld'
  BY <1>6, <1>8, <1>12 DEF GInv, AnswersTrue, SyncedIsApplied, NothingHeld, TypeOK
<1> QED
  BY <1>9, <1>10, <1>11, <1>13, <1>14 DEF GInv

\* The snapshot raises the counter, never lowers it.
LEMMA StoredGInv == ASSUME GInv, SnapshotStored PROVE GInv'
<1> USE Known
<1>1. PICK g \in Gates : g = snapshot.gate
  BY DEF SnapshotStored, TypeOK, NoSnapshot
<1>2. PICK i \in Numbers : i = snapshot.last
  BY DEF SnapshotStored, TypeOK, NoSnapshot
<1>3. /\ lease' = [lease EXCEPT ![g] = "valid"] /\ leaseLast' = [leaseLast EXCEPT ![g] = i]
      /\ nextSeq' = [nextSeq EXCEPT ![g] = Larger(nextSeq[g], i + 1)]
      /\ snapshot' = NoSnapshot
      /\ UNCHANGED <<queue, session, refreshDue, sync, retrying, net, server>>
  BY <1>1, <1>2 DEF SnapshotStored
<1>4. /\ seq \in [Mutations -> Nat] /\ nextSeq \in [Gates -> Nat] /\ leaseLast \in [Gates -> Nat] /\ i \in Nat
      /\ home \in [Mutations -> Gates]
  BY DEF TypeOK, Numbers
<1>5. Issued' = Issued /\ Cardinality(Issued) \in Nat /\ Cardinality(Issued) <= Cardinality(Mutations)
  <2>1. Issued \in SUBSET Mutations /\ Issued' = Issued
    BY <1>3 DEF Issued, queue
  <2> QED
    BY <2>1, MutationsFinite, FS_Subset, FS_CardinalityType
<1>6. i <= lastAccepted /\ lastAccepted <= Cardinality(Issued)
  BY <1>2 DEF GInv, Counted
<1>7. /\ \A x \in Gates : leaseLast'[x] = IF x = g THEN i ELSE leaseLast[x]
      /\ \A x \in Gates : nextSeq[x] <= nextSeq'[x] /\ nextSeq'[x] <= Cardinality(Issued) + 1 /\ nextSeq'[x] \in Nat
  BY <1>3, <1>4, <1>5, <1>6 DEF Larger, GInv, Counted
<1>8. TypeOK'
  <2>1. Larger(nextSeq[g], i + 1) \in 1..(Cardinality(Mutations) + 1)
    BY <1>4, <1>5, <1>6 DEF Larger, TypeOK
  <2>2. /\ nextSeq' \in [Gates -> 1..(Cardinality(Mutations) + 1)] /\ leaseLast' \in [Gates -> Numbers]
        /\ lease' \in [Gates -> {"none", "valid", "expired"}]
    BY <1>3, <2>1 DEF TypeOK
  <2> QED
    BY <1>3, <2>2 DEF queue, session, sync, server, TypeOK
<1>9. Counted'
  <2>1. UNCHANGED <<status, seq, home, lastAccepted, active>>
    BY <1>3 DEF queue, session, server
  <2>2. active => \A x \in Mutations : seq[x] > 0 => seq[x] < nextSeq'[home[x]]
    BY <1>4, <1>7 DEF GInv, Counted
  <2>3. snapshot'.last <= lastAccepted /\ \A x \in Gates : leaseLast'[x] <= lastAccepted
    BY <1>3, <1>6, <1>7 DEF NoSnapshot, GInv, Counted
  <2> QED
    BY <1>5, <1>7, <2>1, <2>2, <2>3 DEF GInv, Counted
<1>10. NumbersNotReused' /\ AnswersTrue' /\ SyncedIsApplied' /\ OfOneGate' /\ NothingHeld'
  BY <1>3 DEF queue, session, sync, server, GInv, NumbersNotReused, AnswersTrue, SyncedIsApplied, OfOneGate, NothingHeld
<1> QED
  BY <1>8, <1>9, <1>10 DEF GInv

-----------------------------------------------------------------------------
(* The server *)

LEMMA ServerFrameGInv ==
    ASSUME GInv,
           (\E b \in net : BatchLost(b)) \/ (\E m \in Mutations : RecordChanges(m)) \/ DeviceRevoked
    PROVE  GInv'
<1> USE Known
<1>1. /\ UNCHANGED <<queue, leases, session, sync, retrying, directory, lastAccepted, applied>>
      /\ net' \subseteq net
  BY DEF BatchLost, RecordChanges, DeviceRevoked, server
<1>2. outdated' \subseteq Mutations /\ aged' \subseteq Mutations /\ trusted' \in BOOLEAN
  BY DEF BatchLost, RecordChanges, DeviceRevoked, server, TypeOK
<1>3. TypeOK' /\ NothingHeld'
  BY <1>1, <1>2 DEF queue, leases, session, sync, directory, TypeOK, NothingHeld
<1> QED
  BY <1>1, <1>3, NumbersAlone DEF queue, leases, session, sync, directory

\* What an accepted action does to the device's number: it becomes the next.
LEMMA RunSteps ==
    ASSUME NEW n \in Nat, NEW item, NEW last, Run(last, item, n)
    PROVE  /\ last[0] = lastAccepted
           /\ \A i \in 1..n : last[i] = IF Accepts(item[i], last[i-1]) THEN seq[item[i]] ELSE last[i-1]
           /\ \A i \in 1..n : Accepts(item[i], last[i-1]) => seq[item[i]] = last[i-1] + 1
<1>1. \A i \in 0..n : last[i] = IF i = 0 THEN lastAccepted
                                ELSE IF Accepts(item[i], last[i-1]) THEN seq[item[i]] ELSE last[i-1]
  BY DEF Run
<1>2. \A i \in 1..n : i \in 0..n /\ i # 0 /\ 0 \in 0..n
  OBVIOUS
<1>3. \A m, l : Accepts(m, l) => seq[m] = l + 1
  BY DEF Accepts, Decide
<1> QED
  BY <1>1, <1>2, <1>3

\* So the number only grows, and never beyond the numbers given.
LEMMA RunBounded ==
    ASSUME GInv, NEW n \in Nat, NEW item, NEW last, Run(last, item, n),
           \A i \in 1..n : item[i] \in Mutations
    PROVE  /\ Cardinality(Issued) \in Nat /\ Cardinality(Issued) <= Cardinality(Mutations)
           /\ \A i \in 0..n : last[i] \in Nat /\ lastAccepted <= last[i] /\ last[i] <= Cardinality(Issued)
<1> USE Known
<1> DEFINE A == {i \in 0..n : last[i] \in Nat /\ lastAccepted <= last[i] /\ last[i] <= Cardinality(Issued)}
<1>1. Cardinality(Issued) \in Nat /\ Cardinality(Issued) <= Cardinality(Mutations)
  <2>1. Issued \in SUBSET Mutations
    BY DEF Issued
  <2> QED
    BY <2>1, MutationsFinite, FS_Subset, FS_CardinalityType
<1>2. 0 \in A
  BY RunSteps DEF GInv, Counted
<1>3. ASSUME NEW i \in 0..n, i \in A, i < n PROVE i + 1 \in A
  <2>1. i + 1 \in 1..n /\ i + 1 \in 0..n /\ (i + 1) - 1 = i
    BY <1>3
  <2>2. PICK m \in Mutations : m = item[i+1]
    BY <2>1
  <2>3. /\ last[i+1] = IF Accepts(m, last[i]) THEN seq[m] ELSE last[i]
        /\ Accepts(m, last[i]) => seq[m] = last[i] + 1
    BY <2>1, <2>2, RunSteps
  <2>4. seq[m] <= Cardinality(Issued) /\ seq[m] \in Nat
    BY DEF GInv, Counted, TypeOK, Numbers
  <2> QED
    BY <1>3, <2>1, <2>3, <2>4
<1>4. \A i \in 0..n : i \in A
  <2> HIDE DEF A
  <2> QED
    BY <1>2, <1>3, Induction
<1> QED
  BY <1>1, <1>4

\* The server works through a batch that is on its way.
LEMMA ProcessedGInv ==
    ASSUME GInv, NEW b \in net, NEW n \in Numbers, ServerProcesses(b, n)
    PROVE  GInv'
<1> USE Known
<1>1. /\ n \in Nat /\ b \in SUBSET Mutations /\ seq \in [Mutations -> Nat]
      /\ \A m \in b : seq[m] > 0
  BY DEF TypeOK, Numbers, GInv, OfOneGate
<1>2. DistinctNumbers(b)
  BY <1>1 DEF DistinctNumbers, GInv, NumbersNotReused, OfOneGate
<1>3. PICK item, last :
        /\ item \in [1..n -> b]
        /\ \A m \in b : Rank(b, m) <= n => Rank(b, m) \in 1..n /\ item[Rank(b, m)] = m
        /\ Run(last, item, n)
        /\ lastAccepted' = last[n]
        /\ applied' = applied \cup {item[k] : k \in {i \in 1..n : Accepts(item[i], last[i-1])}}
        /\ \/ UNCHANGED answer
           \/ /\ pc = "wait"
              /\ answer' = [m \in Mutations |->
                   IF m \in b /\ Rank(b, m) <= n
                   THEN Decide(m, last[Rank(b, m) - 1]) ELSE MissingResult]
  BY <1>1, <1>2, ServerRuns
<1>4. UNCHANGED <<queue, leases, session, pc, syncGate, work, todo, retrying, directory, trusted, outdated, aged>>
      /\ net' \subseteq net
  BY DEF ServerProcesses
<1>5. /\ lastAccepted' \in Numbers /\ lastAccepted <= lastAccepted' /\ lastAccepted' <= Cardinality(Issued)
      /\ lastAccepted' \in Nat
  <2>1. n \in 0..n /\ \A i \in 1..n : item[i] \in Mutations
    BY <1>1, <1>3
  <2> QED
    BY <1>1, <1>3, <2>1, RunBounded DEF Numbers
<1>6. applied \subseteq applied' /\ applied' \subseteq Mutations /\ \A m \in applied' : seq[m] > 0
  BY <1>1, <1>3 DEF GInv, AnswersTrue, TypeOK
<1>7. ASSUME NEW m \in Mutations, answer'[m] = "SYNCED" PROVE m \in applied'
  <2>1. CASE UNCHANGED answer
    BY <1>6, <1>7, <2>1
  <2>2. CASE answer' = [x \in Mutations |->
               IF x \in b /\ Rank(b, x) <= n THEN Decide(x, last[Rank(b, x) - 1]) ELSE MissingResult]
    <3>1. m \in b /\ Rank(b, m) <= n /\ Decide(m, last[Rank(b, m) - 1]) = "SYNCED"
      BY <1>7, <2>2 DEF MissingResult
    <3>2. PICK k \in 1..n : k = Rank(b, m) /\ item[k] = m
      BY <1>3, <3>1
    <3>3. m \in applied \/ Accepts(item[k], last[k-1])
      BY <3>1, <3>2 DEF Accepts
    <3> QED
      BY <1>3, <1>6, <3>2, <3>3
  <2> QED
    BY <1>3, <2>1, <2>2
<1>8. answer' \in [Mutations -> {"SYNCED", "CONFLICT", "REJECT", "RETRY"}] \cup {NoAnswer}
  <2>1. \A m, l : Decide(m, l) \in {"SYNCED", "CONFLICT", "REJECT"}
    BY DEF Decide
  <2> QED
    BY <1>3, <2>1 DEF MissingResult, TypeOK
<1>9. TypeOK' /\ NothingHeld'
  BY <1>4, <1>5, <1>6, <1>8 DEF queue, leases, session, directory, TypeOK, NothingHeld
<1>10. Counted'
  <2>1. Issued' = Issued /\ UNCHANGED <<status, home, seq, nextSeq, leaseLast, snapshot, active>>
    BY <1>4 DEF Issued, queue, leases, session, directory
  <2>2. snapshot.last \in Nat /\ \A g \in Gates : leaseLast[g] \in Nat
    BY DEF TypeOK, Numbers, NoSnapshot
  <2>3. snapshot.last <= lastAccepted' /\ \A g \in Gates : leaseLast[g] <= lastAccepted'
    BY <1>5, <2>2 DEF GInv, Counted
  <2> QED
    BY <1>5, <2>1, <2>3 DEF GInv, Counted
<1>11. OfOneGate' /\ NumbersNotReused'
  BY <1>4 DEF queue, GInv, OfOneGate, NumbersNotReused
<1>12. AnswersTrue' /\ SyncedIsApplied'
  BY <1>4, <1>6, <1>7 DEF queue, GInv, AnswersTrue, SyncedIsApplied
<1> QED
  BY <1>9, <1>10, <1>11, <1>12 DEF GInv

LEMMA NextGInv == GInv /\ [Next]_vars => GInv'
<1> SUFFICES ASSUME GInv, [Next]_vars PROVE GInv'
  OBVIOUS
<1> USE Known
<1>1. CASE UNCHANGED vars
  BY <1>1, NumbersAlone DEF vars, queue, leases, session, sync, directory, server, TypeOK, NothingHeld
<1>2. CASE GuardStep
  BY <1>2, EnqueueGInv, StoredGInv, GuardStepGInv DEF GuardStep
<1>3. CASE SyncStep
  BY <1>3, ClaimGInv, AnswerGInv, DisownedGInv DEF SyncStep
<1>4. CASE ServerStep
  <2>1. ASSUME NEW b \in net, NEW n \in Numbers, ServerProcesses(b, n) PROVE GInv'
    BY <2>1, ProcessedGInv
  <2> QED
    BY <1>4, <2>1, ServerFrameGInv DEF ServerStep
<1> QED
  BY <1>1, <1>2, <1>3, <1>4 DEF Next

LEMMA SpecGInv == Spec => []GInv
BY InitGInv, NextGInv, PTL DEF Spec

\* Every variable has its type.
THEOREM GuardTypeCorrect == Spec => []TypeOK
BY SpecGInv, PTL DEF GInv

\* An action the device calls synchronized took effect on the server, for
\* whatever answers were lost, partial or late.
THEOREM SpecSyncedIsApplied == Spec => []SyncedIsApplied
BY SpecGInv, PTL DEF GInv

\* No two actions of a gate carry the same number, also when a snapshot is
\* stored that was issued before an action was recorded.
THEOREM SpecNumbersNotReused == Spec => []NumbersNotReused
BY SpecGInv, PTL DEF GInv

-----------------------------------------------------------------------------
(* Rows left SYNCING, as long as the guard retries nothing by hand *)

LEMMA FirstIsIn ==
    ASSUME seq \in [Mutations -> Nat], NEW S \in SUBSET Mutations, S # {}
    PROVE  First(S) \in S
<1> DEFINE Given == {seq[m] : m \in S}
<1>1. PICK i \in Given : \A j \in Given : i <= j
  <2>1. Given \in SUBSET Nat /\ Given # {}
    OBVIOUS
  <2> HIDE DEF Given
  <2> QED
    BY <2>1, Least
<1>2. \E m \in S : \A n \in S : seq[m] <= seq[n]
  BY <1>1
<1> QED
  BY <1>2 DEF First

\* The rows that are SYNCING are those the loop holds, and all it is to settle
\* are: nothing changes a row under the loop's hands.
InHand ==
    /\ retrying = {}
    /\ \A m \in Mutations : status[m] = "SYNCING" =>
         \/ pc \in {"reread", "wait"} /\ m \in work
         \/ pc \in {"apply", "failAll"} /\ m \in todo
    /\ pc = "wait" => \A m \in work : status[m] = "SYNCING"
    /\ pc \in {"apply", "failAll"} => \A m \in todo : status[m] = "SYNCING"

LEMMA NextInHand == ASSUME Tapped = {}, GInv, InHand, [Next]_vars PROVE InHand'
<1> USE Known
<1> USE DEF TypeOK
<1>1. \/ UNCHANGED <<status, pc, work, todo, retrying>>
      \/ (\E m \in Mutations : Enqueue(m)) \/ Restart \/ SyncStep
  <2>1. CASE UNCHANGED vars
    BY <2>1 DEF vars, queue, sync
  <2>2. CASE GuardStep
    <3>1. ASSUME NEW m \in Mutations, RetryRead(m) \/ RetryWrite(m) PROVE FALSE
      BY <3>1 DEF RetryRead, RetryWrite, InHand
    <3>2. ASSUME NEW m \in Mutations, BackoffElapses(m) PROVE UNCHANGED <<status, pc, work, todo, retrying>>
      BY <3>2 DEF BackoffElapses, sync
    <3>3. ASSUME NEW g \in Gates, SelectGate(g) \/ LeaseExpires(g) PROVE UNCHANGED <<status, pc, work, todo, retrying>>
      BY <3>3 DEF SelectGate, LeaseExpires, queue, sync
    <3>4. ASSUME NEW byHand \in BOOLEAN,
                 SnapshotIssued(byHand) \/ SnapshotStored \/ SnapshotLost \/ Reconnect \/ RefreshSkipped
          PROVE  UNCHANGED <<status, pc, work, todo, retrying>>
      BY <3>4 DEF SnapshotIssued, SnapshotStored, SnapshotLost, Reconnect, RefreshSkipped, queue, sync
    <3> QED
      BY <2>2, <3>1, <3>2, <3>3, <3>4 DEF GuardStep
  <2>3. CASE ServerStep
    <3>1. ASSUME NEW b, NEW n, ServerProcesses(b, n) PROVE UNCHANGED <<status, pc, work, todo, retrying>>
      BY <3>1 DEF ServerProcesses, queue
    <3>2. ASSUME NEW b, NEW m, BatchLost(b) \/ RecordChanges(m) \/ DeviceRevoked
          PROVE  UNCHANGED <<status, pc, work, todo, retrying>>
      BY <3>2 DEF BatchLost, RecordChanges, DeviceRevoked, queue, sync
    <3> QED
      BY <2>3, <3>1, <3>2 DEF ServerStep
  <2> QED
    BY <2>1, <2>2, <2>3 DEF Next
<1>2. CASE UNCHANGED <<status, pc, work, todo, retrying>>
  BY <1>2 DEF InHand
<1>3. ASSUME NEW m \in Mutations, Enqueue(m) PROVE InHand'
  <2>1. /\ seq[m] = 0 /\ status' = [status EXCEPT ![m] = "LOCAL_PENDING"]
        /\ UNCHANGED <<pc, work, todo, retrying>>
    BY <1>3 DEF Enqueue, sync
  <2>2. m \notin work /\ m \notin todo
    BY <2>1
  <2> QED
    BY <2>1, <2>2 DEF InHand
<1>4. CASE Restart
  BY <1>4 DEF Restart, InHand
<1>5. CASE SyncStep
  <2>1. CASE SelectReady
    <3>1. pc \in {"idle", "select"} /\ pc' = "mark" /\ UNCHANGED <<status, todo, retrying>>
      BY <2>1 DEF SelectReady, queue
    <3> QED
      BY <3>1 DEF InHand
  <2>2. CASE SyncEnds
    BY <2>2 DEF SyncEnds, queue, InHand
  <2>3. CASE MarkSyncing
    BY <2>3 DEF MarkSyncing, InHand
  <2>4. CASE SendBatch
    BY <2>4 DEF SendBatch, queue, InHand
  <2>5. CASE ReceiveAnswer \/ RequestFails \/ RequestRefused
    <3>1. pc = "wait" /\ pc' \in {"apply", "failAll"} /\ todo' = work /\ UNCHANGED <<status, work, retrying>>
      BY <2>5 DEF ReceiveAnswer, RequestFails, RequestRefused, AllFail, queue
    <3> QED
      BY <3>1 DEF InHand
  <2>6. CASE DeviceDisowned
    <3>1. pc' = "idle" /\ retrying' = retrying /\ status' = [m \in Mutations |-> "ABSENT"]
      BY <2>6 DEF DeviceDisowned
    <3> QED
      BY <3>1 DEF InHand
  <2>7. CASE ApplyResult
    <3>1. PICK m \in todo : m = First(todo)
      BY <2>7, FirstIsIn DEF ApplyResult, Numbers
    <3>2. status[m] = "SYNCING" /\ pc \in {"apply", "failAll"} /\ m \in Mutations
      BY <2>7, <3>1 DEF ApplyResult, InHand
    <3>3. /\ status' = [status EXCEPT ![m] = ResultStatus(answer[m])]
          /\ todo' = todo \ {m} /\ UNCHANGED <<pc, work, retrying>>
      BY <2>7, <3>1, <3>2 DEF ApplyResult
    <3>4. ResultStatus(answer[m]) # "SYNCING"
      BY DEF ResultStatus
    <3> QED
      BY <3>2, <3>3, <3>4 DEF InHand
  <2>8. CASE BatchDone
    BY <2>8 DEF BatchDone, queue, InHand
  <2> QED
    BY <1>5, <2>1, <2>2, <2>3, <2>4, <2>5, <2>6, <2>7, <2>8 DEF SyncStep
<1> QED
  BY <1>1, <1>2, <1>3, <1>4, <1>5

\* Between two synchronizations no row is left SYNCING, unless the guard's own
\* retry writes to a row the loop holds.
THEOREM SpecNoneLeftSyncing == ASSUME Tapped = {} PROVE Spec => []NoneLeftSyncing
<1>1. Init => InHand
  BY DEF Init, InHand
<1>2. GInv /\ InHand /\ [Next]_vars => InHand'
  BY NextInHand
<1>3. InHand => NoneLeftSyncing
  BY DEF InHand, NoneLeftSyncing
<1> QED
  BY <1>1, <1>2, <1>3, SpecGInv, PTL DEF Spec

-----------------------------------------------------------------------------
(* The order in which the actions of one gate take effect *)

\* What took effect is what the device's number has passed, all of it; and as
\* long as the device may record, the next number is beyond that.
InSequence ==
    /\ \A m \in Mutations : m \in applied <=> seq[m] > 0 /\ seq[m] <= lastAccepted
    /\ active => \A g \in Gates : lastAccepted < nextSeq[g]

\* Steps that neither give nor accept a number.
LEMMA SequenceFrame ==
    ASSUME GInv, InSequence, UNCHANGED <<seq, lastAccepted, applied>>, active' => active,
           active => \A g \in Gates : nextSeq[g] <= nextSeq'[g] /\ nextSeq'[g] \in Nat
    PROVE  InSequence'
BY Known DEF InSequence, TypeOK

\* The induction over a batch: at each place, what took effect before the
\* batch or was accepted in it is what the number has passed.
LEMMA RunInSequence ==
    ASSUME GInv, InSequence, NEW gate, Gates = {gate},
           NEW n \in Nat, NEW item \in [1..n -> Mutations], NEW last, Run(last, item, n)
    PROVE  /\ \A m \in Mutations :
                (m \in applied \/ \E k \in 1..n : item[k] = m /\ Accepts(m, last[k-1]))
                  <=> seq[m] > 0 /\ seq[m] <= last[n]
           /\ active => last[n] < nextSeq[gate]
<1> USE Known
<1> DEFINE Taken(i, m) == m \in applied \/ \E k \in 1..i : item[k] = m /\ Accepts(m, last[k-1])
           A == {i \in 0..n : /\ \A m \in Mutations : Taken(i, m) <=> seq[m] > 0 /\ seq[m] <= last[i]
                              /\ active => last[i] < nextSeq[gate]}
<1>1. 0 \in A
  <2>1. last[0] = lastAccepted /\ \A m : Taken(0, m) <=> m \in applied
    BY RunSteps
  <2> HIDE DEF Taken
  <2> QED
    BY <2>1 DEF InSequence
<1>2. ASSUME NEW i \in 0..n, i \in A, i < n PROVE i + 1 \in A
  <2>1. i + 1 \in 1..n /\ i + 1 \in 0..n /\ (i + 1) - 1 = i
        /\ \A k : k \in 1..(i+1) <=> k \in 1..i \/ k = i + 1
    BY <1>2
  <2>2. PICK x \in Mutations : x = item[i+1]
    BY <2>1
  <2>3. /\ last[i+1] = IF Accepts(x, last[i]) THEN seq[x] ELSE last[i]
        /\ Accepts(x, last[i]) => seq[x] = last[i] + 1
    <3>1. PICK j \in 1..n : j = i + 1 /\ j - 1 = i
      BY <2>1
    <3>2. Run(last, item, n) /\ item[j] = x
      BY <2>2, <3>1
    <3> HIDE DEF Taken, A, Run
    <3>3. /\ last[j] = IF Accepts(item[j], last[j-1]) THEN seq[item[j]] ELSE last[j-1]
          /\ Accepts(item[j], last[j-1]) => seq[item[j]] = last[j-1] + 1
      BY <3>2, RunSteps
    <3> QED
      BY <3>1, <3>2, <3>3
  <2>4. last[i] \in Nat
    BY RunBounded
  <2>5. \A m : Taken(i+1, m) <=> Taken(i, m) \/ (m = x /\ Accepts(x, last[i]))
    BY <2>1, <2>2
  <2>6. \A m \in Mutations : Taken(i, m) <=> seq[m] > 0 /\ seq[m] <= last[i]
    BY <1>2 DEF A
  <2>7. seq \in [Mutations -> Nat] /\ home[x] = gate /\ nextSeq[gate] \in Nat
        /\ \A m \in Mutations : seq[m] > 0 /\ m # x => seq[m] # seq[x]
    BY DEF GInv, NumbersNotReused, TypeOK, Numbers
  <2>8. active => (seq[x] > 0 => seq[x] < nextSeq[gate])
    BY <2>7 DEF GInv, Counted
  <2> HIDE DEF Taken, A
  <2>9. \A m \in Mutations : Taken(i+1, m) <=> seq[m] > 0 /\ seq[m] <= last[i+1]
    BY <2>3, <2>4, <2>5, <2>6, <2>7
  <2>10. active => last[i+1] < nextSeq[gate]
    BY <1>2, <2>3, <2>4, <2>8 DEF A
  <2> QED
    BY <2>1, <2>9, <2>10 DEF A
<1>3. n \in A
  <2>1. n \in 0..n
    OBVIOUS
  <2> HIDE DEF A
  <2> QED
    BY <1>1, <1>2, <2>1, Induction
<1> QED
  BY <1>3

LEMMA NextInSequence ==
    ASSUME NEW gate, Gates = {gate}, GInv, GInv', InSequence, [Next]_vars
    PROVE  InSequence'
<1> USE Known
<1> DEFINE Still == UNCHANGED <<seq, lastAccepted, applied>> /\ (active' => active)
           Counter == active => \A g \in Gates : nextSeq[g] <= nextSeq'[g] /\ nextSeq'[g] \in Nat
<1>1. nextSeq' = nextSeq => Counter
  BY DEF TypeOK
<1>2. CASE UNCHANGED vars
  BY <1>1, <1>2, SequenceFrame DEF vars, queue, leases, session, server
<1>3. CASE GuardStep
  <2>1. ASSUME NEW m \in Mutations, Enqueue(m) PROVE InSequence'
    <3>1. PICK i : i = Larger(nextSeq[gate], leaseLast[gate] + 1)
      OBVIOUS
    <3>2. /\ seq' = [seq EXCEPT ![m] = i] /\ nextSeq' = [nextSeq EXCEPT ![gate] = i + 1]
          /\ seq[m] = 0 /\ active /\ UNCHANGED <<lastAccepted, applied, active>>
      BY <2>1, <3>1 DEF Enqueue, TypeOK, server, session
    <3>3. /\ nextSeq[gate] <= i /\ i \in Nat /\ nextSeq[gate] \in Nat
      BY <3>1 DEF Larger, TypeOK, Numbers
    <3>4. lastAccepted < i /\ i > 0
      BY <3>2, <3>3 DEF InSequence
    <3>5. /\ \A x \in Mutations : seq'[x] = IF x = m THEN i ELSE seq[x]
          /\ nextSeq'[gate] = i + 1
      BY <3>2 DEF TypeOK
    <3>6. m \notin applied
      BY <3>2 DEF InSequence
    <3> QED
      BY <3>2, <3>3, <3>4, <3>5, <3>6 DEF InSequence
  <2>2. ASSUME SnapshotStored PROVE InSequence'
    <3>1. PICK i \in Numbers : nextSeq' = [nextSeq EXCEPT ![gate] = Larger(nextSeq[gate], i + 1)]
      <4>1. snapshot.gate = gate /\ snapshot.last \in Numbers
        BY <2>2 DEF SnapshotStored, TypeOK, NoSnapshot
      <4> QED
        BY <2>2, <4>1 DEF SnapshotStored
    <3>2. Counter
      BY <3>1 DEF Larger, TypeOK, Numbers
    <3>3. Still
      BY <2>2 DEF SnapshotStored, queue, session, server
    <3> QED
      BY <3>2, <3>3, SequenceFrame
  <2>3. ASSUME NEW m \in Mutations, RetryRead(m) \/ RetryWrite(m) \/ BackoffElapses(m) PROVE InSequence'
    <3>1. Still /\ UNCHANGED nextSeq
      BY <2>3 DEF RetryRead, RetryWrite, BackoffElapses, queue, leases, session, server
    <3> QED
      BY <1>1, <3>1, SequenceFrame
  <2>4. ASSUME NEW g, NEW byHand,
               \/ SelectGate(g) \/ LeaseExpires(g) \/ Restart \/ Reconnect \/ RefreshSkipped
               \/ SnapshotIssued(byHand) \/ SnapshotLost
        PROVE  InSequence'
    <3>1. Still /\ UNCHANGED nextSeq
      BY <2>4 DEF SelectGate, LeaseExpires, Restart, Reconnect, RefreshSkipped, SnapshotIssued, SnapshotLost,
                  queue, leases, session, server
    <3> QED
      BY <1>1, <3>1, SequenceFrame
  <2> QED
    BY <1>3, <2>1, <2>2, <2>3, <2>4 DEF GuardStep
<1>4. CASE SyncStep
  <2>1. CASE DeviceDisowned
    <3>1. Still /\ ~active'
      BY <2>1 DEF DeviceDisowned, server
    <3> QED
      BY <3>1 DEF InSequence
  <2>2. CASE \/ SelectReady \/ SyncEnds \/ MarkSyncing \/ SendBatch \/ ReceiveAnswer
             \/ RequestFails \/ RequestRefused \/ ApplyResult \/ BatchDone
    <3>1. Still /\ UNCHANGED nextSeq
      BY <2>2 DEF SelectReady, SyncEnds, MarkSyncing, SendBatch, ReceiveAnswer, RequestFails,
                  RequestRefused, ApplyResult, BatchDone, queue, leases, session, server
    <3> QED
      BY <1>1, <3>1, SequenceFrame
  <2> QED
    BY <1>4, <2>1, <2>2 DEF SyncStep
<1>5. CASE ServerStep
  <2>1. ASSUME NEW b \in net, NEW n \in Numbers, ServerProcesses(b, n) PROVE InSequence'
    <3>1. n \in Nat /\ b \in SUBSET Mutations /\ seq \in [Mutations -> Nat]
      BY DEF TypeOK, Numbers
    <3>2. DistinctNumbers(b)
      BY <3>1 DEF DistinctNumbers, GInv, NumbersNotReused, OfOneGate
    <3>3. PICK item, last :
            /\ item \in [1..n -> b]
            /\ Run(last, item, n)
            /\ lastAccepted' = last[n]
            /\ applied' = applied \cup {item[k] : k \in {i \in 1..n : Accepts(item[i], last[i-1])}}
      BY <2>1, <3>1, <3>2, ServerRuns
    <3>4. item \in [1..n -> Mutations]
      BY <3>1, <3>3
    <3>5. \A m \in Mutations :
             m \in applied' <=> m \in applied \/ \E k \in 1..n : item[k] = m /\ Accepts(m, last[k-1])
      BY <3>3
    <3>6. UNCHANGED <<seq, nextSeq, active>>
      BY <2>1 DEF ServerProcesses, queue, leases, session
    <3>7. /\ \A m \in Mutations :
                (m \in applied \/ \E k \in 1..n : item[k] = m /\ Accepts(m, last[k-1]))
                  <=> seq[m] > 0 /\ seq[m] <= last[n]
          /\ active => last[n] < nextSeq[gate]
      BY <3>1, <3>3, <3>4, RunInSequence
    <3> QED
      BY <3>3, <3>5, <3>6, <3>7 DEF InSequence
  <2>2. ASSUME NEW b, NEW m, BatchLost(b) \/ RecordChanges(m) \/ DeviceRevoked PROVE InSequence'
    <3>1. Still /\ UNCHANGED nextSeq
      BY <2>2 DEF BatchLost, RecordChanges, DeviceRevoked, queue, leases, session, server
    <3> QED
      BY <1>1, <3>1, SequenceFrame
  <2> QED
    BY <1>5, <2>1, <2>2 DEF ServerStep
<1> QED
  BY <1>2, <1>3, <1>4, <1>5 DEF Next

\* On a device of one gate, actions take effect in the order the guard
\* recorded them and none is passed over.
THEOREM SpecAppliedInOrder ==
    ASSUME NEW gate, Gates = {gate} PROVE Spec => []AppliedInOrder
<1>1. Init => InSequence
  BY DEF Init, InSequence
<1>2. GInv /\ GInv' /\ InSequence /\ [Next]_vars => InSequence'
  BY NextInSequence
<1>3. GInv /\ InSequence => AppliedInOrder
  BY Known DEF InSequence, AppliedInOrder, TypeOK, Numbers
<1> QED
  BY <1>1, <1>2, <1>3, SpecGInv, PTL DEF Spec
=============================================================================
