---------------------------- MODULE ServiceProofs ---------------------------
(***************************************************************************)
(* Theorems about the API's operations and the worker's other jobs, for    *)
(* any requests, keys, limits, files, workers.  The mutation journal: the  *)
(* holder of a row is the only one that can complete its record, and every *)
(* later request is answered from it.  The sign-ins: a transaction that is *)
(* still open when it decides has seen the account as it is, because every *)
(* other commit dooms it.  The file jobs: what a step needs of the row was *)
(* true when the worker got there, and FInv says what of it cannot change. *)
(* The two senders of a sign-in code: an attempt below the current one has *)
(* a row, so the outcome of an old one finds its place taken.              *)
(***************************************************************************)
EXTENDS Journal, SignIn, FileJobs, OtpDelivery, FiniteSetTheorems, SequenceTheorems, TLAPS

-----------------------------------------------------------------------------
(* The journal *)

Entry == [id : Nat, prev : Nat, key : Keys]
Answers == Bodies \cup {"none", "IDEMPOTENCY_KEY_REUSED"}
Request == [key : Keys, body : Bodies, phase : Phases, seenLength : Nat,
            seenRecord : Bodies \cup {Nobody}, head : Nat, sends : 0..MaxSends, answer : Answers]

\* The types of JournalTypeOK, of every variable.
JTypes ==
    /\ chain \in Seq(Entry)
    /\ record \in [Keys -> Bodies \cup {Nobody}]
    /\ request \in [Requests -> Request]
    /\ applied \in Seq(Keys \X Bodies)

\* The record of a key says what took effect under it.
RecordsEffects ==
    /\ \A i \in DOMAIN applied : record[applied[i][1]] = applied[i][2]
    /\ \A k \in Keys : record[k] # Nobody => \E i \in DOMAIN applied : applied[i] = <<k, record[k]>>

\* One transaction at a time holds the row of a key, and only while the key has not taken effect.
RowExclusive ==
    \A r \in Requests : HoldsRow(r) =>
      /\ record[request[r].key] = Nobody
      /\ \A s \in Requests : HoldsRow(s) /\ request[s].key = request[r].key => s = r

\* Whoever was told a body was told the record's, which is its own.
AnswersFromRecord ==
    \A r \in Requests :
      request[r].answer \in Bodies =>
        request[r].answer = request[r].body /\ record[request[r].key] = request[r].body

\* A snapshot is of a chain that was.
SnapshotsPast == \A r \in Requests : request[r].seenLength <= Len(chain)

EffectsOnce == \A i, j \in DOMAIN applied : applied[i][1] = applied[j][1] => i = j

JInv == JTypes /\ RecordsEffects /\ RowExclusive /\ AnswersFromRecord /\ SnapshotsPast /\ EffectsOnce

USE BodiesAreBodies, MaxSendsNatural

-----------------------------------------------------------------------------
LEMMA InitJInv == JournalInit => JInv
<1> SUFFICES ASSUME JournalInit PROVE JInv
  OBVIOUS
<1>1. JTypes
  BY DEF JournalInit, JTypes, Request, Idle, Phases, Nobody, Answers
<1> QED
  BY <1>1 DEF JournalInit, JInv, RecordsEffects, RowExclusive, HoldsRow, AnswersFromRecord, SnapshotsPast,
     EffectsOnce, Idle, Nobody, Answers

\* A request in one of its states.
LEMMA StateTyped ==
    ASSUME JTypes, NEW r \in Requests, NEW x \in Request, request' = [request EXCEPT ![r] = x]
    PROVE  request' \in [Requests -> Request]
BY DEF JTypes

\* A request that only changes its own state, takes no row and is told nothing new.
LEMMA SendStep == ASSUME JInv, NEW r \in Requests, Send(r) PROVE JInv'
<1> USE DEF JInv, Send
<1>1. JTypes'
  <2> DEFINE x == [request[r] EXCEPT !.phase = "begun", !.sends = @ + 1, !.seenLength = Len(chain),
                                     !.seenRecord = record[request[r].key]]
  <2>1. request' = [request EXCEPT ![r] = x]
    BY DEF JTypes, Request
  <2>2. request[r].sends + 1 \in 0..MaxSends /\ Len(chain) \in Nat
        /\ record[request[r].key] \in Bodies \cup {Nobody} /\ "begun" \in Phases
    BY DEF JTypes, Request, Phases
  <2>3. x \in Request
    BY <2>2 DEF JTypes, Request
  <2> QED
    BY <2>1, <2>3, StateTyped DEF JTypes
<1>2. RecordsEffects' /\ EffectsOnce'
  BY DEF RecordsEffects, EffectsOnce
<1>3. RowExclusive'
  BY DEF JTypes, Request, RowExclusive, HoldsRow
<1>4. AnswersFromRecord'
  BY DEF JTypes, Request, AnswersFromRecord
<1>5. SnapshotsPast'
  BY DEF JTypes, Request, SnapshotsPast
<1> QED
  BY <1>1, <1>2, <1>3, <1>4, <1>5

LEMMA AbortStep == ASSUME JInv, NEW r \in Requests, AbortMutation(r) PROVE JInv'
<1> USE DEF JInv, AbortMutation, Fail
<1>1. JTypes'
  BY DEF JTypes, Request, Phases
<1>2. RecordsEffects' /\ EffectsOnce'
  BY DEF RecordsEffects, EffectsOnce
<1>3. RowExclusive'
  BY DEF JTypes, Request, RowExclusive, HoldsRow
<1>4. AnswersFromRecord'
  BY DEF JTypes, Request, AnswersFromRecord
<1>5. SnapshotsPast'
  BY DEF JTypes, Request, SnapshotsPast
<1> QED
  BY <1>1, <1>2, <1>3, <1>4, <1>5

LEMMA UpsertStep == ASSUME JInv, NEW r \in Requests, Upsert(r) PROVE JInv'
<1> USE DEF JInv
<1>0. UNCHANGED <<chain, record, applied>> /\ request[r].phase = "begun" /\ RowFree(request[r].key)
  BY DEF Upsert
<1>1. CASE record[request[r].key] = Nobody /\ request' = [request EXCEPT ![r].phase = "execute"]
  <2>1. JTypes'
    <3> DEFINE x == [request[r] EXCEPT !.phase = "execute"]
    <3>1. request[r] \in Request
      BY DEF JTypes
    <3>2. request' = [request EXCEPT ![r] = x]
      BY <1>1 DEF JTypes, Request
    <3>3. x \in Request
      BY <3>1 DEF Request, Phases
    <3> QED
      BY <1>0, <3>2, <3>3, StateTyped DEF JTypes
  <2>2. RecordsEffects' /\ EffectsOnce'
    BY <1>0 DEF RecordsEffects, EffectsOnce
  <2>3. RowExclusive'
    BY <1>0, <1>1 DEF JTypes, Request, RowExclusive, HoldsRow, RowFree
  <2>4. AnswersFromRecord'
    BY <1>0, <1>1 DEF JTypes, Request, AnswersFromRecord
  <2>5. SnapshotsPast'
    BY <1>0, <1>1 DEF JTypes, Request, SnapshotsPast
  <2> QED
    BY <2>1, <2>2, <2>3, <2>4, <2>5
<1>2. CASE Finish(r, StoredAnswer(r)) /\ record[request[r].key] # Nobody
  <2>0. StoredAnswer(r) \in Answers
        /\ (StoredAnswer(r) \in Bodies =>
              StoredAnswer(r) = request[r].body /\ record[request[r].key] = request[r].body)
    BY DEF StoredAnswer, Answers, JTypes, Request
  <2>1. JTypes'
    <3> DEFINE x == [request[r] EXCEPT !.phase = "done", !.answer = StoredAnswer(r)]
    <3>1. request' = [request EXCEPT ![r] = x]
      BY <1>2 DEF JTypes, Request, Finish
    <3>2. request[r] \in Request
      BY DEF JTypes
    <3>3. x \in Request
      BY <2>0, <3>2 DEF Request, Phases
    <3> QED
      BY <1>0, <3>1, <3>3, StateTyped DEF JTypes
  <2>2. RecordsEffects' /\ EffectsOnce'
    BY <1>0 DEF RecordsEffects, EffectsOnce
  <2>3. RowExclusive'
    BY <1>0, <1>2 DEF JTypes, Request, RowExclusive, HoldsRow, Finish
  <2>4. AnswersFromRecord'
    BY <1>0, <1>2, <2>0 DEF JTypes, Request, AnswersFromRecord, Finish
  <2>5. SnapshotsPast'
    BY <1>0, <1>2 DEF JTypes, Request, SnapshotsPast, Finish
  <2> QED
    BY <2>1, <2>2, <2>3, <2>4, <2>5
<1>3. CASE Fail(r)
  <2>1. JTypes'
    BY <1>0, <1>3 DEF JTypes, Request, Phases, Fail
  <2>2. RecordsEffects' /\ EffectsOnce'
    BY <1>0 DEF RecordsEffects, EffectsOnce
  <2>3. RowExclusive'
    BY <1>0, <1>3 DEF JTypes, Request, RowExclusive, HoldsRow, Fail
  <2>4. AnswersFromRecord'
    BY <1>0, <1>3 DEF JTypes, Request, AnswersFromRecord, Fail
  <2>5. SnapshotsPast'
    BY <1>0, <1>3 DEF JTypes, Request, SnapshotsPast, Fail
  <2> QED
    BY <2>1, <2>2, <2>3, <2>4, <2>5
<1> QED
  BY <1>1, <1>2, <1>3 DEF Upsert

LEMMA LastIdTyped == ASSUME NEW c \in Seq(Entry) PROVE LastId(c) \in Nat
<1>1. CASE c = <<>>
  BY <1>1 DEF LastId
<1>2. CASE c # <<>>
  <2>1. Len(c) \in 1..Len(c)
    BY <1>2, EmptySeq
  <2>2. c[Len(c)] \in Entry
    BY <2>1, ElementOfSeq
  <2> QED
    BY <1>2, <2>2 DEF LastId, Entry
<1> QED
  BY <1>1, <1>2

LEMMA LockChainStep == ASSUME JInv, NEW r \in Requests, LockChain(r) PROVE JInv'
<1> DEFINE visible == IF Serializable(r) THEN SubSeq(chain, 1, request[r].seenLength) ELSE chain
<1>0. /\ request[r].phase = "execute" /\ UNCHANGED <<chain, record, applied>>
      /\ request' = [request EXCEPT ![r].phase = "audit", ![r].head = LastId(visible)]
  BY DEF LockChain
<1>1. LastId(visible) \in Nat
  <2>1. request[r].seenLength \in Nat /\ request[r].seenLength <= Len(chain) /\ chain \in Seq(Entry)
    BY DEF JInv, JTypes, Request, SnapshotsPast
  <2>2. \A i \in 1..request[r].seenLength : chain[i] \in Entry
    BY <2>1, ElementOfSeq
  <2>3. SubSeq(chain, 1, request[r].seenLength) \in Seq(Entry)
    BY <2>1, <2>2, SubSeqProperties
  <2> QED
    BY <2>1, <2>3, LastIdTyped
<1> HIDE DEF visible
<1> USE DEF JInv
<1>2. JTypes'
  <2> DEFINE x == [request[r] EXCEPT !.phase = "audit", !.head = LastId(visible)]
  <2>1. request' = [request EXCEPT ![r] = x]
    BY <1>0 DEF JTypes, Request
  <2>2. x \in Request
    BY <1>1 DEF JTypes, Request, Phases
  <2> QED
    BY <1>0, <2>1, <2>2, StateTyped DEF JTypes
<1>3. RecordsEffects' /\ EffectsOnce'
  BY <1>0 DEF RecordsEffects, EffectsOnce
<1>4. RowExclusive'
  BY <1>0 DEF JTypes, Request, RowExclusive, HoldsRow
<1>5. AnswersFromRecord'
  BY <1>0 DEF JTypes, Request, AnswersFromRecord
<1>6. SnapshotsPast'
  BY <1>0 DEF JTypes, Request, SnapshotsPast
<1> QED
  BY <1>2, <1>3, <1>4, <1>5, <1>6

\* The holder of the row completes the record: the key had not taken effect and nobody else holds it.
LEMMA CommitStep == ASSUME JInv, NEW r \in Requests, CommitMutation(r) PROVE JInv'
<1> DEFINE k == request[r].key
           b == request[r].body
<1> USE DEF JInv
<1>0. /\ request[r].phase = "audit"
      /\ chain' = Append(chain, [id |-> Len(chain) + 1, prev |-> request[r].head, key |-> k])
      /\ record' = [record EXCEPT ![k] = b]
      /\ applied' = Append(applied, <<k, b>>)
      /\ Finish(r, b) \/ Fail(r)
  BY DEF CommitMutation
<1>1. k \in Keys /\ b \in Bodies /\ request[r].head \in Nat
  BY DEF JTypes, Request
<1>2. PICK phase \in {"done", "failed"}, answer \in {b, request[r].answer} :
        /\ request' = [request EXCEPT ![r].phase = phase, ![r].answer = answer]
  <2>1. CASE Finish(r, b)
    BY <2>1 DEF Finish
  <2>2. CASE Fail(r)
    <3>1. request' = [request EXCEPT ![r].phase = "failed", ![r].answer = request[r].answer]
      BY <2>2 DEF Fail, JTypes, Request
    <3> QED
      BY <3>1
  <2> QED
    BY <1>0, <2>1, <2>2
<1>3. JTypes'
  <2>1. chain' \in Seq(Entry) /\ applied' \in Seq(Keys \X Bodies)
    BY <1>0, <1>1 DEF JTypes, Entry
  <2> DEFINE x == [request[r] EXCEPT !.phase = phase, !.answer = answer]
  <2>2. request' = [request EXCEPT ![r] = x] /\ answer \in Answers
    BY <1>1, <1>2 DEF JTypes, Request, Answers
  <2>3. x \in Request
    BY <2>2 DEF JTypes, Request, Phases
  <2>4. request' \in [Requests -> Request]
    BY <2>2, <2>3, StateTyped
  <2> QED
    BY <1>0, <1>1, <2>1, <2>4 DEF JTypes
<1>4. record[k] = Nobody /\ \A i \in DOMAIN applied : applied[i][1] # k
  BY <1>0, <1>1 DEF RowExclusive, HoldsRow, RecordsEffects, JTypes, Nobody
<1>5. /\ DOMAIN applied' = DOMAIN applied \cup {Len(applied) + 1}
      /\ Len(applied) + 1 \notin DOMAIN applied
      /\ applied'[Len(applied) + 1] = <<k, b>>
      /\ \A i \in DOMAIN applied : applied'[i] = applied[i] /\ applied[i] \in Keys \X Bodies
  BY <1>0, <1>1 DEF JTypes
<1>6. RecordsEffects'
  <2>1. ASSUME NEW i \in DOMAIN applied' PROVE record'[applied'[i][1]] = applied'[i][2]
    BY <1>0, <1>1, <1>4, <1>5, <2>1 DEF RecordsEffects, JTypes
  <2>2. ASSUME NEW x \in Keys, record'[x] # Nobody
        PROVE  \E i \in DOMAIN applied' : applied'[i] = <<x, record'[x]>>
    <3>1. CASE x = k
      BY <1>0, <1>1, <1>5, <3>1 DEF JTypes
    <3>2. CASE x # k
      <4>1. record'[x] = record[x]
        BY <1>0, <3>2 DEF JTypes
      <4>2. PICK i \in DOMAIN applied : applied[i] = <<x, record[x]>>
        BY <2>2, <4>1 DEF RecordsEffects
      <4> QED
        BY <1>5, <4>1, <4>2
    <3> QED
      BY <3>1, <3>2
  <2> QED
    BY <2>1, <2>2 DEF RecordsEffects
<1>7. RowExclusive'
  BY <1>0, <1>1, <1>2 DEF JTypes, Request, RowExclusive, HoldsRow
<1>8. AnswersFromRecord'
  BY <1>0, <1>1, <1>2, <1>4 DEF JTypes, Request, AnswersFromRecord, Nobody
<1>9. EffectsOnce'
  BY <1>4, <1>5 DEF EffectsOnce
<1>10. SnapshotsPast'
  <2>1. Len(chain') = Len(chain) + 1
    BY <1>0 DEF JTypes
  <2> QED
    BY <1>2, <2>1 DEF JTypes, Request, SnapshotsPast
<1> QED
  BY <1>3, <1>6, <1>7, <1>8, <1>9, <1>10

LEMMA NextJInv == JInv /\ [JournalNext]_journalVars => JInv'
<1>1. ASSUME JInv, UNCHANGED journalVars PROVE JInv'
  BY <1>1 DEF journalVars, JInv, JTypes, RecordsEffects, RowExclusive, HoldsRow, AnswersFromRecord,
     SnapshotsPast, EffectsOnce
<1> QED
  BY <1>1, SendStep, UpsertStep, LockChainStep, CommitStep, AbortStep DEF JournalNext

LEMMA SpecJInv == JournalSpec => []JInv
<1> QED
  BY InitJInv, NextJInv, PTL DEF JournalSpec

\* A key takes effect at most once, whatever is sent again, overtaken or lost, and in whatever
\* isolation its operation runs; an answer that is not a refusal is that of its own effect.
THEOREM SpecOneEffectPerKey == JournalSpec => []OneEffectPerKey
<1>1. JInv => OneEffectPerKey
  BY DEF JInv, JTypes, Request, RecordsEffects, AnswersFromRecord, EffectsOnce, OneEffectPerKey, Nobody
<1> QED
  BY <1>1, SpecJInv, PTL

-----------------------------------------------------------------------------
(* The audit chain *)

\* The id of the n-th entry, 0 before the first.
IdAt(c, n) == IF n = 0 THEN 0 ELSE c[n].id

LEMMA LastOfPrefix ==
    ASSUME NEW c \in Seq(Entry), NEW n \in 0..Len(c)
    PROVE  LastId(SubSeq(c, 1, n)) = IdAt(c, n)
<1>1. \A i \in 1..n : c[i] \in Entry
  BY ElementOfSeq
<1>2. /\ SubSeq(c, 1, n) \in Seq(Entry)
      /\ Len(SubSeq(c, 1, n)) = n
      /\ \A i \in 1..n : SubSeq(c, 1, n)[i] = c[i]
  BY <1>1, SubSeqProperties
<1>3. CASE n = 0
  BY <1>2, <1>3, EmptySeq DEF LastId, IdAt
<1>4. CASE n # 0
  BY <1>2, <1>4, EmptySeq DEF LastId, IdAt
<1> QED
  BY <1>3, <1>4

LEMMA LastOfAll == ASSUME NEW c \in Seq(Entry) PROVE LastId(c) = IdAt(c, Len(c))
<1>1. c = <<>> <=> Len(c) = 0
  BY EmptySeq
<1> QED
  BY <1>1 DEF LastId, IdAt

\* The advisory lock: one transaction at a time is between its read of the chain and its end.
LockExclusive == \A r, s \in Requests : request[r].phase = "audit" /\ request[s].phase = "audit" => r = s

\* What it read is the newest entry of its snapshot; READ COMMITTED, the newest there is.
HeadRead ==
    \A r \in Requests : request[r].phase = "audit" =>
      request[r].head = IdAt(chain, IF Serializable(r) THEN request[r].seenLength ELSE Len(chain))

\* An entry names the one before it, unless that one is of an operation that runs READ COMMITTED.
ForksFollowRelaxed ==
    \A i \in DOMAIN chain :
      \/ chain[i].prev = LastId(SubSeq(chain, 1, i - 1))
      \/ i > 1 /\ chain[i - 1].key \in Relaxed

CInv == JInv /\ LockExclusive /\ HeadRead /\ ForksFollowRelaxed

\* A step that leaves the chain alone and does not enter the audit phase.
LEMMA ChainLeft ==
    ASSUME CInv, UNCHANGED chain,
           \A r \in Requests : request'[r].phase = "audit" => request'[r] = request[r]
    PROVE  LockExclusive' /\ HeadRead' /\ ForksFollowRelaxed'
BY DEF CInv, LockExclusive, HeadRead, ForksFollowRelaxed, Serializable

LEMMA LockChainRead ==
    ASSUME CInv, NEW r \in Requests, LockChain(r)
    PROVE  LockExclusive' /\ HeadRead' /\ ForksFollowRelaxed'
<1> DEFINE n == IF Serializable(r) THEN request[r].seenLength ELSE Len(chain)
           visible == IF Serializable(r) THEN SubSeq(chain, 1, request[r].seenLength) ELSE chain
<1>1. LastId(visible) = IdAt(chain, n)
  <2>1. chain \in Seq(Entry) /\ request[r].seenLength \in 0..Len(chain)
    BY DEF CInv, JInv, JTypes, Request, SnapshotsPast
  <2> QED
    BY <2>1, LastOfPrefix, LastOfAll
<1>2. /\ UNCHANGED chain /\ ChainFree
      /\ request' = [request EXCEPT ![r].phase = "audit", ![r].head = LastId(visible)]
  BY DEF LockChain
<1> HIDE DEF visible
<1>3. \A s \in Requests : request'[s].phase = "audit" => s = r
  BY <1>2 DEF ChainFree, CInv, JInv, JTypes
<1>4. /\ request'[r].head = LastId(visible) /\ request'[r].key = request[r].key
      /\ request'[r].seenLength = request[r].seenLength
  BY <1>2 DEF CInv, JInv, JTypes, Request
<1>5. HeadRead'
  BY <1>1, <1>2, <1>3, <1>4 DEF HeadRead, Serializable
<1> QED
  BY <1>2, <1>3, <1>5 DEF CInv, LockExclusive, ForksFollowRelaxed

\* A SERIALIZABLE transaction commits only if what was appended after its snapshot was READ COMMITTED.
LEMMA CommitLinks ==
    ASSUME CInv, NEW r \in Requests, CommitMutation(r)
    PROVE  LockExclusive' /\ HeadRead' /\ ForksFollowRelaxed'
<1> DEFINE entry == [id |-> Len(chain) + 1, prev |-> request[r].head, key |-> request[r].key]
           n == Len(chain)
<1>1. /\ request[r].phase = "audit" /\ ~ConflictsOnChain(r) /\ chain' = Append(chain, entry)
      /\ \E phase \in {"done", "failed"} : request'[r].phase = phase
      /\ \A s \in Requests \ {r} : request'[s] = request[s]
  BY DEF CommitMutation, Finish, Fail, CInv, JInv, JTypes, Request
<1>2. chain \in Seq(Entry) /\ chain' \in Seq(Entry) /\ n \in Nat
  <2>1. entry \in Entry
    BY DEF CInv, JInv, JTypes, Request, Entry
  <2> QED
    BY <1>1, <2>1 DEF CInv, JInv, JTypes
<1>3. \A s \in Requests : request'[s].phase # "audit"
  BY <1>1 DEF CInv, LockExclusive
<1>4. /\ DOMAIN chain' = 1..(n + 1) /\ Len(chain') = n + 1
      /\ chain'[n + 1] = entry
      /\ \A i \in 1..n : chain'[i] = chain[i]
  BY <1>1, <1>2
<1>5. \A i \in 0..n : IdAt(chain', i) = IdAt(chain, i)
  BY <1>4, <1>2 DEF IdAt
<1>6. entry.prev = IdAt(chain, n) \/ (n > 0 /\ chain[n].key \in Relaxed)
  <2>1. request[r].head = IdAt(chain, IF Serializable(r) THEN request[r].seenLength ELSE n)
    BY <1>1 DEF CInv, HeadRead
  <2>2. request[r].seenLength \in Nat /\ request[r].seenLength <= n
    BY DEF CInv, JInv, JTypes, Request, SnapshotsPast
  <2>3. CASE ~Serializable(r) \/ request[r].seenLength = n
    BY <2>1, <2>3
  <2>4. CASE Serializable(r) /\ request[r].seenLength < n
    <3>1. n \in (request[r].seenLength + 1)..n
      BY <2>2, <2>4, <1>2
    <3> QED
      BY <1>1, <1>2, <2>2, <2>4, <3>1 DEF ConflictsOnChain
  <2> QED
    BY <2>2, <2>3, <2>4, <1>2
<1>7. ASSUME NEW i \in DOMAIN chain'
      PROVE  \/ chain'[i].prev = LastId(SubSeq(chain', 1, i - 1))
             \/ i > 1 /\ chain'[i - 1].key \in Relaxed
  <2>1. i \in 1..(n + 1) /\ i - 1 \in 0..Len(chain') /\ i - 1 \in 0..n
    BY <1>2, <1>4
  <2>2. LastId(SubSeq(chain', 1, i - 1)) = IdAt(chain, i - 1)
    BY <1>2, <1>5, <2>1, LastOfPrefix
  <2>3. CASE i = n + 1
    BY <1>2, <1>4, <1>6, <2>1, <2>2, <2>3
  <2>4. CASE i # n + 1
    <3>1. i \in DOMAIN chain /\ i - 1 \in 0..Len(chain) /\ (i > 1 => i - 1 \in 1..n)
      BY <1>2, <2>1, <2>4
    <3>2. LastId(SubSeq(chain, 1, i - 1)) = IdAt(chain, i - 1)
      BY <1>2, <3>1, LastOfPrefix
    <3>3. chain[i].prev = LastId(SubSeq(chain, 1, i - 1)) \/ (i > 1 /\ chain[i - 1].key \in Relaxed)
      BY <3>1 DEF CInv, ForksFollowRelaxed
    <3> QED
      BY <1>4, <1>2, <2>2, <3>1, <3>2, <3>3
  <2> QED
    BY <2>3, <2>4
<1> QED
  BY <1>3, <1>7 DEF LockExclusive, HeadRead, ForksFollowRelaxed

LEMMA NextCInv == CInv /\ [JournalNext]_journalVars => CInv'
<1> SUFFICES ASSUME CInv, [JournalNext]_journalVars PROVE LockExclusive' /\ HeadRead' /\ ForksFollowRelaxed'
  BY NextJInv DEF CInv
<1>1. ASSUME NEW r \in Requests, Send(r) \/ Upsert(r) \/ AbortMutation(r)
      PROVE  LockExclusive' /\ HeadRead' /\ ForksFollowRelaxed'
  <2>1. UNCHANGED chain
    BY <1>1 DEF Send, Upsert, AbortMutation
  <2>2. \A s \in Requests \ {r} : request'[s] = request[s]
    BY <1>1 DEF Send, Upsert, AbortMutation, Finish, Fail, CInv, JInv, JTypes
  <2>3. request'[r].phase \in {"begun", "execute", "done", "failed"}
    BY <1>1 DEF Send, Upsert, AbortMutation, Finish, Fail, CInv, JInv, JTypes, Request
  <2> QED
    BY <2>1, <2>2, <2>3, ChainLeft
<1>2. CASE UNCHANGED journalVars
  BY <1>2, ChainLeft DEF journalVars
<1> QED
  BY <1>1, <1>2, LockChainRead, CommitLinks DEF JournalNext

LEMMA SpecCInv == JournalSpec => []CInv
<1>1. JournalInit => CInv
  BY InitJInv DEF JournalInit, CInv, LockExclusive, HeadRead, ForksFollowRelaxed, Idle
<1> QED
  BY <1>1, NextCInv, PTL DEF JournalSpec

\* The chain is broken only behind an entry of an operation that runs READ COMMITTED, in the code
\* the internal note alone: the lock and the serialization check keep every other link.
THEOREM SpecForksFollowRelaxed == JournalSpec => []ForksFollowRelaxed
<1>1. CInv => ForksFollowRelaxed
  BY DEF CInv
<1> QED
  BY <1>1, SpecCInv, PTL

\* Were every operation SERIALIZABLE, auditFollowUp would never find a break.
THEOREM SerializableChainUnbroken ==
    ASSUME Relaxed = {}
    PROVE  JournalSpec => []AuditChainUnbroken
<1>1. ForksFollowRelaxed => AuditChainUnbroken
  BY DEF ForksFollowRelaxed, AuditChainUnbroken
<1> QED
  BY <1>1, SpecForksFollowRelaxed, PTL

\* Every variable keeps its type.
THEOREM SpecJournalTypeOK == JournalSpec => []JournalTypeOK
<1>1. JInv => JournalTypeOK
  <2> SUFFICES ASSUME JInv PROVE JournalTypeOK
    OBVIOUS
  <2>1. \A i \in DOMAIN chain : chain[i] \in Entry
    BY ElementOfSeq DEF JInv, JTypes
  <2>2. \A r \in Requests : request[r] \in Request /\ request[r].seenLength \in 0..Len(chain)
    BY DEF JInv, JTypes, SnapshotsPast, Request
  <2> QED
    BY <2>1, <2>2 DEF JournalTypeOK, JInv, JTypes, Entry, Request
<1> QED
  BY <1>1, SpecJInv, PTL

-----------------------------------------------------------------------------
(* The sign-ins *)

ChallengeStatuses == {"PENDING", "VERIFIED", "SUPERSEDED", "LOCKED", "EXPIRED"}
Devices == {"NONE", "PENDING", "ACTIVE", "LOST"}
Factors == {"none", "required", "verified", "missing", "invalid"}

Challenge == [status : ChallengeStatuses, attempts : 0..OtpMaxAttempts, lapsed : BOOLEAN]
Account == [challenges : Seq(Challenge), failures : [Counters -> 0..SubjectLimit], credential : {1, 2},
            mfaEnabled : BOOLEAN, device : Devices, token : {"NONE", "ISSUED"}]

\* A request that has read its candidate; it has a view once its transaction is open.
Under == [stage : {"read", "open"}, right : BOOLEAN, target : Nat, tokenShown : BOOLEAN,
          credential : {1, 2}, step : 0..(MaxStep + 1), mfa : Factors, view : Account \cup {<<>>}]
Doom == [stage |-> "doomed"]

\* The types of SignInTypeOK, of every variable.
SignInTypes ==
    /\ method \in Methods /\ account \in Account
    /\ totpUsed \in 0..(MaxStep + 1) /\ clock \in 1..MaxStep
    /\ call \in [Calls -> Under \cup {Resting, Doom}]
    /\ judged \in [Counters -> Nat]
    /\ granted \in [Proofs -> 0..2]

\* What a transaction sees of the account while no other commits: all but what time alone changes.
Agrees(c) ==
    call[c].stage = "open" =>
      LET view == call[c].view IN
      /\ view \in Account
      /\ view.failures = account.failures /\ view.credential = account.credential
      /\ view.mfaEnabled = account.mfaEnabled /\ view.device = account.device
      /\ Len(view.challenges) = Len(account.challenges)
      /\ \A n \in 1..Len(account.challenges) :
           /\ view.challenges[n].status = account.challenges[n].status
           /\ view.challenges[n].attempts = account.challenges[n].attempts

Judging(c) == call[c].stage \in {"read", "open"}

\* A second factor that still counts, and the steps of the secret it is checked by.
Proved(c) == Judging(c) /\ call[c].mfa = "verified" /\ call[c].credential = account.credential
Live(p) == p.kind = "totp" /\ p.secret = account.credential

\* Nobody holds or spent what is of a credential to come.
VersionsPast ==
    account.credential = 1 =>
      /\ \A c \in Calls : Judging(c) => call[c].credential = 1
      /\ \A p \in Proofs : p.kind = "totp" /\ granted[p] > 0 => p.secret = 1

\* What only some methods have.
OfMethod ==
    /\ method = "otp" =>
         /\ account.credential = 1
         /\ \A c \in Calls : Judging(c) =>
              call[c].credential = 1 /\ call[c].target \in 1..Len(account.challenges)
    /\ method # "admin" => ~account.mfaEnabled

\* A proof that opened a session cannot open another: the challenge is used, the step not later
\* than the last one used, the token gone.
ChallengesSpent ==
    \A p \in Proofs : p.kind = "otp" /\ granted[p] > 0 =>
      p.n \in 1..Len(account.challenges) /\ account.challenges[p.n].status = "VERIFIED"

StepsSpent ==
    /\ \A p \in Proofs : Live(p) /\ granted[p] > 0 => p.n <= totpUsed
    /\ \A c \in Calls : Proved(c) =>
         /\ call[c].step \in 1..totpUsed
         /\ \A p \in Proofs : Live(p) /\ p.n = call[c].step => granted[p] = 0
         /\ \A d \in Calls : Proved(d) /\ call[d].step = call[c].step => d = c

TokenSpent == account.token = "ISSUED" => granted[[kind |-> "token", n |-> 1]] = 0

JudgedCounted == \A k \in Counters : judged[k] <= account.failures[k]

SInv ==
    /\ SignInTypes /\ OfMethod /\ JudgedCounted
    /\ \A c \in Calls : Agrees(c)
    /\ VersionsPast /\ ChallengesSpent /\ StepsSpent /\ TokenSpent /\ ProofsSpentOnce
    /\ SessionOnLiveCredential

USE LimitsNatural

-----------------------------------------------------------------------------
(* Calls *)

LEMMA Stages ==
    /\ Resting.stage = "idle" /\ Doom.stage = "doomed"
    /\ \A r \in Under : r.stage \in {"read", "open"}
BY DEF Resting, Doom, Under

\* Whoever is judging has the fields of a request under way.
LEMMA JudgingTyped ==
    ASSUME SignInTypes, NEW c \in Calls, Judging(c)
    PROVE  call[c] \in Under
<1>1. call[c] \in Under \cup {Resting, Doom}
  BY DEF SignInTypes
<1> QED
  BY <1>1, Stages DEF Judging

\* After a commit no transaction is open, and who is still judging has not moved.
LEMMA CommitDooms ==
    ASSUME SignInTypes, NEW c, call' = Committed(c)
    PROVE  /\ call' \in [Calls -> Under \cup {Resting, Doom}]
           /\ \A d \in Calls :
                /\ call'[d].stage # "open"
                /\ Judging(d)' => d # c /\ Judging(d) /\ call'[d] = call[d]
<1>1. call' = [d \in Calls |-> IF d = c THEN Resting ELSE IF call[d].stage = "open" THEN Doom ELSE call[d]]
  BY DEF Committed, Doomed, Doom
<1>2. ASSUME NEW d \in Calls
      PROVE  /\ call'[d] \in Under \cup {Resting, Doom} /\ call'[d].stage # "open"
             /\ Judging(d)' => d # c /\ Judging(d) /\ call'[d] = call[d]
  <2>0. call[d] \in Under \cup {Resting, Doom}
    BY DEF SignInTypes
  <2>1. CASE d = c
    BY <1>1, <2>1, Stages DEF Judging
  <2>2. CASE d # c /\ call[d].stage = "open"
    BY <1>1, <2>2, Stages DEF Judging
  <2>3. CASE d # c /\ call[d].stage # "open"
    BY <1>1, <2>0, <2>3 DEF Judging
  <2> QED
    BY <2>1, <2>2, <2>3
<1> QED
  BY <1>1, <1>2

-----------------------------------------------------------------------------
(* Commits *)

\* What an account may become by a commit that replaces no credential.
Succeeds(new) ==
    /\ new \in Account
    /\ \A k \in Counters : account.failures[k] <= new.failures[k]
    /\ new.credential = account.credential
    /\ method # "admin" => ~new.mfaEnabled
    /\ Len(account.challenges) <= Len(new.challenges)
    /\ \A n \in 1..Len(account.challenges) :
         account.challenges[n].status = "VERIFIED" => new.challenges[n].status = "VERIFIED"

TokenProof == [kind |-> "token", n |-> 1]

\* What c's transaction may have opened a session with.
Spendable(c, p, new) ==
    \/ granted[p] > 0
    \/ p.kind = "otp" /\ p.n \in 1..Len(new.challenges) /\ new.challenges[p.n].status = "VERIFIED"
    \/ Live(p) /\ c \in Calls /\ Proved(c) /\ p.n = call[c].step
    \/ p.kind = "token"

LEMMA CommitKeeps ==
    ASSUME SInv, NEW c, Succeeds(account'),
           call' = Committed(c), UNCHANGED <<method, totpUsed, clock>>,
           judged' \in [Counters -> Nat], JudgedCounted',
           granted' \in [Proofs -> 0..2], ProofsSpentOnce',
           \A p \in Proofs : granted'[p] > 0 => Spendable(c, p, account'),
           TokenSpent', SessionOnLiveCredential'
    PROVE  SInv'
<1>1. /\ call' \in [Calls -> Under \cup {Resting, Doom}]
      /\ \A d \in Calls :
           /\ call'[d].stage # "open"
           /\ Judging(d)' => d # c /\ Judging(d) /\ call'[d] = call[d]
  BY CommitDooms DEF SInv
<1>2. SignInTypes'
  BY <1>1 DEF SInv, SignInTypes, Succeeds
<1>3. Len(account.challenges) \in Nat /\ Len(account'.challenges) \in Nat
  BY DEF SInv, SignInTypes, Succeeds, Account
<1>4. OfMethod'
  BY <1>1, <1>3 DEF SInv, OfMethod, Succeeds
<1>5. \A d \in Calls : Agrees(d)'
  BY <1>1 DEF Agrees
<1>6. ChallengesSpent'
  <2> SUFFICES ASSUME NEW p \in Proofs, p.kind = "otp", granted'[p] > 0
               PROVE  p.n \in 1..Len(account'.challenges) /\ account'.challenges[p.n].status = "VERIFIED"
    BY DEF ChallengesSpent
  <2>1. CASE granted[p] > 0
    <3>1. p.n \in 1..Len(account.challenges) /\ account.challenges[p.n].status = "VERIFIED"
      BY <2>1 DEF SInv, ChallengesSpent
    <3> QED
      BY <1>3, <3>1 DEF Succeeds
  <2> QED
    BY <2>1 DEF Spendable, Live
<1>7. StepsSpent'
  <2>0. account'.credential = account.credential
    BY DEF Succeeds
  <2>1. \A p \in Proofs : Live(p) /\ granted'[p] > 0 => p.n <= totpUsed
    <3> SUFFICES ASSUME NEW p \in Proofs, Live(p), granted'[p] > 0 PROVE p.n <= totpUsed
      OBVIOUS
    <3>1. totpUsed \in Nat
      BY DEF SInv, SignInTypes
    <3> QED
      BY <3>1 DEF SInv, StepsSpent, Spendable, Live
  <2>2. ASSUME NEW d \in Calls, Proved(d)'
        PROVE  /\ call'[d].step \in 1..totpUsed
               /\ \A p \in Proofs : Live(p) /\ p.n = call'[d].step => granted'[p] = 0
               /\ \A e \in Calls : Proved(e)' /\ call'[e].step = call'[d].step => e = d
    <3>1. d # c /\ Proved(d) /\ call'[d] = call[d]
      BY <1>1, <2>0, <2>2 DEF Proved
    <3>2. \A e \in Calls : Proved(e)' => Proved(e) /\ call'[e] = call[e]
      BY <1>1, <2>0 DEF Proved
    <3>3. ASSUME NEW p \in Proofs, Live(p), p.n = call[d].step PROVE granted'[p] = 0
      <4>1. granted[p] = 0 /\ granted'[p] \in 0..2
        BY <3>1, <3>3 DEF SInv, StepsSpent
      <4>2. ~(c \in Calls /\ Proved(c) /\ p.n = call[c].step)
        BY <3>1, <3>3 DEF SInv, StepsSpent
      <4> QED
        BY <3>3, <4>1, <4>2 DEF Spendable, Live
    <3> QED
      BY <3>1, <3>2, <3>3 DEF SInv, StepsSpent
  <2> QED
    BY <2>0, <2>1, <2>2 DEF StepsSpent, Live
<1>8. VersionsPast'
  <2>1. account'.credential = account.credential
    BY DEF Succeeds
  <2>2. \A d \in Calls : Judging(d)' => Judging(d) /\ call'[d] = call[d]
    BY <1>1
  <2>3. \A p \in Proofs : p.kind = "totp" /\ granted'[p] > 0 => granted[p] > 0 \/ p.secret = account.credential
    BY DEF Spendable, Live
  <2> QED
    BY <2>1, <2>2, <2>3 DEF SInv, VersionsPast
<1> QED
  BY <1>2, <1>4, <1>5, <1>6, <1>7, <1>8 DEF SInv

\* A commit that judges nobody and opens nothing.
LEMMA QuietCommit ==
    ASSUME SInv, NEW c, Succeeds(account'), call' = Committed(c),
           UNCHANGED <<method, totpUsed, clock, history>>,
           account'.token = "ISSUED" => granted[TokenProof] = 0
    PROVE  SInv'
<1>1. judged' = judged /\ granted' = granted /\ session' = session
  BY DEF history
<1>2. judged' \in [Counters -> Nat] /\ granted' \in [Proofs -> 0..2]
  BY <1>1 DEF SInv, SignInTypes
<1>3. JudgedCounted'
  <2>1. \A k \in Counters : account.failures[k] \in Nat /\ account'.failures[k] \in Nat
    BY DEF SInv, SignInTypes, Succeeds, Account
  <2> QED
    BY <1>1, <1>2, <2>1 DEF SInv, JudgedCounted, Succeeds
<1>4. ProofsSpentOnce' /\ SessionOnLiveCredential' /\ TokenSpent'
  BY <1>1 DEF SInv, ProofsSpentOnce, SessionOnLiveCredential, TokenSpent, TokenProof
<1>5. \A p \in Proofs : granted'[p] > 0 => Spendable(c, p, account')
  BY <1>1 DEF Spendable
<1> QED
  BY <1>1, <1>2, <1>3, <1>4, <1>5, CommitKeeps

LEMMA AccountSucceeds == ASSUME SInv PROVE Succeeds(account)
<1>1. Len(account.challenges) \in Nat /\ \A k \in Counters : account.failures[k] \in Nat
  BY DEF SInv, SignInTypes, Account
<1> QED
  BY <1>1 DEF SInv, SignInTypes, OfMethod, Succeeds

-----------------------------------------------------------------------------
(* Around the sign-ins *)

LEMMA AsSequence ==
    ASSUME NEW S, NEW n \in Nat, NEW f \in [1..n -> S]
    PROVE  f \in Seq(S) /\ Len(f) = n
<1>1. f \in Seq(S)
  BY SeqDef
<1> QED
  BY <1>1, LenProperties

LEMMA RequestKeeps == ASSUME SInv, RequestOtp PROVE SInv'
<1> DEFINE old == account.challenges
           kept == [i \in DOMAIN old |-> IF old[i].status = "PENDING"
                                         THEN [old[i] EXCEPT !.status = "SUPERSEDED"] ELSE old[i]]
           fresh == [status |-> "PENDING", attempts |-> 0, lapsed |-> FALSE]
<1>1. /\ account \in Account /\ old \in Seq(Challenge) /\ Len(old) \in Nat
      /\ account' = [account EXCEPT !.challenges = Append(kept, fresh)]
  BY DEF RequestOtp, SInv, SignInTypes, Account
<1>2. fresh \in Challenge
  BY DEF Challenge, ChallengeStatuses
<1>3. \A i \in 1..Len(old) : /\ kept[i] \in Challenge
                             /\ old[i].status = "VERIFIED" => kept[i].status = "VERIFIED"
  <2> SUFFICES ASSUME NEW i \in 1..Len(old)
               PROVE  kept[i] \in Challenge /\ (old[i].status = "VERIFIED" => kept[i].status = "VERIFIED")
    OBVIOUS
  <2>1. PICK one \in Challenge : one = old[i]
    BY <1>1
  <2>2. kept[i] = IF one.status = "PENDING" THEN [one EXCEPT !.status = "SUPERSEDED"] ELSE one
    BY <1>1, <2>1
  <2> HIDE DEF kept
  <2> QED
    BY <2>1, <2>2 DEF Challenge, ChallengeStatuses
<1>4. kept \in Seq(Challenge) /\ Len(kept) = Len(old)
  <2>1. DOMAIN kept = 1..Len(old)
    BY <1>1
  <2>2. kept \in [1..Len(old) -> Challenge]
    BY <1>3, <2>1
  <2> HIDE DEF kept
  <2> QED
    BY <1>1, <2>2, AsSequence
<1>5. PICK more : more = Append(kept, fresh)
  OBVIOUS
<1>6. /\ more \in Seq(Challenge) /\ Len(more) = Len(old) + 1
      /\ \A i \in 1..Len(old) : more[i] = kept[i]
  BY <1>2, <1>4, <1>5
<1> HIDE DEF kept, fresh
<1>7. /\ account' \in Account /\ account'.challenges = more /\ account'.failures = account.failures
      /\ account'.credential = account.credential /\ account'.mfaEnabled = account.mfaEnabled
      /\ account'.token = account.token
  BY <1>1, <1>5, <1>6 DEF Account
<1>8. Succeeds(account')
  BY <1>1, <1>3, <1>6, <1>7, AccountSucceeds DEF Succeeds
<1> QED
  BY <1>7, <1>8, QuietCommit DEF RequestOtp, OtherCommits, SInv, TokenSpent, TokenProof

LEMMA ClockTyped == ASSUME SInv PROVE /\ clock \in 1..MaxStep /\ totpUsed \in 0..(MaxStep + 1)
                                      /\ totpUsed \in totpUsed..(MaxStep + 1) /\ account \in Account
BY DEF SInv, SignInTypes

\* A commit that changes neither counters nor challenges.
LEMMA OtherKeeps ==
    ASSUME SInv, OtherCommits, account' \in Account,
           account'.failures = account.failures, account'.challenges = account.challenges,
           account'.credential = account.credential, account'.mfaEnabled = account.mfaEnabled,
           account'.token = "ISSUED" => granted[TokenProof] = 0
    PROVE  SInv'
<1>1. Succeeds(account')
  BY AccountSucceeds DEF Succeeds
<1> QED
  BY <1>1, QuietCommit DEF OtherCommits

LEMMA DevicesKeep == ASSUME SInv, IssueToken \/ DeviceLost PROVE SInv'
<1>1. OtherCommits /\ account \in Account
  BY DEF IssueToken, DeviceLost, SInv, SignInTypes
<1>2. \/ granted[TokenProof] = 0 /\ account' = [account EXCEPT !.token = "ISSUED"]
      \/ account' = [account EXCEPT !.device = "LOST"]
  BY DEF IssueToken, DeviceLost, TokenProof
<1>3. /\ account' \in Account
      /\ account'.failures = account.failures /\ account'.challenges = account.challenges
      /\ account'.credential = account.credential /\ account'.mfaEnabled = account.mfaEnabled
  BY <1>1, <1>2 DEF Account, Devices
<1>4. account'.token = "ISSUED" => granted[TokenProof] = 0
  BY <1>1, <1>2 DEF Account, SInv, TokenSpent, TokenProof
<1> QED
  BY <1>1, <1>3, <1>4, OtherKeeps

\* With the credential whatever was verified by it, and whatever period its secret was used in, is
\* void: who is still judging holds the old one, and no step of the new one was spent.
LEMMA RenewalKeeps ==
    ASSUME SInv, method # "otp", account.credential = 1, account' \in Account, account'.credential = 2,
           account'.failures = account.failures, account'.challenges = account.challenges,
           account'.token = account.token, method # "admin" => ~account'.mfaEnabled,
           totpUsed' \in 0..(MaxStep + 1), call' = Committed("none"),
           UNCHANGED <<method, clock, history>>
    PROVE  SInv'
<1> USE DEF history
<1>1. /\ call' \in [Calls -> Under \cup {Resting, Doom}]
      /\ \A d \in Calls :
           /\ call'[d].stage # "open"
           /\ Judging(d)' => Judging(d) /\ call'[d] = call[d]
  BY CommitDooms DEF SInv
<1>2. SignInTypes' /\ JudgedCounted'
  BY <1>1 DEF SInv, SignInTypes, JudgedCounted
<1>3. OfMethod' /\ \A d \in Calls : Agrees(d)'
  BY <1>1 DEF OfMethod, Agrees
<1>4. VersionsPast' /\ ChallengesSpent' /\ TokenSpent' /\ ProofsSpentOnce' /\ SessionOnLiveCredential'
  BY DEF SInv, VersionsPast, ChallengesSpent, TokenSpent, ProofsSpentOnce, SessionOnLiveCredential
<1>5. \A d \in Calls : ~Proved(d)'
  BY <1>1 DEF SInv, VersionsPast, Proved
<1>6. \A p \in Proofs : ~(Live(p)' /\ granted'[p] > 0)
  BY DEF SInv, VersionsPast, Live
<1> QED
  BY <1>2, <1>3, <1>4, <1>5, <1>6 DEF SInv, StepsSpent

LEMMA ChangesKeep == ASSUME SInv, ChangeCredential \/ provision PROVE SInv'
<1>1. /\ account \in Account /\ account.credential = 1 /\ method # "otp"
      /\ call' = Committed("none") /\ UNCHANGED <<method, clock, history>>
  BY DEF ChangeCredential, provision, OtherCommits, SInv, SignInTypes
<1>2. \/ account' = [account EXCEPT !.credential = 2]
      \/ method = "admin" /\ account' = [account EXCEPT !.credential = 2, !.mfaEnabled = TRUE]
  BY DEF ChangeCredential, provision
<1>3. /\ account' \in Account /\ account'.credential = 2
      /\ account'.failures = account.failures /\ account'.challenges = account.challenges
      /\ account'.token = account.token
      /\ method # "admin" => account'.mfaEnabled = account.mfaEnabled
  BY <1>1, <1>2 DEF Account
<1>4. totpUsed' \in 0..(MaxStep + 1)
  BY ClockTyped DEF ChangeCredential, provision, OtherCommits
<1>5. method # "admin" => ~account'.mfaEnabled
  BY <1>3 DEF SInv, OfMethod
<1> QED
  BY <1>1, <1>3, <1>4, <1>5, RenewalKeeps

\* What time does to an account leaves every view as true as it was.
LEMMA TimeKeeps ==
    ASSUME SInv, UNCHANGED <<method, totpUsed, clock, call, history>>, account' \in Account,
           account'.failures = account.failures, account'.credential = account.credential,
           account'.mfaEnabled = account.mfaEnabled, account'.device = account.device,
           account'.token \in {account.token, "NONE"},
           Len(account'.challenges) = Len(account.challenges),
           \A n \in 1..Len(account.challenges) :
             /\ account'.challenges[n].status = account.challenges[n].status
             /\ account'.challenges[n].attempts = account.challenges[n].attempts
    PROVE  SInv'
<1> USE DEF history
<1>1. SignInTypes' /\ OfMethod' /\ JudgedCounted'
  BY DEF SInv, SignInTypes, OfMethod, JudgedCounted, Judging
<1>2. \A c \in Calls : Agrees(c)'
  <2> SUFFICES ASSUME NEW c \in Calls, call[c].stage = "open" PROVE Agrees(c)'
    BY DEF Agrees
  <2> QED
    BY DEF SInv, Agrees
<1>3. ChallengesSpent' /\ StepsSpent'
  BY DEF SInv, ChallengesSpent, StepsSpent, Proved, Judging, Live
<1>4. TokenSpent' /\ ProofsSpentOnce' /\ SessionOnLiveCredential'
  BY DEF SInv, TokenSpent, ProofsSpentOnce, SessionOnLiveCredential
<1>5. VersionsPast'
  BY DEF SInv, VersionsPast, Judging
<1> QED
  BY <1>1, <1>2, <1>3, <1>4, <1>5 DEF SInv

LEMMA LapsesKeep == ASSUME SInv, ChallengeLapses \/ TokenLapses PROVE SInv'
<1>1. account \in Account
  BY DEF SInv, SignInTypes
<1>2. CASE ChallengeLapses
  <2>1. PICK i \in DOMAIN account.challenges : account' = [account EXCEPT !.challenges[i].lapsed = TRUE]
    BY <1>2 DEF ChallengeLapses
  <2>2. PICK old \in Seq(Challenge) : old = account.challenges
    BY <1>1 DEF Account
  <2>3. PICK new : new = [old EXCEPT ![i].lapsed = TRUE]
    OBVIOUS
  <2>4. /\ new \in Seq(Challenge) /\ Len(new) = Len(old)
        /\ \A n \in 1..Len(old) : new[n].status = old[n].status /\ new[n].attempts = old[n].attempts
    <3>1. PICK one \in Challenge : one = old[i]
      BY <2>1, <2>2
    <3>2. PICK lapsed \in Challenge : lapsed = [one EXCEPT !.lapsed = TRUE]
      BY DEF Challenge
    <3>3. lapsed.status = one.status /\ lapsed.attempts = one.attempts
      BY <3>2 DEF Challenge
    <3>4. new = [old EXCEPT ![i] = lapsed] /\ i \in 1..Len(old)
      BY <2>1, <2>2, <2>3, <3>1, <3>2
    <3> QED
      BY <2>2, <3>1, <3>3, <3>4, ExceptSeq
  <2>5. account' = [account EXCEPT !.challenges = new]
    BY <2>1, <2>2, <2>3
  <2>6. /\ account' \in Account /\ account'.challenges = new /\ account'.failures = account.failures
        /\ account'.credential = account.credential /\ account'.mfaEnabled = account.mfaEnabled
        /\ account'.device = account.device /\ account'.token = account.token
    BY <1>1, <2>4, <2>5 DEF Account
  <2> QED
    BY <1>2, <2>2, <2>4, <2>6, TimeKeeps DEF ChallengeLapses
<1>3. CASE TokenLapses
  <2>1. account' = [account EXCEPT !.token = "NONE"]
    BY <1>3 DEF TokenLapses
  <2>2. /\ account' \in Account /\ account'.challenges = account.challenges
        /\ account'.failures = account.failures /\ account'.credential = account.credential
        /\ account'.mfaEnabled = account.mfaEnabled /\ account'.device = account.device
        /\ account'.token = "NONE"
    BY <1>1, <2>1 DEF Account
  <2> QED
    BY <1>3, <2>2, TimeKeeps DEF TokenLapses
<1> QED
  BY <1>2, <1>3

LEMMA WindowKeeps == ASSUME SInv, AttemptsLapse PROVE SInv'
<1> DEFINE none == [k \in Counters |-> 0]
<1>1. /\ account \in Account /\ account' = [account EXCEPT !.failures = none]
      /\ judged' = none /\ UNCHANGED <<method, totpUsed, clock, call, granted, session>>
      /\ \A c \in Calls : call[c].stage = "idle"
  BY DEF AttemptsLapse, SInv, SignInTypes
<1>2. none \in [Counters -> 0..SubjectLimit] /\ none \in [Counters -> Nat] /\ \A k \in Counters : none[k] = 0
  OBVIOUS
<1> HIDE DEF none
<1>3. /\ account' \in Account /\ account'.challenges = account.challenges /\ account'.failures = none
      /\ account'.credential = account.credential /\ account'.mfaEnabled = account.mfaEnabled
      /\ account'.token = account.token
  BY <1>1, <1>2 DEF Account
<1>4. SignInTypes' /\ OfMethod' /\ JudgedCounted'
  BY <1>1, <1>2, <1>3 DEF SInv, SignInTypes, OfMethod, JudgedCounted, Judging
<1>5. \A c \in Calls : Agrees(c)'
  BY <1>1 DEF Agrees
<1>6. ChallengesSpent' /\ StepsSpent'
  BY <1>1, <1>3 DEF SInv, ChallengesSpent, StepsSpent, Proved, Judging, Live
<1>7. TokenSpent' /\ ProofsSpentOnce' /\ SessionOnLiveCredential'
  BY <1>1, <1>3 DEF SInv, TokenSpent, ProofsSpentOnce, SessionOnLiveCredential
<1>8. VersionsPast'
  BY <1>1, <1>3 DEF SInv, VersionsPast, Judging
<1> QED
  BY <1>4, <1>5, <1>6, <1>7, <1>8 DEF SInv

-----------------------------------------------------------------------------
(* A sign-in, up to its decision *)

\* One call moves; what it holds then keeps what is asked of it.
LEMMA CallKeeps ==
    ASSUME SInv, NEW c \in Calls, NEW r \in Under \cup {Resting, Doom},
           call' = [call EXCEPT ![c] = r], UNCHANGED <<method, account, history>>,
           clock' \in 1..MaxStep, totpUsed' \in totpUsed..(MaxStep + 1),
           method = "otp" /\ r.stage \in {"read", "open"} =>
             r.credential = 1 /\ r.target \in 1..Len(account.challenges),
           r.stage = "open" => r.view = account,
           r.stage \in {"read", "open"} => r.credential \in {account.credential, call[c].credential}
                                           /\ (r.credential # account.credential => Judging(c)),
           r.stage \in {"read", "open"} /\ r.mfa = "verified" /\ r.credential = account.credential =>
             \/ Proved(c) /\ r.step = call[c].step
             \/ r.step = totpUsed' /\ totpUsed' > totpUsed
    PROVE  SInv'
<1> USE DEF history
<1>1. /\ call' \in [Calls -> Under \cup {Resting, Doom}]
      /\ call'[c] = r /\ \A d \in Calls \ {c} : call'[d] = call[d]
  BY DEF SInv, SignInTypes
<1>2. totpUsed \in Nat /\ totpUsed' \in Nat /\ totpUsed <= totpUsed' /\ totpUsed' \in 0..(MaxStep + 1)
  BY DEF SInv, SignInTypes
<1>3. SignInTypes' /\ JudgedCounted'
  BY <1>1, <1>2 DEF SInv, SignInTypes, JudgedCounted
<1>4. OfMethod'
  BY <1>1 DEF SInv, OfMethod, Judging
<1>5. \A d \in Calls : Agrees(d)'
  <2> SUFFICES ASSUME NEW d \in Calls, call'[d].stage = "open" PROVE Agrees(d)'
    BY DEF Agrees
  <2>1. account \in Account
    BY DEF SInv, SignInTypes
  <2>2. CASE d = c
    BY <1>1, <2>1, <2>2 DEF Agrees
  <2>3. CASE d # c
    BY <1>1, <2>3 DEF Agrees, SInv
  <2> QED
    BY <2>2, <2>3
<1>6. ChallengesSpent' /\ TokenSpent' /\ ProofsSpentOnce' /\ SessionOnLiveCredential'
  BY DEF SInv, ChallengesSpent, TokenSpent, ProofsSpentOnce, SessionOnLiveCredential
<1>7. StepsSpent'
  <2>1. \A p \in Proofs : Live(p) => p.n \in Nat
    BY DEF Proofs, Live
  <2>2. \A p \in Proofs : Live(p) /\ granted[p] > 0 => p.n <= totpUsed /\ p.n <= totpUsed'
    BY <1>2, <2>1 DEF SInv, StepsSpent
  <2>3. \A d \in Calls : d # c /\ Proved(d)' => Proved(d) /\ call'[d] = call[d]
    BY <1>1 DEF Proved, Judging
  <2>4. \A d \in Calls : Proved(d) =>
          call[d].step \in 1..totpUsed /\ \A p \in Proofs : Live(p) /\ p.n = call[d].step => granted[p] = 0
    BY DEF SInv, StepsSpent
  <2>5. Proved(c)' => \/ Proved(c) /\ call'[c].step = call[c].step
                      \/ call'[c].step = totpUsed' /\ totpUsed' > totpUsed
    BY <1>1 DEF Proved, Judging
  <2>6. \A p \in Proofs : granted[p] \in 0..2
    BY DEF SInv, SignInTypes
  <2>7. ASSUME NEW d \in Calls, Proved(d)'
        PROVE  /\ call'[d].step \in 1..totpUsed'
               /\ \A p \in Proofs : Live(p) /\ p.n = call'[d].step => granted[p] = 0
               /\ \A e \in Calls : Proved(e)' /\ call'[e].step = call'[d].step => e = d
    <3>1. \/ Proved(d) /\ call'[d].step = call[d].step
          \/ d = c /\ call'[d].step = totpUsed' /\ totpUsed' > totpUsed
      BY <2>3, <2>5, <2>7
    <3>2. call'[d].step \in 1..totpUsed'
      BY <1>2, <2>4, <3>1
    <3>3. ASSUME NEW p \in Proofs, Live(p), p.n = call'[d].step PROVE granted[p] = 0
      BY <1>2, <2>2, <2>4, <2>6, <3>1, <3>3
    <3>4. ASSUME NEW e \in Calls, Proved(e)', call'[e].step = call'[d].step PROVE e = d
      <4>1. \/ Proved(e) /\ call'[e].step = call[e].step
            \/ e = c /\ call'[e].step = totpUsed' /\ totpUsed' > totpUsed
        BY <2>3, <2>5, <3>4
      <4>2. CASE Proved(d) /\ call'[d].step = call[d].step /\ Proved(e) /\ call'[e].step = call[e].step
        BY <3>4, <4>2 DEF SInv, StepsSpent
      <4> QED
        BY <1>2, <2>4, <3>1, <3>4, <4>1, <4>2
    <3> QED
      BY <3>2, <3>3, <3>4
  <2> QED
    BY <2>2, <2>7 DEF StepsSpent, Live
<1>8. VersionsPast'
  <2> SUFFICES ASSUME account.credential = 1
               PROVE  /\ \A d \in Calls : Judging(d)' => call'[d].credential = 1
                      /\ \A p \in Proofs : p.kind = "totp" /\ granted[p] > 0 => p.secret = 1
    BY DEF VersionsPast
  <2>1. /\ \A d \in Calls : Judging(d) => call[d].credential = 1
        /\ \A p \in Proofs : p.kind = "totp" /\ granted[p] > 0 => p.secret = 1
    BY DEF SInv, VersionsPast
  <2> QED
    BY <1>1, <2>1 DEF Judging
<1> QED
  BY <1>3, <1>4, <1>5, <1>6, <1>7, <1>8 DEF SInv

LEMMA AttemptKeeps == ASSUME SInv, NEW c \in Calls, Attempt(c) PROVE SInv'
<1>1. PICK right \in BOOLEAN, tokenShown \in BOOLEAN, n \in 0..MaxChallenges :
        /\ method = "otp" => n \in DOMAIN account.challenges
        /\ call' = [call EXCEPT ![c] =
              [stage |-> "read", right |-> right, target |-> n, tokenShown |-> tokenShown,
               credential |-> account.credential, step |-> 0,
               mfa |-> IF method = "admin" /\ right /\ account.mfaEnabled THEN "required" ELSE "none",
               view |-> <<>>]]
  BY DEF Attempt
<1>2. PICK mfa \in {"none", "required"} :
        mfa = IF method = "admin" /\ right /\ account.mfaEnabled THEN "required" ELSE "none"
  OBVIOUS
<1>3. PICK r : r = [stage |-> "read", right |-> right, target |-> n, tokenShown |-> tokenShown,
                    credential |-> account.credential, step |-> 0, mfa |-> mfa, view |-> <<>>]
  OBVIOUS
<1>4. r \in Under /\ r.stage = "read" /\ r.mfa # "verified" /\ r.target = n /\ r.credential = account.credential
  BY <1>2, <1>3, ClockTyped DEF Under, Account, Factors
<1>5. account.challenges \in Seq(Challenge)
  BY ClockTyped DEF Account
<1>6. method = "otp" => r.credential = 1 /\ r.target \in 1..Len(account.challenges)
  BY <1>1, <1>4, <1>5 DEF SInv, OfMethod
<1>7. call' = [call EXCEPT ![c] = r]
  BY <1>1, <1>2, <1>3
<1> QED
  BY <1>4, <1>6, <1>7, ClockTyped, CallKeeps DEF Attempt

LEMMA MfaOf ==
    ASSUME SInv, NEW c \in Calls, call[c].stage = "read", call[c].mfa = "required"
    PROVE  /\ call[c] \in Under /\ ~Proved(c)
           /\ method = "otp" => call[c].credential = 1 /\ call[c].target \in 1..Len(account.challenges)
           /\ Judging(c)
BY JudgingTyped DEF Judging, Proved, SInv, OfMethod

LEMMA VerifyKeeps == ASSUME SInv, NEW c \in Calls, VerifyTotp(c) PROVE SInv'
<1>0. PICK old \in Under : old = call[c]
  BY MfaOf DEF VerifyTotp
<1>1. /\ old.stage = "read" /\ old.mfa = "required" /\ UNCHANGED <<method, account, clock, history>>
      /\ method = "otp" => old.credential = 1 /\ old.target \in 1..Len(account.challenges)
      /\ Judging(c)
  BY <1>0, MfaOf DEF VerifyTotp
<1>2. CASE \E n \in {clock - 1, clock, clock + 1} :
             /\ n > totpUsed
             /\ totpUsed' = n
             /\ call' = [call EXCEPT ![c].mfa = "verified", ![c].step = n]
  <2>1. PICK n \in {clock - 1, clock, clock + 1} :
          n > totpUsed /\ totpUsed' = n /\ call' = [call EXCEPT ![c].mfa = "verified", ![c].step = n]
    BY <1>2
  <2>2. n \in 0..(MaxStep + 1) /\ totpUsed' \in totpUsed..(MaxStep + 1)
    BY <2>1, ClockTyped
  <2>3. PICK r : r = [old EXCEPT !.mfa = "verified", !.step = n]
    OBVIOUS
  <2>4. /\ r \in Under /\ r.stage = "read" /\ r.step = n
        /\ r.credential = old.credential /\ r.target = old.target /\ r.credential = call[c].credential
    BY <1>0, <1>1, <2>2, <2>3 DEF Under, Factors
  <2>5. call' = [call EXCEPT ![c] = r]
    BY <1>0, <2>1, <2>3 DEF SInv, SignInTypes
  <2>6. /\ clock' \in 1..MaxStep /\ UNCHANGED <<method, account, history>>
        /\ r.step = totpUsed' /\ totpUsed' > totpUsed /\ r.stage # "open" /\ r \in Under \cup {Resting, Doom}
    BY <1>1, <2>1, <2>4, ClockTyped
  <2>7. method = "otp" => r.credential = 1 /\ r.target \in 1..Len(account.challenges)
    BY <1>1, <2>4
  <2> QED
    BY <1>1, <2>2, <2>4, <2>5, <2>6, <2>7, CallKeeps
<1>3. CASE \E r \in {"missing", "invalid"} : call' = [call EXCEPT ![c].mfa = r] /\ UNCHANGED totpUsed
  <2>1. PICK m \in {"missing", "invalid"} : call' = [call EXCEPT ![c].mfa = m] /\ UNCHANGED totpUsed
    BY <1>3
  <2>3. PICK r : r = [old EXCEPT !.mfa = m]
    OBVIOUS
  <2>4. /\ r \in Under /\ r.stage = "read" /\ r.mfa # "verified"
        /\ r.credential = old.credential /\ r.target = old.target /\ r.credential = call[c].credential
    BY <1>0, <1>1, <2>1, <2>3 DEF Under, Factors
  <2>5. call' = [call EXCEPT ![c] = r]
    BY <1>0, <2>1, <2>3 DEF SInv, SignInTypes
  <2>6. /\ clock' \in 1..MaxStep /\ totpUsed' \in totpUsed..(MaxStep + 1)
        /\ UNCHANGED <<method, account, history>>
    BY <1>1, <2>1, ClockTyped
  <2>7. method = "otp" => r.credential = 1 /\ r.target \in 1..Len(account.challenges)
    BY <1>1, <2>4
  <2>8. r \in Under \cup {Resting, Doom} /\ r.stage # "open" /\ r.mfa # "verified"
    BY <1>1, <2>4
  <2> QED
    BY <1>1, <2>4, <2>5, <2>6, <2>7, <2>8, CallKeeps
<1> QED
  BY <1>2, <1>3 DEF VerifyTotp, Consumed

LEMMA OpenKeeps == ASSUME SInv, NEW c \in Calls, Open(c) PROVE SInv'
<1>1. /\ call[c].stage = "read" /\ call[c].mfa # "required"
      /\ call' = [call EXCEPT ![c].stage = "open", ![c].view = account]
      /\ UNCHANGED <<method, account, totpUsed, clock, history>>
  BY DEF Open
<1>2. Judging(c) /\ call[c] \in Under
  BY <1>1, JudgingTyped DEF Judging, SInv
<1>3. PICK old \in Under : old = call[c]
  BY <1>2
<1>4. PICK r : r = [old EXCEPT !.stage = "open", !.view = account]
  OBVIOUS
<1>5. /\ r \in Under /\ r.stage = "open" /\ r.view = account /\ r.mfa = old.mfa /\ r.step = old.step
      /\ r.credential = old.credential /\ r.target = old.target
  BY <1>4, ClockTyped DEF Under
<1>6. call' = [call EXCEPT ![c] = r]
  BY <1>1, <1>3, <1>4 DEF SInv, SignInTypes
<1>7. method = "otp" => r.credential = 1 /\ r.target \in 1..Len(account.challenges)
  BY <1>2, <1>3, <1>5 DEF SInv, OfMethod
<1>8. /\ r.mfa = "verified" /\ r.credential = account.credential => Proved(c) /\ r.step = call[c].step
      /\ r.credential = call[c].credential
  BY <1>2, <1>3, <1>5 DEF Proved
<1> QED
  BY <1>1, <1>2, <1>5, <1>6, <1>7, <1>8, ClockTyped, CallKeeps

LEMMA AbortsKeep == ASSUME SInv, NEW c \in Calls, Aborts(c) PROVE SInv'
BY Stages, ClockTyped, CallKeeps DEF Aborts

LEMMA TickKeeps == ASSUME SInv, Tick PROVE SInv'
<1>1. clock' \in 1..MaxStep /\ UNCHANGED <<method, account, totpUsed, call, history>>
  BY ClockTyped DEF Tick
<1> QED
  BY <1>1 DEF SInv, SignInTypes, OfMethod, JudgedCounted, Agrees, VersionsPast, ChallengesSpent, StepsSpent,
     TokenSpent, ProofsSpentOnce, SessionOnLiveCredential, Judging, Proved, Live, history

-----------------------------------------------------------------------------
(* The decision *)

LEMMA OpenSees ==
    ASSUME SInv, NEW c \in Calls, call[c].stage = "open"
    PROVE  /\ call[c] \in Under /\ Judging(c) /\ call[c].view \in Account /\ account \in Account
           /\ call[c].view.failures = account.failures /\ call[c].view.credential = account.credential
           /\ call[c].view.mfaEnabled = account.mfaEnabled /\ call[c].view.device = account.device
           /\ Len(call[c].view.challenges) = Len(account.challenges)
           /\ \A n \in 1..Len(account.challenges) :
                /\ call[c].view.challenges[n].status = account.challenges[n].status
                /\ call[c].view.challenges[n].attempts = account.challenges[n].attempts
<1>1. Judging(c) /\ Agrees(c) /\ account \in Account
  BY DEF Judging, SInv, SignInTypes
<1> QED
  BY <1>1, JudgingTyped DEF Agrees, SInv

LEMMA CountedIs ==
    ASSUME NEW new \in Account, NEW k \in Counters
    PROVE  LET more == Counted(new, k) IN
           /\ more \in Account
           /\ more.failures[k] = IF new.failures[k] < SubjectLimit THEN new.failures[k] + 1 ELSE new.failures[k]
           /\ \A x \in Counters : new.failures[x] <= more.failures[x]
           /\ more.challenges = new.challenges /\ more.credential = new.credential
           /\ more.mfaEnabled = new.mfaEnabled /\ more.device = new.device /\ more.token = new.token
<1>1. PICK old \in [Counters -> 0..SubjectLimit] : old = new.failures
  BY DEF Account
<1>2. PICK up \in 0..SubjectLimit : up = IF old[k] < SubjectLimit THEN old[k] + 1 ELSE old[k]
  OBVIOUS
<1>3. PICK failures \in [Counters -> 0..SubjectLimit] : failures = [old EXCEPT ![k] = up]
  OBVIOUS
<1>4. Counted(new, k) = [new EXCEPT !.failures = failures]
  BY <1>1, <1>2, <1>3 DEF Counted
<1>5. failures[k] = up /\ \A x \in Counters : old[x] <= failures[x]
  BY <1>2, <1>3
<1> QED
  BY <1>1, <1>2, <1>4, <1>5 DEF Account

LEMMA CountedSucceeds ==
    ASSUME SInv, NEW new, Succeeds(new), NEW k \in Counters
    PROVE  Succeeds(Counted(new, k)) /\ Counted(new, k).token = new.token
<1>1. new \in Account /\ account \in Account
  BY DEF SInv, SignInTypes, Succeeds
<1>2. PICK more \in Account :
        /\ more = Counted(new, k)
        /\ \A x \in Counters : new.failures[x] <= more.failures[x]
        /\ more.challenges = new.challenges /\ more.credential = new.credential
        /\ more.mfaEnabled = new.mfaEnabled /\ more.token = new.token
  BY <1>1, CountedIs
<1>3. \A x \in Counters :
        account.failures[x] \in Nat /\ new.failures[x] \in Nat /\ more.failures[x] \in Nat
  BY <1>1 DEF Account
<1> QED
  BY <1>2, <1>3 DEF Succeeds

LEMMA RefusedKeeps ==
    ASSUME SInv, NEW c \in Calls, NEW new, Succeeds(new), new.token = account.token, Refused(c, new)
    PROVE  SInv'
BY QuietCommit DEF Refused, Ends, SInv, TokenSpent, TokenProof

LEMMA CountedRefusalKeeps ==
    ASSUME SInv, NEW c \in Calls, NEW new, Succeeds(new), new.token = account.token,
           NEW k \in Counters, Refused(c, Counted(new, k))
    PROVE  SInv'
BY CountedSucceeds, RefusedKeeps

\* A wrong guess is one more of those counted: the limit was not reached.
LEMMA WrongKeeps ==
    ASSUME SInv, NEW c \in Calls, call[c].stage = "open", NEW new, Succeeds(new),
           new.failures = account.failures, new.token = account.token,
           NEW k \in Counters, ~Blocked(c, k), Wrong(c, new, k)
    PROVE  SInv'
<1>1. /\ account' = Counted(new, k) /\ call' = Committed(c)
      /\ UNCHANGED <<method, totpUsed, clock, granted, session>>
      /\ judged' = [judged EXCEPT ![k] = IF @ <= SubjectLimit THEN @ + 1 ELSE @]
  BY DEF Wrong, Ends
<1>2. Succeeds(account') /\ account'.token = account.token
  BY <1>1, CountedSucceeds
<1>3. account.failures[k] < SubjectLimit /\ \A x \in Counters : account.failures[x] \in 0..SubjectLimit
  BY OpenSees DEF Blocked, Account
<1>4. /\ account'.failures[k] = account.failures[k] + 1
      /\ \A x \in Counters : account.failures[x] <= account'.failures[x] /\ account'.failures[x] \in Nat
  BY <1>1, <1>3, CountedIs DEF Succeeds, Account
<1>5. judged' \in [Counters -> Nat] /\ judged \in [Counters -> Nat] /\ judged'[k] <= judged[k] + 1
      /\ \A x \in Counters \ {k} : judged'[x] = judged[x]
  BY <1>1 DEF SInv, SignInTypes
<1>6. JudgedCounted'
  BY <1>3, <1>4, <1>5 DEF SInv, JudgedCounted
<1>7. ProofsSpentOnce' /\ SessionOnLiveCredential' /\ TokenSpent' /\ granted' \in [Proofs -> 0..2]
  BY <1>1, <1>2 DEF SInv, SignInTypes, ProofsSpentOnce, SessionOnLiveCredential, TokenSpent
<1>8. \A p \in Proofs : granted'[p] > 0 => Spendable(c, p, account')
  BY <1>1 DEF Spendable
<1> QED
  BY <1>1, <1>2, <1>5, <1>6, <1>7, <1>8, CommitKeeps

\* A session is opened on what the transaction found, with proofs not spent before.
LEMMA SessionKeeps ==
    ASSUME SInv, NEW c \in Calls, call[c].stage = "open", NEW new, Succeeds(new), NEW proofs,
           \A p \in Proofs : p \in proofs => granted[p] = 0 /\ Spendable(c, p, new),
           new.token = "ISSUED" => granted[TokenProof] = 0 /\ TokenProof \notin proofs,
           call[c].credential = account.credential,
           account.mfaEnabled => call[c].mfa = "verified",
           method = "guard" => new.device = "ACTIVE",
           OpenSession(c, new, proofs)
    PROVE  SInv'
<1>1. /\ account' = new /\ call' = Committed(c) /\ UNCHANGED <<method, totpUsed, clock, judged>>
      /\ granted' = [p \in Proofs |->
           IF p \in proofs /\ granted[p] < 2 THEN granted[p] + 1 ELSE granted[p]]
      /\ session' = [verified |-> call[c].credential, stored |-> account.credential,
                     device |-> new.device, factor |-> account.mfaEnabled => call[c].mfa = "verified"]
  BY DEF OpenSession, Ends
<1>2. judged' \in [Counters -> Nat] /\ granted \in [Proofs -> 0..2]
  BY <1>1 DEF SInv, SignInTypes
<1>3. \A p \in Proofs : granted'[p] = IF p \in proofs THEN 1 ELSE granted[p]
  BY <1>1, <1>2
<1>4. granted' \in [Proofs -> 0..2] /\ ProofsSpentOnce'
  BY <1>1, <1>2, <1>3 DEF SInv, ProofsSpentOnce
<1>5. \A p \in Proofs : granted'[p] > 0 => Spendable(c, p, account')
  BY <1>1, <1>3 DEF Spendable
<1>6. TokenSpent'
  <2>1. TokenProof \in Proofs
    BY DEF TokenProof, Proofs
  <2> QED
    BY <1>1, <1>3, <2>1 DEF TokenSpent, TokenProof
<1>7. SessionOnLiveCredential'
  <2>1. session'.verified = session'.stored /\ session'.factor /\ session'.device = new.device
    BY <1>1
  <2> QED
    BY <1>1, <2>1 DEF SessionOnLiveCredential
<1>8. JudgedCounted'
  <2>1. \A k \in Counters : account.failures[k] \in Nat /\ new.failures[k] \in Nat
    BY DEF SInv, SignInTypes, Succeeds, Account
  <2> QED
    BY <1>1, <1>2, <2>1 DEF SInv, JudgedCounted, Succeeds
<1> QED
  BY <1>1, <1>2, <1>4, <1>5, <1>6, <1>7, <1>8, CommitKeeps

Marked(new, n, st, m) ==
    new = [account EXCEPT !.challenges[n].status = st, !.challenges[n].attempts = m]

\* A challenge that is not used yet is marked.
LEMMA MarkedSucceeds ==
    ASSUME SInv, NEW n \in 1..Len(account.challenges), account.challenges[n].status # "VERIFIED",
           NEW st \in ChallengeStatuses, NEW m \in 0..OtpMaxAttempts,
           NEW new, Marked(new, n, st, m)
    PROVE  /\ Succeeds(new) /\ new.token = account.token /\ new.failures = account.failures
           /\ new.credential = account.credential /\ new.mfaEnabled = account.mfaEnabled
           /\ Len(new.challenges) = Len(account.challenges) /\ new.challenges[n].status = st
<1>1. account \in Account
  BY DEF SInv, SignInTypes
<1>2. PICK old \in Seq(Challenge) : old = account.challenges
  BY <1>1 DEF Account
<1>3. PICK one \in Challenge : one = old[n]
  BY <1>2
<1>4. PICK mark \in Challenge : mark = [one EXCEPT !.status = st, !.attempts = m]
  BY DEF Challenge
<1>5. mark.status = st
  BY <1>4 DEF Challenge
<1>6. PICK all : all = [old EXCEPT ![n] = mark]
  OBVIOUS
<1>7. new = [account EXCEPT !.challenges = all]
  BY <1>1, <1>2, <1>3, <1>4, <1>6 DEF Account, Marked
<1>8. /\ all \in Seq(Challenge) /\ Len(all) = Len(old) /\ Len(old) \in Nat
      /\ \A i \in 1..Len(old) : all[i] = IF i = n THEN mark ELSE old[i]
  BY <1>2, <1>6, ExceptSeq
<1>9. /\ new \in Account /\ new.challenges = all /\ new.failures = account.failures
      /\ new.credential = account.credential /\ new.mfaEnabled = account.mfaEnabled
      /\ new.token = account.token
  BY <1>1, <1>7, <1>8 DEF Account
<1> QED
  BY <1>2, <1>5, <1>8, <1>9, AccountSucceeds DEF Succeeds

LEMMA OtpKeeps == ASSUME SInv, NEW c \in Calls, call[c].stage = "open",
                         ~Blocked(c, "secret"), CommitOtp(c)
                  PROVE SInv'
<1> DEFINE n == call[c].target
           seen == call[c].view.challenges[n]
           marked(st, tried) == [account EXCEPT !.challenges[n].status = st,
                                                !.challenges[n].attempts = seen.attempts + tried]
<1>1. method = "otp" /\ Judging(c) /\ account.challenges \in Seq(Challenge)
  BY OpenSees DEF CommitOtp, Account
<1>2. n \in 1..Len(account.challenges) /\ call[c].credential = 1 /\ account.credential = 1 /\ ~account.mfaEnabled
  BY <1>1 DEF SInv, OfMethod
<1>3. /\ seen.status = account.challenges[n].status /\ seen.attempts = account.challenges[n].attempts
      /\ account.challenges[n] \in Challenge
  BY <1>1, <1>2, OpenSees
<1>4. PICK tries \in 0..OtpMaxAttempts : tries = seen.attempts
  BY <1>3 DEF Challenge
<1>5. "secret" \in Counters
  BY DEF Counters
<1>6. \/ Refused(c, Counted(account, "secret"))
      \/ /\ seen.status # "VERIFIED"
         /\ \/ Refused(c, Counted(marked("EXPIRED", 0), "secret"))
            \/ Refused(c, Counted(marked("LOCKED", 0), "secret"))
      \/ /\ seen.status # "VERIFIED" /\ tries < OtpMaxAttempts
         /\ \/ OpenSession(c, marked("VERIFIED", 1), {[kind |-> "otp", n |-> n]})
            \/ Refused(c, Counted(marked("VERIFIED", 1), "secret"))
            \/ Wrong(c, marked(IF seen.attempts + 1 = OtpMaxAttempts THEN "LOCKED" ELSE seen.status, 1), "secret")
  BY <1>4 DEF CommitOtp
<1>12. ASSUME seen.status # "VERIFIED", NEW st \in ChallengeStatuses, NEW tried \in {0, 1},
              tries + tried <= OtpMaxAttempts, NEW new, new = marked(st, tried)
       PROVE  /\ Succeeds(new) /\ new.token = account.token /\ new.failures = account.failures
              /\ Len(new.challenges) = Len(account.challenges) /\ new.challenges[n].status = st
  <2>1. PICK m \in 0..OtpMaxAttempts : m = tries + tried
    BY <1>12
  <2>2. PICK k \in 1..Len(account.challenges) : k = n
    BY <1>2
  <2>3. account.challenges[k].status # "VERIFIED"
    BY <1>3, <1>12, <2>2
  <2>4. seen.attempts + tried = m
    BY <1>4, <2>1
  <2>5. Marked(new, k, st, m)
    BY <1>12, <2>2, <2>4 DEF Marked
  <2> HIDE DEF n, seen, marked
  <2>6. /\ Succeeds(new) /\ new.token = account.token /\ new.failures = account.failures
        /\ Len(new.challenges) = Len(account.challenges) /\ new.challenges[k].status = st
    BY <2>3, <2>5, MarkedSucceeds
  <2> QED
    BY <2>2, <2>6
<1>13. {"EXPIRED", "LOCKED", "VERIFIED"} \subseteq ChallengeStatuses /\ tries + 0 <= OtpMaxAttempts
       /\ seen.status \in ChallengeStatuses
  BY <1>3 DEF ChallengeStatuses, Challenge
<1> HIDE DEF seen, marked
<1>7. CASE Refused(c, Counted(account, "secret"))
  BY <1>5, <1>7, AccountSucceeds, CountedRefusalKeeps
<1>8. ASSUME seen.status # "VERIFIED", NEW st \in {"EXPIRED", "LOCKED"},
             Refused(c, Counted(marked(st, 0), "secret"))
      PROVE SInv'
  <2>1. PICK new : new = marked(st, 0)
    OBVIOUS
  <2>3. Succeeds(new) /\ new.token = account.token
    BY <1>8, <1>12, <1>13, <2>1
  <2> QED
    BY <1>5, <1>8, <2>1, <2>3, CountedRefusalKeeps
<1>9. ASSUME seen.status # "VERIFIED", tries < OtpMaxAttempts,
             OpenSession(c, marked("VERIFIED", 1), {[kind |-> "otp", n |-> n]})
      PROVE SInv'
  <2>1. PICK new : new = marked("VERIFIED", 1)
    OBVIOUS
  <2>3. /\ Succeeds(new) /\ new.token = account.token /\ Len(new.challenges) = Len(account.challenges)
        /\ new.challenges[n].status = "VERIFIED"
    BY <1>9, <1>12, <1>13, <2>1
  <2>4. PICK proofs : proofs = {[kind |-> "otp", n |-> n]}
    OBVIOUS
  <2>5. ASSUME NEW p \in Proofs, p \in proofs PROVE granted[p] = 0 /\ Spendable(c, p, new)
    <3>1. p.kind = "otp" /\ p.n = n
      BY <2>4, <2>5
    <3>2. granted[p] \in 0..2
      BY DEF SInv, SignInTypes
    <3>3. ~(granted[p] > 0)
      BY <1>3, <1>9, <3>1 DEF SInv, ChallengesSpent
    <3> QED
      BY <1>2, <2>3, <3>1, <3>2, <3>3 DEF Spendable
  <2>6. TokenProof \notin proofs
    BY <2>4 DEF TokenProof
  <2>7. new.token = "ISSUED" => granted[TokenProof] = 0
    BY <2>3 DEF SInv, TokenSpent, TokenProof
  <2>8. OpenSession(c, new, proofs)
    BY <1>9, <2>1, <2>4
  <2> QED
    BY <1>1, <1>2, <2>3, <2>5, <2>6, <2>7, <2>8, SessionKeeps
<1>10. ASSUME seen.status # "VERIFIED", tries < OtpMaxAttempts,
              Refused(c, Counted(marked("VERIFIED", 1), "secret"))
       PROVE SInv'
  <2>1. PICK new : new = marked("VERIFIED", 1)
    OBVIOUS
  <2>3. Succeeds(new) /\ new.token = account.token
    BY <1>10, <1>12, <1>13, <2>1
  <2> QED
    BY <1>5, <1>10, <2>1, <2>3, CountedRefusalKeeps
<1>11. ASSUME seen.status # "VERIFIED", tries < OtpMaxAttempts, NEW st,
              st = IF seen.attempts + 1 = OtpMaxAttempts THEN "LOCKED" ELSE seen.status,
              Wrong(c, marked(st, 1), "secret")
       PROVE SInv'
  <2>1. PICK new : new = marked(st, 1)
    OBVIOUS
  <2>4. Succeeds(new) /\ new.token = account.token /\ new.failures = account.failures
    BY <1>11, <1>12, <1>13, <2>1
  <2> QED
    BY <1>5, <1>11, <2>1, <2>4, WrongKeeps
<1> QED
  BY <1>6, <1>7, <1>8, <1>9, <1>10, <1>11

\* A secret that is compared again was verified against the credential there is.
LEMMA CurrentIs ==
    ASSUME SInv, NEW c \in Calls, call[c].stage = "open", Current(c)
    PROVE  call[c].credential = account.credential
BY OpenSees DEF Current

\* What is decided on the account as it stands; no proof is spent.
LEMMA StandingSession ==
    ASSUME SInv, NEW c \in Calls, call[c].stage = "open", Current(c), OpenSession(c, account, {}),
           ~account.mfaEnabled, method = "guard" => account.device = "ACTIVE"
    PROVE  SInv'
<1>1. account.token = "ISSUED" => granted[TokenProof] = 0
  BY DEF SInv, TokenSpent, TokenProof
<1> QED
  BY <1>1, CurrentIs, AccountSucceeds, SessionKeeps

LEMMA PinKeeps == ASSUME SInv, NEW c \in Calls, call[c].stage = "open", ~Blocked(c, "secret"), CommitPin(c)
                  PROVE SInv'
<1>1. method = "pin" /\ ~account.mfaEnabled /\ "secret" \in Counters
  BY DEF CommitPin, SInv, OfMethod, Counters
<1>2. CASE Current(c) /\ OpenSession(c, account, {})
  BY <1>1, <1>2, StandingSession
<1>3. CASE Wrong(c, account, "secret")
  BY <1>1, <1>3, AccountSucceeds, WrongKeeps
<1> QED
  BY <1>2, <1>3 DEF CommitPin

LEMMA GuardKeeps == ASSUME SInv, NEW c \in Calls, call[c].stage = "open", ~Blocked(c, "secret"), CommitGuard(c)
                    PROVE SInv'
<1>1. /\ method = "guard" /\ ~account.mfaEnabled /\ "secret" \in Counters /\ account \in Account
      /\ call[c].view.device = account.device
  BY OpenSees DEF CommitGuard, SInv, OfMethod, Counters
<1>2. CASE Wrong(c, account, "secret")
  BY <1>1, <1>2, AccountSucceeds, WrongKeeps
<1>3. CASE /\ Current(c) /\ account.token = "ISSUED"
           /\ OpenSession(c, [account EXCEPT !.device = "ACTIVE", !.token = "NONE"],
                          {[kind |-> "token", n |-> 1]})
  <2>1. PICK new : new = [account EXCEPT !.device = "ACTIVE", !.token = "NONE"]
    OBVIOUS
  <2>2. /\ new \in Account /\ new.device = "ACTIVE" /\ new.token = "NONE"
        /\ new.failures = account.failures /\ new.challenges = account.challenges
        /\ new.credential = account.credential /\ new.mfaEnabled = account.mfaEnabled
    BY <1>1, <2>1 DEF Account, Devices
  <2>3. Succeeds(new)
    BY <2>2, AccountSucceeds DEF Succeeds
  <2>4. PICK proofs : proofs = {TokenProof}
    OBVIOUS
  <2>5. ASSUME NEW p \in Proofs, p \in proofs PROVE granted[p] = 0 /\ Spendable(c, p, new)
    BY <1>3, <2>4, <2>5 DEF SInv, TokenSpent, TokenProof, Spendable
  <2>6. OpenSession(c, new, proofs)
    BY <1>3, <2>1, <2>4 DEF TokenProof
  <2> QED
    BY <1>1, <1>3, <2>2, <2>3, <2>5, <2>6, CurrentIs, SessionKeeps
<1>4. CASE Refused(c, [account EXCEPT !.device = "PENDING"])
  <2>1. PICK new : new = [account EXCEPT !.device = "PENDING"]
    OBVIOUS
  <2>2. /\ new \in Account /\ new.token = account.token
        /\ new.failures = account.failures /\ new.challenges = account.challenges
        /\ new.credential = account.credential /\ new.mfaEnabled = account.mfaEnabled
    BY <1>1, <2>1 DEF Account, Devices
  <2>3. Succeeds(new)
    BY <2>2, AccountSucceeds DEF Succeeds
  <2> QED
    BY <1>4, <2>1, <2>2, <2>3, RefusedKeeps
<1>5. CASE Current(c) /\ account.device = "ACTIVE" /\ OpenSession(c, account, {})
  BY <1>1, <1>5, StandingSession
<1> QED
  BY <1>1, <1>2, <1>3, <1>4, <1>5 DEF CommitGuard

LEMMA AdminKeeps == ASSUME SInv, NEW c \in Calls, call[c].stage = "open", ~Blocked(c, "secret"), CommitAdmin(c)
                    PROVE SInv'
<1>1. /\ method = "admin" /\ {"secret", "totp"} = Counters /\ Judging(c)
      /\ call[c].view.mfaEnabled = account.mfaEnabled
  BY OpenSees DEF CommitAdmin, Counters
<1>2. CASE Wrong(c, account, "secret")
  BY <1>1, <1>2, AccountSucceeds, WrongKeeps
<1>3. CASE Current(c) /\ ~account.mfaEnabled /\ OpenSession(c, account, {})
  BY <1>1, <1>3, StandingSession
<1>4. CASE Refused(c, account)
  BY <1>4, AccountSucceeds, RefusedKeeps
<1>5. CASE Refused(c, Counted(account, "totp"))
  BY <1>1, <1>5, AccountSucceeds, CountedRefusalKeeps
<1>6. CASE /\ Current(c) /\ call[c].mfa = "verified"
           /\ OpenSession(c, account, {[kind |-> "totp", n |-> call[c].step,
                                        secret |-> call[c].credential]})
  <2>1. PICK proofs : proofs = {[kind |-> "totp", n |-> call[c].step, secret |-> call[c].credential]}
    OBVIOUS
  <2>2. Proved(c) /\ call[c].credential = account.credential
    BY <1>1, <1>6, CurrentIs DEF Proved
  <2>3. ASSUME NEW p \in Proofs, p \in proofs PROVE granted[p] = 0 /\ Spendable(c, p, account)
    <3>1. Live(p) /\ p.n = call[c].step
      BY <2>1, <2>2, <2>3 DEF Live
    <3> QED
      BY <2>2, <3>1 DEF SInv, StepsSpent, Spendable
  <2>4. TokenProof \notin proofs
    BY <2>1 DEF TokenProof
  <2>5. account.token = "ISSUED" => granted[TokenProof] = 0
    BY DEF SInv, TokenSpent, TokenProof
  <2>6. OpenSession(c, account, proofs)
    BY <1>6, <2>1
  <2> QED
    BY <1>1, <1>6, <2>3, <2>4, <2>5, <2>6, CurrentIs, AccountSucceeds, SessionKeeps
<1>7. CASE ~Blocked(c, "totp") /\ Wrong(c, account, "totp")
  BY <1>1, <1>7, AccountSucceeds, WrongKeeps
<1> QED
  BY <1>1, <1>2, <1>3, <1>4, <1>5, <1>6, <1>7 DEF CommitAdmin

LEMMA DecideKeeps == ASSUME SInv, NEW c \in Calls, DecideSignIn(c) PROVE SInv'
<1>1. call[c].stage = "open"
  BY DEF DecideSignIn
<1>2. CASE CommitBlocked(c)
  BY <1>2, AccountSucceeds, CountedRefusalKeeps DEF CommitBlocked, Counters
<1> QED
  BY <1>1, <1>2, OtpKeeps, PinKeeps, GuardKeeps, AdminKeeps DEF DecideSignIn

-----------------------------------------------------------------------------
(* The theorems *)

LEMMA InitSInv == SignInInit => SInv
<1> SUFFICES ASSUME SignInInit PROVE SInv
  OBVIOUS
<1>1. account \in Account /\ account.challenges = <<>> /\ account.failures = [k \in Counters |-> 0]
      /\ account.credential = 1 /\ account.token = "NONE" /\ (method # "admin" => ~account.mfaEnabled)
  BY DEF SignInInit, Account, Devices
<1>2. SignInTypes
  BY <1>1 DEF SignInInit, SignInTypes
<1>3. \A c \in Calls : call[c].stage = "idle"
  BY Stages DEF SignInInit
<1>4. (\A p \in Proofs : granted[p] = 0) /\ (\A k \in Counters : judged[k] = 0) /\ session = NoSession
  BY DEF SignInInit
<1>5. \A c \in Calls : ~Judging(c) /\ ~Proved(c) /\ Agrees(c)
  BY <1>3 DEF Judging, Proved, Agrees
<1>6. OfMethod /\ JudgedCounted
  BY <1>1, <1>4, <1>5 DEF OfMethod, JudgedCounted
<1>7. VersionsPast /\ ChallengesSpent /\ StepsSpent /\ TokenSpent /\ ProofsSpentOnce
  BY <1>1, <1>4, <1>5 DEF VersionsPast, ChallengesSpent, StepsSpent, TokenSpent, ProofsSpentOnce
<1> QED
  BY <1>2, <1>4, <1>5, <1>6, <1>7 DEF SInv, SessionOnLiveCredential

LEMMA NextSInv == SInv /\ [SignInNext]_signInVars => SInv'
<1> SUFFICES ASSUME SInv, [SignInNext]_signInVars PROVE SInv'
  OBVIOUS
<1>1. CASE UNCHANGED signInVars
  BY <1>1, AccountSucceeds DEF signInVars, SInv, SignInTypes, OfMethod, JudgedCounted, Agrees, VersionsPast,
     ChallengesSpent, StepsSpent, TokenSpent, ProofsSpentOnce, SessionOnLiveCredential, Judging, Proved, Live
<1> QED
  BY <1>1, RequestKeeps, ChangesKeep, DevicesKeep, LapsesKeep, WindowKeeps, TickKeeps, AttemptKeeps, VerifyKeeps, OpenKeeps,
     DecideKeeps, AbortsKeep DEF SignInNext

LEMMA SpecSInv == SignInSpec => []SInv
BY InitSInv, NextSInv, PTL DEF SignInSpec

LEMMA SInvBounds == SInv => GuessesBounded /\ SignInTypeOK
<1> SUFFICES ASSUME SInv PROVE GuessesBounded /\ SignInTypeOK
  OBVIOUS
<1>1. /\ \A k \in Counters : judged[k] \in Nat /\ judged[k] <= account.failures[k]
      /\ account \in Account /\ account.challenges \in Seq(Challenge)
      /\ account.failures \in [Counters -> 0..SubjectLimit]
  BY DEF SInv, SignInTypes, JudgedCounted, Account
<1>2. \A k \in Counters : account.failures[k] \in 0..SubjectLimit
  BY <1>1
<1>3. \A i \in DOMAIN account.challenges : account.challenges[i] \in Challenge
  BY <1>1
<1>4. GuessesBounded
  BY <1>1, <1>2, <1>3 DEF GuessesBounded, Challenge
<1>5. \A c \in Calls : call[c].stage \in {"idle", "read", "open", "doomed"}
  BY Stages DEF SInv, SignInTypes
<1>6. SignInTypeOK
  BY <1>1, <1>3, <1>5 DEF SignInTypeOK, SInv, SignInTypes, Account, Challenge, ChallengeStatuses, Devices
<1> QED
  BY <1>4, <1>6

\* Every variable of a sign-in keeps its type, the counters their limits.
THEOREM SpecSignInTypeOK == SignInSpec => []SignInTypeOK
BY SpecSInv, SInvBounds, PTL

\* However many guesses overlap, no more wrong ones are judged than the limits
\* of credential-attempt.service.ts and of a challenge allow.
THEOREM SpecGuessesBounded == SignInSpec => []GuessesBounded
BY SpecSInv, SInvBounds, PTL

\* A code, a TOTP step of one secret or an enrollment token opens one session at
\* most, whatever overlaps, aborts, is replaced or is sent again.
THEOREM SpecProofsSpentOnce == SignInSpec => []ProofsSpentOnce
BY SpecSInv, PTL DEF SInv

\* A session stands on the credential, factor and device there are when it is
\* opened, whatever was verified before the transaction.
THEOREM SpecSessionOnLiveCredential == SignInSpec => []SessionOnLiveCredential
BY SpecSInv, PTL DEF SInv

-----------------------------------------------------------------------------
(* The file jobs *)

Verdicts == {"clean", "malware"}

\* The types of FileTypeOK, of every variable.
FileTypes ==
    /\ fileStatus \in [Files -> FileStatuses] /\ key \in [Files -> {"quarantine", "private"}]
    /\ quarantine \subseteq Files /\ private \subseteq Files /\ cleanups \subseteq Files
    /\ verdicts \in [Files -> SUBSET Verdicts] /\ erased \subseteq Files
    /\ work \in [Scanners -> [file : Files \cup {"none"}, step : FileSteps]]
    /\ \A w \in Scanners : work[w].step # "idle" => work[w].file \in Files

\* A worker past the inspection has a genuine file, past the scan a clean one, past the copy one
\* whose private object exists unless retention took it.
Justified(w) ==
    LET f == work[w].file IN
    /\ work[w].step \in {"claim", "scan", "copy", "promote"} => f \in genuine
    /\ work[w].step \in {"copy", "promote"} => "clean" \in verdicts[f]
    /\ work[w].step = "promote" => f \in private \cup erased

\* A quarantined object is discarded, and a private one erased, of a file that is settled for good.
Entitled(w) ==
    LET f == work[w].file IN
    /\ work[w].step = "discard" => fileStatus[f] \in {"REJECTED", "CLEAN", "DELETED"}
    /\ work[w].step \in {"erase", "mark"} => fileStatus[f] \in {"CLEAN", "DELETED"}
    /\ work[w].step = "mark" => f \notin private

\* Once retention has the file, no scan of it is under way: none that could copy it again.
Retained(f) ==
    \/ fileStatus[f] = "DELETED"
    \/ \E w \in Scanners : work[w].file = f /\ work[w].step \in {"erase", "mark"}

NoScanOfRetained ==
    \A f \in Files : Retained(f) =>
      \A w \in Scanners : work[w].file = f => work[w].step \in {"idle", "discard", "erase", "mark"}

FInv ==
    /\ FileTypes
    /\ \A w \in Scanners : Justified(w) /\ Entitled(w)
    /\ NoScanOfRetained
    /\ FilesSafe

-----------------------------------------------------------------------------
(* The invariant, action by action *)

LEMMA InitFInv == FileInit => FInv
BY DEF FileInit, FInv, FileTypes, Justified, Entitled, NoScanOfRetained, Retained, FilesSafe, Free,
       FileStatuses, Scannable, FileSteps, Verdicts

\* A job taken up is of a file retention does not have.
LEMMA ScanFileStep == ASSUME FInv, NEW w \in Scanners, NEW f \in Files, ScanFile(w, f) PROVE FInv'
<1> USE DEF At, facts
<1>0. PICK part \in {"inspect", "discard"} :
        /\ work' = [work EXCEPT ![w] = [file |-> f, step |-> part]]
        /\ fileStatus[f] \in IF part = "inspect" THEN Scannable ELSE {"REJECTED"}
  BY DEF ScanFile, Take
<1>u. UNCHANGED <<fileStatus, key, quarantine, private, cleanups, facts, verdicts, erased>>
  BY DEF ScanFile
<1>1. FileTypes'
  BY <1>0, <1>u DEF FInv, FileTypes, FileStatuses, Scannable, FileSteps
<1>2. ASSUME NEW v \in Scanners PROVE Justified(v)' /\ Entitled(v)'
  BY <1>0, <1>u DEF FInv, FileTypes, Justified, Entitled, Scannable
<1>3. NoScanOfRetained'
  <2>1. fileStatus[f] \notin {"CLEAN", "DELETED"}
    BY <1>0 DEF Scannable
  <2>2. ~Retained(f)
    BY <2>1 DEF FInv, Entitled, Retained
  <2>3. ASSUME NEW g \in Files, Retained(g)' PROVE Retained(g)
    BY <1>0, <1>u, <2>3 DEF FInv, FileTypes, Retained
  <2> QED
    BY <1>0, <1>u, <2>2, <2>3 DEF FInv, FileTypes, NoScanOfRetained
<1>4. FilesSafe'
  BY <1>u DEF FInv, FilesSafe
<1> QED
  BY <1>1, <1>2, <1>3, <1>4 DEF FInv

\* Only a genuine file gets past the inspection.
LEMMA InspectStep == ASSUME FInv, NEW w \in Scanners, Inspect(w) PROVE FInv'
<1> USE DEF At, facts, Scannable, Inspect, Go, AsDeclared
<1>1. FileTypes'
  BY DEF FInv, FileTypes, FileStatuses, FileSteps
<1>2. ASSUME NEW v \in Scanners PROVE Justified(v)' /\ Entitled(v)'
  BY DEF FInv, FileTypes, Justified, Entitled, NoScanOfRetained, Retained, ScansOver
<1>3. NoScanOfRetained'
  BY DEF FInv, FileTypes, Entitled, NoScanOfRetained, Retained, ScansOver
<1>4. FilesSafe'
  BY DEF FInv, FileTypes, Justified, Entitled, NoScanOfRetained, Retained, FilesSafe
<1> QED
  BY <1>1, <1>2, <1>3, <1>4 DEF FInv

\* A claim keeps the row scannable, so its quarantined object is there.
LEMMA ClaimStep == ASSUME FInv, NEW w \in Scanners, Claim(w) PROVE FInv'
<1> USE DEF At, facts, Scannable, Claim, Go
<1>1. FileTypes'
  BY DEF FInv, FileTypes, FileStatuses, FileSteps
<1>2. ASSUME NEW v \in Scanners PROVE Justified(v)' /\ Entitled(v)'
  BY DEF FInv, FileTypes, Justified, Entitled, NoScanOfRetained, Retained, ScansOver
<1>3. NoScanOfRetained'
  BY DEF FInv, FileTypes, Entitled, NoScanOfRetained, Retained, ScansOver
<1>4. FilesSafe'
  BY DEF FInv, FileTypes, Justified, Entitled, NoScanOfRetained, Retained, FilesSafe
<1> QED
  BY <1>1, <1>2, <1>3, <1>4 DEF FInv

\* The scanner's answer is on record before the copy.
LEMMA ScanStep == ASSUME FInv, NEW w \in Scanners, Scan(w) PROVE FInv'
<1> USE DEF At, facts, Scannable, Scan, Go, Verdicts
<1>1. FileTypes'
  BY DEF FInv, FileTypes, FileStatuses, FileSteps
<1>2. ASSUME NEW v \in Scanners PROVE Justified(v)' /\ Entitled(v)'
  BY DEF FInv, FileTypes, Justified, Entitled, NoScanOfRetained, Retained, ScansOver
<1>3. NoScanOfRetained'
  BY DEF FInv, FileTypes, Entitled, NoScanOfRetained, Retained, ScansOver
<1>4. FilesSafe'
  BY DEF FInv, FileTypes, Justified, Entitled, NoScanOfRetained, Retained, FilesSafe
<1> QED
  BY <1>1, <1>2, <1>3, <1>4 DEF FInv

\* A copy is made of no file retention has: its scan would not be over.
LEMMA CopyStep == ASSUME FInv, NEW w \in Scanners, Copy(w) PROVE FInv'
<1> USE DEF At, facts, Scannable, Copy, Go
<1>1. FileTypes'
  BY DEF FInv, FileTypes, FileStatuses, FileSteps
<1>2. ASSUME NEW v \in Scanners PROVE Justified(v)' /\ Entitled(v)'
  BY DEF FInv, FileTypes, Justified, Entitled, NoScanOfRetained, Retained, ScansOver
<1>3. NoScanOfRetained'
  BY DEF FInv, FileTypes, Entitled, NoScanOfRetained, Retained, ScansOver
<1>4. FilesSafe'
  BY DEF FInv, FileTypes, Justified, Entitled, NoScanOfRetained, Retained, FilesSafe
<1> QED
  BY <1>1, <1>2, <1>3, <1>4 DEF FInv

\* The promotion serves what the worker's own steps justified.
LEMMA PromoteStep == ASSUME FInv, NEW w \in Scanners, Promote(w) PROVE FInv'
<1> USE DEF At, facts, Scannable, Promote, Promotable, Leave, Free
<1>1. FileTypes'
  BY DEF FInv, FileTypes, FileStatuses, FileSteps
<1>2. ASSUME NEW v \in Scanners PROVE Justified(v)' /\ Entitled(v)'
  BY DEF FInv, FileTypes, Justified, Entitled, NoScanOfRetained, Retained, ScansOver
<1>3. NoScanOfRetained'
  BY DEF FInv, FileTypes, Entitled, NoScanOfRetained, Retained, ScansOver
<1>4. FilesSafe'
  BY DEF FInv, FileTypes, Justified, Entitled, NoScanOfRetained, Retained, FilesSafe
<1> QED
  BY <1>1, <1>2, <1>3, <1>4 DEF FInv

\* A rejected file stays rejected.
LEMMA RejectStep == ASSUME FInv, NEW w \in Scanners, Reject(w) PROVE FInv'
<1> USE DEF At, facts, Scannable, Reject, Go
<1>1. FileTypes'
  BY DEF FInv, FileTypes, FileStatuses, FileSteps
<1>2. ASSUME NEW v \in Scanners PROVE Justified(v)' /\ Entitled(v)'
  BY DEF FInv, FileTypes, Justified, Entitled, NoScanOfRetained, Retained, ScansOver
<1>3. NoScanOfRetained'
  BY DEF FInv, FileTypes, Entitled, NoScanOfRetained, Retained, ScansOver
<1>4. FilesSafe'
  BY DEF FInv, FileTypes, Justified, Entitled, NoScanOfRetained, Retained, FilesSafe
<1> QED
  BY <1>1, <1>2, <1>3, <1>4 DEF FInv

\* A cleanup is of a promoted file.
LEMMA CleanupQuarantineStep == ASSUME FInv, NEW w \in Scanners, NEW f \in Files, CleanupQuarantine(w, f) PROVE FInv'
<1> USE DEF At, facts, Scannable, CleanupQuarantine, Take
<1>1. FileTypes'
  BY DEF FInv, FileTypes, FileStatuses, FileSteps
<1>2. ASSUME NEW v \in Scanners PROVE Justified(v)' /\ Entitled(v)'
  BY DEF FInv, FileTypes, Justified, Entitled, NoScanOfRetained, Retained, ScansOver
<1>3. NoScanOfRetained'
  BY DEF FInv, FileTypes, Entitled, NoScanOfRetained, Retained, ScansOver
<1>4. FilesSafe'
  BY DEF FInv, FileTypes, Justified, Entitled, NoScanOfRetained, Retained, FilesSafe
<1> QED
  BY <1>1, <1>2, <1>3, <1>4 DEF FInv

\* The quarantined object is removed of a settled file only.
LEMMA DeleteQuarantineStep == ASSUME FInv, NEW w \in Scanners, DeleteQuarantine(w) PROVE FInv'
<1> USE DEF At, facts, Scannable, DeleteQuarantine, Leave, Free
<1>1. FileTypes'
  BY DEF FInv, FileTypes, FileStatuses, FileSteps
<1>2. ASSUME NEW v \in Scanners PROVE Justified(v)' /\ Entitled(v)'
  BY DEF FInv, FileTypes, Justified, Entitled, NoScanOfRetained, Retained, ScansOver
<1>3. NoScanOfRetained'
  BY DEF FInv, FileTypes, Entitled, NoScanOfRetained, Retained, ScansOver
<1>4. FilesSafe'
  BY DEF FInv, FileTypes, Justified, Entitled, NoScanOfRetained, Retained, FilesSafe
<1> QED
  BY <1>1, <1>2, <1>3, <1>4 DEF FInv

\* Retention takes a served file whose scans are over.
LEMMA SelectRetainedStep == ASSUME FInv, NEW w \in Scanners, NEW f \in Files, SelectRetained(w, f) PROVE FInv'
<1> USE DEF At, facts, Scannable, SelectRetained, Take
<1>1. FileTypes'
  BY DEF FInv, FileTypes, FileStatuses, FileSteps
<1>2. ASSUME NEW v \in Scanners PROVE Justified(v)' /\ Entitled(v)'
  BY DEF FInv, FileTypes, Justified, Entitled, NoScanOfRetained, Retained, ScansOver
<1>3. NoScanOfRetained'
  BY DEF FInv, FileTypes, Entitled, NoScanOfRetained, Retained, ScansOver
<1>4. FilesSafe'
  BY DEF FInv, FileTypes, Justified, Entitled, NoScanOfRetained, Retained, FilesSafe
<1> QED
  BY <1>1, <1>2, <1>3, <1>4 DEF FInv

\* A private object goes into erased as it is deleted.
LEMMA DeletePrivateStep == ASSUME FInv, NEW w \in Scanners, DeletePrivate(w) PROVE FInv'
<1> USE DEF At, facts, Scannable, DeletePrivate, Go
<1>1. FileTypes'
  BY DEF FInv, FileTypes, FileStatuses, FileSteps
<1>2. ASSUME NEW v \in Scanners PROVE Justified(v)' /\ Entitled(v)'
  BY DEF FInv, FileTypes, Justified, Entitled, NoScanOfRetained, Retained, ScansOver
<1>3. NoScanOfRetained'
  BY DEF FInv, FileTypes, Entitled, NoScanOfRetained, Retained, ScansOver
<1>4. FilesSafe'
  BY DEF FInv, FileTypes, Justified, Entitled, NoScanOfRetained, Retained, FilesSafe
<1> QED
  BY <1>1, <1>2, <1>3, <1>4 DEF FInv

\* The row follows its object.
LEMMA MarkDeletedStep == ASSUME FInv, NEW w \in Scanners, MarkDeleted(w) PROVE FInv'
<1> USE DEF At, facts, Scannable, MarkDeleted, Leave, Free
<1>1. FileTypes'
  BY DEF FInv, FileTypes, FileStatuses, FileSteps
<1>2. ASSUME NEW v \in Scanners PROVE Justified(v)' /\ Entitled(v)'
  BY DEF FInv, FileTypes, Justified, Entitled, NoScanOfRetained, Retained, ScansOver
<1>3. NoScanOfRetained'
  BY DEF FInv, FileTypes, Entitled, NoScanOfRetained, Retained, ScansOver
<1>4. FilesSafe'
  BY DEF FInv, FileTypes, Justified, Entitled, NoScanOfRetained, Retained, FilesSafe
<1> QED
  BY <1>1, <1>2, <1>3, <1>4 DEF FInv

\* A worker that leaves is entitled to nothing.
LEMMA FailsStep == ASSUME FInv, NEW w \in Scanners, Fails(w) PROVE FInv'
<1> USE DEF At, facts, Scannable, Fails, Leave, Free
<1>1. FileTypes'
  BY DEF FInv, FileTypes, FileStatuses, FileSteps
<1>2. ASSUME NEW v \in Scanners PROVE Justified(v)' /\ Entitled(v)'
  BY DEF FInv, FileTypes, Justified, Entitled, NoScanOfRetained, Retained, ScansOver
<1>3. NoScanOfRetained'
  BY DEF FInv, FileTypes, Entitled, NoScanOfRetained, Retained, ScansOver
<1>4. FilesSafe'
  BY DEF FInv, FileTypes, Justified, Entitled, NoScanOfRetained, Retained, FilesSafe
<1> QED
  BY <1>1, <1>2, <1>3, <1>4 DEF FInv

\* Time moves nothing FInv speaks of.
LEMMA RetentionStep == ASSUME FInv, NEW f \in Files, RetentionChanges(f) PROVE FInv'
BY DEF RetentionChanges, FInv, FileTypes, Justified, Entitled, NoScanOfRetained, Retained, FilesSafe

LEMMA NextFInv == FInv /\ [FileNext]_fileVars => FInv'
<1> SUFFICES ASSUME FInv, [FileNext]_fileVars PROVE FInv'
  OBVIOUS
<1>1. ASSUME NEW w \in Scanners,
             \/ Inspect(w) \/ Claim(w) \/ Scan(w) \/ Copy(w) \/ Promote(w) \/ Reject(w)
             \/ DeleteQuarantine(w) \/ DeletePrivate(w) \/ MarkDeleted(w) \/ Fails(w)
      PROVE  FInv'
  BY <1>1, InspectStep, ClaimStep, ScanStep, CopyStep, PromoteStep, RejectStep,
     DeleteQuarantineStep, DeletePrivateStep, MarkDeletedStep, FailsStep
<1>2. ASSUME NEW w \in Scanners, NEW f \in Files,
             ScanFile(w, f) \/ CleanupQuarantine(w, f) \/ SelectRetained(w, f)
      PROVE  FInv'
  BY <1>2, ScanFileStep, CleanupQuarantineStep, SelectRetainedStep
<1>3. CASE UNCHANGED fileVars
  BY <1>3 DEF fileVars, facts, FInv, FileTypes, Justified, Entitled, NoScanOfRetained, Retained, FilesSafe
<1> QED
  BY <1>1, <1>2, <1>3, RetentionStep DEF FileNext

LEMMA SpecFInv == FileSpec => []FInv
<1> QED
  BY InitFInv, NextFInv, PTL DEF FileSpec

-----------------------------------------------------------------------------
\* Every variable keeps its type.
THEOREM SpecFileTypeOK == FileSpec => []FileTypeOK
<1>1. FInv => FileTypeOK
  BY DEF FInv, FileTypes, FileTypeOK
<1> QED
  BY <1>1, SpecFInv, PTL

\* Whatever jobs overlap, repeat and fail half way, for any number of files and workers: a file is
\* served only if a scan of a genuine upload found nothing, and then its object exists unless
\* retention took it; an upload without a verdict is there; what is marked DELETED is gone.
THEOREM SpecFilesSafe == FileSpec => []FilesSafe
<1>1. FInv => FilesSafe
  BY DEF FInv
<1> QED
  BY <1>1, SpecFInv, PTL

\* A slow job neither serves a rejected file nor rejects a served one: each statement that changes
\* a status asks for the status it changes.
THEOREM SpecVerdictStands == FileSpec => VerdictStands
<1> DEFINE Stands ==
      \A f \in Files :
        /\ fileStatus[f] = "REJECTED" => fileStatus'[f] = "REJECTED"
        /\ fileStatus[f] = "CLEAN" => fileStatus'[f] \in {"CLEAN", "DELETED"}
        /\ fileStatus[f] = "DELETED" => fileStatus'[f] = "DELETED"
<1>1. FInv /\ [FileNext]_fileVars => [Stands]_fileVars
  <2> SUFFICES ASSUME FInv, [FileNext]_fileVars PROVE Stands
    OBVIOUS
  <2>1. ASSUME NEW w \in Scanners, Claim(w) \/ Promote(w) \/ Reject(w) \/ MarkDeleted(w) PROVE Stands
    BY <2>1 DEF Claim, Promote, Promotable, Reject, MarkDeleted, Scannable, FInv, FileTypes
  <2>2. CASE UNCHANGED fileStatus
    BY <2>2
  <2>3. \/ \E w \in Scanners : Claim(w) \/ Promote(w) \/ Reject(w) \/ MarkDeleted(w)
        \/ UNCHANGED fileStatus
    BY DEF FileNext, fileVars, ScanFile, Inspect, Scan, Copy, CleanupQuarantine, DeleteQuarantine,
           SelectRetained, DeletePrivate, Fails, RetentionChanges
  <2> QED
    BY <2>1, <2>2, <2>3
<1> QED
  BY <1>1, SpecFInv, PTL DEF FileSpec, VerdictStands

-----------------------------------------------------------------------------
(* The two senders of a sign-in code: rows *)

\* Attempt numbers, with the one past the limit that a RETRY of the API's may open.
Tries == 1..(MaxAttempts + 1)
LateJobs == [event : Events, attempt : Tries]
Ledgers == [Attempts -> Outcomes \cup {"none"}]

CodeShape ==
    /\ OtpTypeOK
    /\ ledger \in [Events -> Ledgers]
    /\ batch \in [Workers -> SUBSET LateJobs]
    /\ job \in [Workers -> LateJobs \cup {NoJob}]
    /\ step \in [Workers -> Steps]
    /\ sends \in [Events -> Nat]

\* What two senders leave of the outbox's ledger: status s, attempt number n, ledger L, progress i
\* of the API.  Every attempt before the current one has a row, and so has the current one when
\* the API is about to report the next, which is never one past the limit.
CodeFits(s, n, L, i) ==
    /\ \A a \in Attempts : a < n => L[a] # "none"
    /\ s \in {"ABSENT", "PENDING"} => n = 0
    /\ s = "RETRY" /\ n \in Attempts => L[n] # "none"
    /\ s = "RETRY" /\ n >= MaxAttempts => n = MaxAttempts /\ i.phase = "done"
    /\ i.phase \in {"read", "claimed", "sent", "failed"} =>
         /\ i.attempt \in Attempts /\ i.attempt <= n + 1
         /\ i.attempt = n + 1 /\ n \in Attempts => L[n] # "none"

CodesFit == \A e \in Events : CodeFits(status[e], attemptCount[e], ledger[e], inline[e])

\* No row of the ledger is rewritten.
Extends(M, L) == \A a \in Attempts : L[a] # "none" => M[a] = L[a]

\* What LateOutcomeHarmless asks of one event.
RowsForward ==
    \A e \in Events :
      /\ status[e] \in Settled => status'[e] = status[e]
      /\ \A a \in Attempts : ledger[e][a] # "none" => ledger'[e][a] = ledger[e][a]
      /\ attemptCount'[e] \in {attemptCount[e], attemptCount[e] + 1}

\* The status changes and the attempt stays.
LEMMA SameAttemptFits ==
    ASSUME NEW n \in 0..(MaxAttempts + 1), NEW L, NEW M, NEW s, NEW t, NEW i,
           CodeFits(s, n, L, i), Extends(M, L), t \in {"ABSENT", "PENDING"} => n = 0,
           t = "RETRY" => n < MaxAttempts /\ (n \in Attempts => M[n] # "none")
    PROVE  CodeFits(t, n, M, i)
BY MaxAttemptsPositive DEF CodeFits, Extends, Attempts

\* A worker claims the next attempt.
LEMMA NextAttemptFits ==
    ASSUME NEW n \in 0..MaxAttempts, NEW L, NEW M, NEW s, NEW i,
           CodeFits(s, n, L, i), Extends(M, L), n \in Attempts => M[n] # "none"
    PROVE  CodeFits("PROCESSING", n + 1, M, i)
<1>1. \A a \in Attempts : a < n + 1 => M[a] # "none"
  BY MaxAttemptsPositive DEF CodeFits, Extends, Attempts
<1>2. i.phase \in {"read", "claimed", "sent", "failed"} =>
        i.attempt \in Attempts /\ i.attempt <= n + 1 /\ i.attempt # n + 1 + 1
  BY MaxAttemptsPositive DEF CodeFits, Attempts
<1> QED
  BY <1>1, <1>2, MaxAttemptsPositive DEF CodeFits, Attempts

\* The API reports the attempt it has in hand: the current one or the next, and not a closed one.
LEMMA LateOutcomeFits ==
    ASSUME NEW n \in 0..(MaxAttempts + 1), NEW L \in Ledgers, NEW s, NEW i, CodeFits(s, n, L, i),
           i.phase \in {"sent", "failed"}, L[i.attempt] = "none", NEW o \in {"PUBLISHED", "RETRY"},
           NEW M \in Ledgers, M = [a \in Attempts |-> IF a = i.attempt THEN o ELSE L[a]],
           NEW k, k.phase = "done"
    PROVE  i.attempt \in {n, n + 1} /\ i.attempt \in 0..(MaxAttempts + 1) /\ Extends(M, L)
           /\ CodeFits(o, i.attempt, M, k)
<1>1. PICK a \in Attempts : a = i.attempt
  BY DEF CodeFits
<1>2. a <= n + 1 /\ ~(a < n) /\ (a = n + 1 /\ n \in Attempts => L[n] # "none")
  BY <1>1 DEF CodeFits
<1>3. a \in {n, n + 1}
  BY <1>2, MaxAttemptsPositive DEF Attempts
<1>4. Extends(M, L) /\ M[a] = o
  BY <1>1 DEF Extends
<1>5. \A b \in Attempts : b < a => M[b] # "none"
  BY <1>1, <1>2, <1>3, MaxAttemptsPositive DEF CodeFits, Attempts
<1> QED
  BY <1>1, <1>3, <1>4, <1>5, MaxAttemptsPositive DEF CodeFits, Attempts

\* The rows' variables, typed.
RowTypes ==
    /\ status \in [Events -> Statuses]
    /\ attemptCount \in [Events -> 0..(MaxAttempts + 1)]
    /\ ledger \in [Events -> Ledgers]

LEMMA RowsAsTyped == CodeShape => RowTypes
BY DEF CodeShape, OtpTypeOK, RowTypes

LEMMA LeaseOneRow ==
    ASSUME CodeShape, CodesFit, NEW S \in SUBSET Candidates, LeaseRows(S), NEW e \in S
    PROVE  /\ status'[e] \in Statuses /\ attemptCount'[e] \in 0..(MaxAttempts + 1) /\ ledger'[e] \in Ledgers
           /\ CodeFits(status'[e], attemptCount'[e], ledger'[e], inline[e])
           /\ Extends(ledger'[e], ledger[e]) /\ status[e] \notin Settled
           /\ attemptCount'[e] = IF Exhausted(e) THEN attemptCount[e] ELSE attemptCount[e] + 1
<1> DEFINE n == attemptCount[e]  L == ledger[e]  M == ledger'[e]
<1>1. /\ e \in Events /\ n \in 0..(MaxAttempts + 1) /\ L \in Ledgers /\ CodeFits(status[e], n, L, inline[e])
      /\ status[e] \in {"PENDING", "RETRY", "PROCESSING"}
  BY DEF CodeShape, OtpTypeOK, CodesFit, Candidates
<1>2. /\ status'[e] = IF Exhausted(e) THEN "DEAD_LETTER" ELSE "PROCESSING"
      /\ attemptCount'[e] = IF Exhausted(e) THEN n ELSE n + 1
      /\ M = IF Abandoned(e) THEN [L EXCEPT ![n] = IF n >= MaxAttempts THEN "DEAD_LETTER" ELSE "RETRY"] ELSE L
  BY <1>1 DEF LeaseRows
<1>3. M \in Ledgers /\ Extends(M, L)
  <2>1. CASE Abandoned(e)
    <3>1. n \in Attempts => L[n] = "none"
      BY <1>1, <2>1 DEF Abandoned, HasRow
    <3> QED
      BY <1>1, <1>2, <2>1, <3>1 DEF Ledgers, Outcomes, Extends
  <2>2. CASE ~Abandoned(e)
    BY <1>1, <1>2, <2>2 DEF Extends
  <2> QED
    BY <2>1, <2>2
<1>4. n \in Attempts /\ status[e] # "PENDING" => M[n] # "none"
  <2> SUFFICES ASSUME n \in Attempts, status[e] # "PENDING", L[n] = "none" PROVE M[n] # "none"
    BY <1>3 DEF Extends
  <2>1. Abandoned(e)
    BY <1>1, MaxAttemptsPositive DEF CodeFits, Abandoned, HasRow, Attempts
  <2> QED
    BY <1>1, <1>2, <2>1 DEF Ledgers
<1>5. status[e] = "PENDING" => n = 0
  BY <1>1 DEF CodeFits
<1>6. CASE Exhausted(e)
  BY <1>1, <1>2, <1>3, <1>6, SameAttemptFits DEF Statuses, Settled
<1>7. CASE ~Exhausted(e)
  <2>1. n \in 0..MaxAttempts
    BY <1>1, <1>7, MaxAttemptsPositive DEF CodeFits, Exhausted
  <2>2. n \in Attempts => M[n] # "none"
    BY <1>4, <1>5 DEF Attempts
  <2>3. CodeFits("PROCESSING", n + 1, M, inline[e])
    BY <1>1, <1>3, <2>1, <2>2, NextAttemptFits
  <2> QED
    BY <1>1, <1>2, <1>3, <1>7, <2>1, <2>3, MaxAttemptsPositive DEF Statuses, Settled
<1> QED
  BY <1>6, <1>7

LEMMA LeaseCodes ==
    ASSUME CodeShape, CodesFit, NEW S \in SUBSET Candidates, LeaseRows(S), inline' = inline
    PROVE  /\ RowTypes' /\ CodesFit' /\ RowsForward
           /\ \A e \in Events : attemptCount'[e] =
                IF e \in S /\ ~Exhausted(e) THEN attemptCount[e] + 1 ELSE attemptCount[e]
<1>1. ASSUME NEW e \in Events
      PROVE  /\ status'[e] \in Statuses /\ attemptCount'[e] \in 0..(MaxAttempts + 1) /\ ledger'[e] \in Ledgers
             /\ CodeFits(status'[e], attemptCount'[e], ledger'[e], inline[e])
             /\ Extends(ledger'[e], ledger[e]) /\ (status[e] \in Settled => status'[e] = status[e])
             /\ attemptCount'[e] = IF e \in S /\ ~Exhausted(e) THEN attemptCount[e] + 1 ELSE attemptCount[e]
  <2>1. CASE e \in S
    BY <2>1, LeaseOneRow
  <2>2. CASE e \notin S
    <3>1. status'[e] = status[e] /\ attemptCount'[e] = attemptCount[e] /\ ledger'[e] = ledger[e]
      BY <2>2 DEF LeaseRows
    <3> QED
      BY <2>2, <3>1 DEF CodeShape, OtpTypeOK, CodesFit, Extends
  <2> QED
    BY <2>1, <2>2
<1>2. RowTypes'
  <2>1. /\ status' = [e \in Events |-> status'[e]]
        /\ attemptCount' = [e \in Events |-> attemptCount'[e]]
        /\ ledger' = [e \in Events |-> ledger'[e]]
    BY DEF LeaseRows
  <2> QED
    BY <1>1, <2>1 DEF RowTypes
<1>3. CodesFit'
  BY <1>1 DEF CodesFit
<1>4. RowsForward
  <2> SUFFICES ASSUME NEW e \in Events
               PROVE  /\ status[e] \in Settled => status'[e] = status[e]
                      /\ \A a \in Attempts : ledger[e][a] # "none" => ledger'[e][a] = ledger[e][a]
                      /\ attemptCount'[e] \in {attemptCount[e], attemptCount[e] + 1}
    BY DEF RowsForward
  <2> QED
    BY <1>1 DEF Extends
<1> QED
  BY <1>1, <1>2, <1>3, <1>4

\* The worker's outcome closes the attempt the row is in.
LEMMA RecordCodes ==
    ASSUME CodeShape, CodesFit, NEW j \in LateJobs, NEW o \in {"PUBLISHED", FailureOutcome(j)}, Record(j, o),
           inline' = inline
    PROVE  RowTypes' /\ CodesFit' /\ RowsForward /\ attemptCount' = attemptCount
<1>1. CASE ~Owns(j)
  BY <1>1 DEF Record, rows, CodeShape, OtpTypeOK, RowTypes, CodesFit, RowsForward
<1>2. CASE Owns(j)
  <2> DEFINE e == j.event
  <2>1. /\ e \in Events /\ j.attempt = attemptCount[e] /\ attemptCount[e] \in 0..(MaxAttempts + 1)
        /\ ledger[e] \in Ledgers /\ CodeFits("PROCESSING", attemptCount[e], ledger[e], inline[e])
        /\ status[e] = "PROCESSING" /\ (j.attempt \in Attempts => ledger[e][j.attempt] = "none")
        /\ j.attempt \in Tries
    BY <1>2 DEF CodeShape, OtpTypeOK, CodesFit, LateJobs, Owns, HasRow
  <2>2. /\ status' = [status EXCEPT ![e] = o] /\ ledger' = [ledger EXCEPT ![e] = [ledger[e] EXCEPT ![j.attempt] = o]]
        /\ attemptCount' = attemptCount
    BY <1>2 DEF Record
  <2>3. o \in Outcomes /\ (o = "RETRY" => j.attempt < MaxAttempts)
    BY <2>1, MaxAttemptsPositive DEF FailureOutcome, Outcomes, Tries
  <2>4. PICK M : M = [ledger[e] EXCEPT ![j.attempt] = o]
    OBVIOUS
  <2>5. M \in Ledgers /\ Extends(M, ledger[e]) /\ (j.attempt \in Attempts => M[j.attempt] = o)
    BY <2>1, <2>3, <2>4 DEF Ledgers, Extends
  <2>6. CodeFits(o, attemptCount[e], M, inline[e])
    BY <2>1, <2>3, <2>5, SameAttemptFits DEF Outcomes
  <2>7. RowTypes'
    BY <2>1, <2>2, <2>3, <2>4, <2>5 DEF CodeShape, OtpTypeOK, RowTypes, Outcomes, Statuses
  <2>8. /\ status'[e] = o /\ ledger'[e] = M
        /\ \A x \in Events \ {e} : status'[x] = status[x] /\ ledger'[x] = ledger[x]
    BY <2>1, <2>2, <2>4 DEF CodeShape, OtpTypeOK
  <2>9. CodesFit'
    BY <2>2, <2>6, <2>8 DEF CodesFit
  <2>10. RowsForward
    BY <2>1, <2>2, <2>5, <2>8 DEF RowsForward, Settled, Extends
  <2> QED
    BY <2>2, <2>7, <2>9, <2>10
<1> QED
  BY <1>1, <1>2

\* The outcome the API writes.
LEMMA InlineOutcomeCodes ==
    ASSUME CodeShape, CodesFit, NEW e \in Events, inline[e].phase \in {"sent", "failed"},
           NEW o \in {"PUBLISHED", "RETRY"}, InlineOutcome(e, o, FALSE), status[e] = "PROCESSING",
           LedgerOpen(e, inline[e].attempt), NEW p, p = "done", Ended(e, p)
    PROVE  RowTypes' /\ CodesFit' /\ RowsForward /\ \A x \in Events : attemptCount[x] <= attemptCount'[x]
<1> DEFINE a == inline[e].attempt
<1>1. /\ CodeFits("PROCESSING", attemptCount[e], ledger[e], inline[e]) /\ attemptCount[e] \in 0..(MaxAttempts + 1)
      /\ ledger[e] \in Ledgers
  BY DEF CodeShape, OtpTypeOK, CodesFit
<1>2. a \in Attempts /\ ledger[e][a] = "none"
  BY <1>1 DEF CodeFits, LedgerOpen, HasRow
<1>3. PICK M : M = [n \in Attempts |-> IF n = a THEN o ELSE ledger[e][n]]
  OBVIOUS
<1>4. M \in Ledgers
  BY <1>1, <1>3 DEF Ledgers, Outcomes
<1>5. /\ status' = [status EXCEPT ![e] = o] /\ attemptCount' = [attemptCount EXCEPT ![e] = a]
      /\ ledger' = [ledger EXCEPT ![e] = M]
  BY <1>3 DEF InlineOutcome
<1>6. inline'[e].phase = "done" /\ \A x \in Events \ {e} : inline'[x] = inline[x]
  BY DEF Ended, CodeShape, OtpTypeOK
<1>7. PICK k : k = inline'[e]
  OBVIOUS
<1>8. /\ a \in {attemptCount[e], attemptCount[e] + 1} /\ a \in 0..(MaxAttempts + 1) /\ Extends(M, ledger[e])
      /\ CodeFits(o, a, M, k)
  BY <1>1, <1>2, <1>3, <1>4, <1>6, <1>7, LateOutcomeFits
<1>9. /\ status'[e] = o /\ ledger'[e] = M /\ attemptCount'[e] = a
      /\ \A x \in Events \ {e} : status'[x] = status[x] /\ ledger'[x] = ledger[x] /\ attemptCount'[x] = attemptCount[x]
  BY <1>5 DEF CodeShape, OtpTypeOK
<1>10. RowTypes'
  BY <1>4, <1>5, <1>8 DEF CodeShape, OtpTypeOK, RowTypes, Statuses
<1>11. CodesFit'
  BY <1>6, <1>7, <1>8, <1>9 DEF CodesFit
<1>12. RowsForward
  BY <1>8, <1>9 DEF RowsForward, Extends, Settled
<1>13. \A x \in Events : attemptCount[x] \in Nat /\ attemptCount[x] <= attemptCount'[x]
  BY <1>1, <1>8, <1>9 DEF CodeShape, OtpTypeOK
<1> QED
  BY <1>10, <1>11, <1>12, <1>13

-----------------------------------------------------------------------------
(* The two senders of a sign-in code: jobs and sends *)

\* Every held job is of an attempt already issued, nobody else holds it, and a worker that is not
\* idle is on one of its own.
JobsHeld ==
    \A w \in Workers :
      /\ \A j \in batch[w] : j.attempt <= attemptCount[j.event]
      /\ step[w] = "idle" <=> job[w] = NoJob
      /\ step[w] # "idle" => job[w] \in batch[w]
      /\ \A v \in Workers \ {w} : batch[v] \cap batch[w] = {}

\* Attempts of the event a worker holds and has not begun.
Unstarted(e) == {a \in Tries : \E w \in Workers : [event |-> e, attempt |-> a] \in batch[w] \ {job[w]}}

\* What the API may still send, or has sent, of itself.
Extra(i) == IF i.phase \in {"waiting", "read"} THEN 0 ELSE 1

\* A send is paid for by an attempt of the worker or is the one of the API.
SendsPaid ==
    \A e \in Events : sends[e] + Cardinality(Unstarted(e)) <= attemptCount[e] + Extra(inline[e])

CodeInv == CodeShape /\ CodesFit /\ JobsHeld /\ SendsPaid

LEMMA UnstartedFinite ==
    ASSUME NEW e PROVE IsFiniteSet(Unstarted(e)) /\ Cardinality(Unstarted(e)) \in Nat
<1>1. IsFiniteSet(Tries)
  BY FS_Interval, MaxAttemptsPositive DEF Tries
<1>2. Unstarted(e) \subseteq Tries
  BY DEF Unstarted
<1> QED
  BY <1>1, <1>2, FS_Subset, FS_CardinalityType

\* The workers stand still and no attempt is taken back; what the API sends is its own.
LEMMA ApiMoves ==
    ASSUME CodeInv, NEW e \in Events, NEW i \in [phase : InlinePhases, attempt : 0..(MaxAttempts + 1)],
           inline' = [inline EXCEPT ![e] = i], NEW d \in {0, 1}, sends' = [sends EXCEPT ![e] = @ + d],
           d + Extra(inline[e]) <= Extra(i), UNCHANGED local, RowTypes', CodesFit', RowsForward,
           \A x \in Events : attemptCount[x] <= attemptCount'[x]
    PROVE  CodeInv' /\ RowsForward
<1>0. CodeShape /\ JobsHeld /\ SendsPaid /\ UNCHANGED <<batch, job, step>>
  BY DEF CodeInv, local
<1>1. /\ inline'[e] = i /\ sends'[e] = sends[e] + d
      /\ \A x \in Events \ {e} : inline'[x] = inline[x] /\ sends'[x] = sends[x]
      /\ \A x \in Events : sends[x] \in Nat /\ attemptCount[x] \in Nat /\ attemptCount'[x] \in Nat
  BY <1>0 DEF CodeShape, OtpTypeOK, RowTypes
<1>2. CodeShape'
  <2>1. sends' \in [Events -> Nat]
    BY <1>0, <1>1 DEF CodeShape
  <2>2. inline' \in [Events -> [phase : InlinePhases, attempt : 0..(MaxAttempts + 1)]]
    BY <1>0 DEF CodeShape, OtpTypeOK
  <2> QED
    BY <1>0, <2>1, <2>2 DEF CodeShape, OtpTypeOK, RowTypes
<1>3. JobsHeld'
  <2>1. \A w \in Workers : \A j \in batch[w] : j.event \in Events /\ j.attempt \in Nat
    BY <1>0 DEF CodeShape, LateJobs, Tries
  <2>2. \A w \in Workers : \A j \in batch[w] : j.attempt <= attemptCount'[j.event]
    BY <1>0, <1>1, <2>1 DEF JobsHeld
  <2> QED
    BY <1>0, <2>2 DEF JobsHeld
<1>4. ASSUME NEW x \in Events
      PROVE  sends'[x] + Cardinality(Unstarted(x)') <= attemptCount'[x] + Extra(inline'[x])
  <2>1. PICK n \in Nat : n = Cardinality(Unstarted(x))
    BY UnstartedFinite
  <2>2. Unstarted(x)' = Unstarted(x)
    BY <1>0 DEF Unstarted
  <2>3. \A j : Extra(j) \in {0, 1}
    BY DEF Extra
  <2>4. sends[x] + n <= attemptCount[x] + Extra(inline[x])
    BY <1>0, <2>1 DEF SendsPaid
  <2>5. CASE x = e
    BY <1>1, <2>1, <2>2, <2>3, <2>4, <2>5
  <2>6. CASE x # e
    <3>1. inline'[x] = inline[x] /\ sends'[x] = sends[x]
      BY <1>1, <2>6
    <3> QED
      BY <1>1, <2>1, <2>2, <2>3, <2>4, <3>1
  <2> QED
    BY <2>5, <2>6
<1> QED
  BY <1>2, <1>3, <1>4 DEF CodeInv, SendsPaid

\* The API's request goes on without touching the rows.
LEMMA ApiGoesOn ==
    ASSUME CodeInv, NEW e \in Events, inline[e].phase \in {"read", "claimed", "sent", "failed"},
           NEW p \in {"sent", "failed", "done"}, Ended(e, p), UNCHANGED <<rows, local, sends>>
    PROVE  CodeInv' /\ RowsForward
<1>0. CodeShape /\ CodesFit /\ UNCHANGED <<status, attemptCount, due, ledger>>
  BY DEF CodeInv, rows
<1>1. PICK i : i = [inline[e] EXCEPT !.phase = p]
  OBVIOUS
<1>2. /\ i \in [phase : InlinePhases, attempt : 0..(MaxAttempts + 1)] /\ i.phase = p /\ i.attempt = inline[e].attempt
      /\ inline' = [inline EXCEPT ![e] = i] /\ inline'[e] = i /\ \A x \in Events \ {e} : inline'[x] = inline[x]
  BY <1>0, <1>1 DEF CodeShape, OtpTypeOK, InlinePhases, Ended
<1>3. CodeFits(status[e], attemptCount[e], ledger[e], i)
  BY <1>0, <1>2 DEF CodesFit, CodeFits
<1>4. CodesFit' /\ RowTypes' /\ RowsForward
  BY <1>0, <1>2, <1>3 DEF CodesFit, CodeShape, OtpTypeOK, RowTypes, RowsForward
<1>5. sends' = [sends EXCEPT ![e] = @ + 0] /\ 0 + Extra(inline[e]) <= Extra(i)
  BY <1>0, <1>2 DEF CodeShape, Extra
<1>6. \A x \in Events : attemptCount[x] <= attemptCount'[x]
  BY <1>0 DEF CodeShape, OtpTypeOK
<1> QED
  BY <1>2, <1>4, <1>5, <1>6, ApiMoves

LEMMA InlineReadInv == ASSUME CodeInv, NEW e \in Events, InlineRead(e) PROVE CodeInv' /\ RowsForward
<1>0. /\ CodeShape /\ CodesFit /\ UNCHANGED <<status, attemptCount, due, ledger, batch, job, step, sends>>
      /\ inline[e].phase = "waiting" /\ status[e] \in {"PENDING", "RETRY"}
  BY DEF CodeInv, InlineRead, vars
<1>1. PICK i : i = [phase |-> "read", attempt |-> attemptCount[e] + 1]
  OBVIOUS
<1>2. /\ CodeFits(status[e], attemptCount[e], ledger[e], inline[e]) /\ attemptCount[e] \in 0..(MaxAttempts + 1)
  BY <1>0 DEF CodesFit, CodeShape, OtpTypeOK
<1>3. attemptCount[e] + 1 \in Attempts
  BY <1>0, <1>2, MaxAttemptsPositive DEF CodeFits, Attempts
<1>4. /\ i \in [phase : InlinePhases, attempt : 0..(MaxAttempts + 1)]
      /\ inline' = [inline EXCEPT ![e] = i] /\ inline'[e] = i /\ \A x \in Events \ {e} : inline'[x] = inline[x]
  BY <1>0, <1>1, <1>3, MaxAttemptsPositive DEF CodeShape, OtpTypeOK, InlinePhases, InlineRead, Attempts
<1>5. CodeFits(status[e], attemptCount[e], ledger[e], i)
  BY <1>0, <1>1, <1>2, <1>3, MaxAttemptsPositive DEF CodeFits, Attempts
<1>6. CodesFit' /\ RowTypes' /\ RowsForward
  BY <1>0, <1>4, <1>5 DEF CodesFit, CodeShape, OtpTypeOK, RowTypes, RowsForward
<1>7. sends' = [sends EXCEPT ![e] = @ + 0] /\ 0 + Extra(inline[e]) <= Extra(i)
  BY <1>0, <1>1 DEF CodeShape, Extra
<1>8. \A x \in Events : attemptCount[x] <= attemptCount'[x]
  BY <1>0 DEF CodeShape, OtpTypeOK
<1> QED
  BY <1>0, <1>4, <1>6, <1>7, <1>8, ApiMoves DEF local

LEMMA InlineClaimInv == ASSUME CodeInv, NEW e \in Events, InlineClaim(e) PROVE CodeInv' /\ RowsForward
<1>0. /\ CodeShape /\ CodesFit /\ UNCHANGED <<attemptCount, ledger, batch, job, step>> /\ inline[e].phase = "read"
  BY DEF CodeInv, InlineClaim, local
<1>1. CASE status[e] \notin {"PENDING", "RETRY"}
  <2>1. Ended(e, "done") /\ UNCHANGED <<rows, local, sends>>
    BY <1>0, <1>1 DEF InlineClaim, Ended, rows, local
  <2> QED
    BY <1>0, <2>1, ApiGoesOn
<1>2. CASE status[e] \in {"PENDING", "RETRY"}
  <2>1. PICK i : i = [inline[e] EXCEPT !.phase = "claimed"]
    OBVIOUS
  <2>2. /\ i \in [phase : InlinePhases, attempt : 0..(MaxAttempts + 1)]
        /\ i.phase = "claimed" /\ i.attempt = inline[e].attempt
        /\ inline' = [inline EXCEPT ![e] = i] /\ inline'[e] = i /\ \A x \in Events \ {e} : inline'[x] = inline[x]
        /\ status' = [status EXCEPT ![e] = "PROCESSING"] /\ sends' = [sends EXCEPT ![e] = @ + 1]
    BY <1>0, <1>2, <2>1 DEF CodeShape, OtpTypeOK, InlinePhases, InlineClaim
  <2>3. CodeFits("PROCESSING", attemptCount[e], ledger[e], i)
    BY <1>0, <2>2 DEF CodesFit, CodeFits
  <2>4. status'[e] = "PROCESSING" /\ \A x \in Events \ {e} : status'[x] = status[x]
    BY <1>0, <2>2 DEF CodeShape, OtpTypeOK
  <2>5. CodesFit' /\ RowTypes' /\ RowsForward
    BY <1>0, <1>2, <2>2, <2>3, <2>4
       DEF CodesFit, CodeShape, OtpTypeOK, RowTypes, RowsForward, Settled, Statuses
  <2>6. 1 + Extra(inline[e]) <= Extra(i)
    BY <1>0, <2>2 DEF Extra
  <2>7. \A x \in Events : attemptCount[x] <= attemptCount'[x]
    BY <1>0 DEF CodeShape, OtpTypeOK
  <2> QED
    BY <1>0, <2>2, <2>5, <2>6, <2>7, ApiMoves DEF local
<1> QED
  BY <1>1, <1>2

\* After the provider: the outcome is written, or the rows stay as they are.
LEMMA InlineReportInv ==
    ASSUME CodeInv, NEW e \in Events, InlineSucceed(e) \/ InlineFail(e) PROVE CodeInv' /\ RowsForward
<1>0. CodeShape /\ CodesFit /\ UNCHANGED <<local, sends>> /\ inline[e].phase \in {"sent", "failed"}
  BY DEF CodeInv, InlineSucceed, InlineFail
<1>1. PICK o \in {"PUBLISHED", "RETRY"}, p \in {"failed", "done"} :
        /\ InlineOutcome(e, o, FALSE) /\ Ended(e, p)
        /\ status[e] = "PROCESSING" /\ LedgerOpen(e, inline[e].attempt) => p = "done"
  BY DEF InlineSucceed, InlineFail
<1>2. CASE status[e] = "PROCESSING" /\ LedgerOpen(e, inline[e].attempt)
  <2>1. p = "done" /\ RowTypes' /\ CodesFit' /\ RowsForward /\ \A x \in Events : attemptCount[x] <= attemptCount'[x]
    BY <1>0, <1>1, <1>2, InlineOutcomeCodes
  <2>2. PICK i : i = [inline[e] EXCEPT !.phase = p]
    OBVIOUS
  <2>3. i \in [phase : InlinePhases, attempt : 0..(MaxAttempts + 1)] /\ inline' = [inline EXCEPT ![e] = i]
    BY <1>0, <1>1, <2>2 DEF CodeShape, OtpTypeOK, InlinePhases, Ended
  <2>4. sends' = [sends EXCEPT ![e] = @ + 0] /\ 0 + Extra(inline[e]) <= Extra(i)
    BY <1>0, <2>1, <2>2 DEF CodeShape, OtpTypeOK, Extra
  <2> QED
    BY <1>0, <2>1, <2>3, <2>4, ApiMoves
<1>3. CASE ~(status[e] = "PROCESSING" /\ LedgerOpen(e, inline[e].attempt))
  <2>1. UNCHANGED rows
    BY <1>1, <1>3 DEF InlineOutcome
  <2> QED
    BY <1>0, <1>1, <2>1, ApiGoesOn
<1> QED
  BY <1>2, <1>3

LEMMA InlineStepInv ==
    ASSUME CodeInv, NEW e \in Events,
           InlineRead(e) \/ InlineClaim(e) \/ InlineSend(e) \/ InlineSucceed(e) \/ InlineFail(e) \/ InlineError(e)
    PROVE  CodeInv' /\ RowsForward
<1>1. CASE InlineSend(e) \/ InlineError(e)
  <2>1. UNCHANGED <<rows, local, sends>> /\ inline[e].phase \in {"read", "claimed", "sent", "failed"}
    BY <1>1 DEF InlineSend, InlineError, vars, rows, local, CodeInv, CodeShape, OtpTypeOK, InlinePhases
  <2>2. PICK p \in {"sent", "failed", "done"} : Ended(e, p)
    BY <1>1 DEF InlineSend, InlineError, Ended
  <2> QED
    BY <2>1, <2>2, ApiGoesOn
<1> QED
  BY <1>1, InlineReadInv, InlineClaimInv, InlineReportInv

\* The API stands still: what is left to show is the rows, the jobs and what is unstarted.
LEMMA WorkersMove ==
    ASSUME CodeInv, RowTypes', CodesFit', RowsForward, inline' = inline,
           batch' \in [Workers -> SUBSET LateJobs], job' \in [Workers -> LateJobs \cup {NoJob}],
           step' \in [Workers -> Steps], sends' \in [Events -> Nat], JobsHeld',
           \A x \in Events : sends'[x] + Cardinality(Unstarted(x)') - attemptCount'[x]
                               <= sends[x] + Cardinality(Unstarted(x)) - attemptCount[x]
    PROVE  CodeInv' /\ RowsForward
<1>1. CodeShape'
  BY DEF CodeInv, CodeShape, OtpTypeOK, RowTypes
<1>2. ASSUME NEW x \in Events
      PROVE  sends'[x] + Cardinality(Unstarted(x)') <= attemptCount'[x] + Extra(inline'[x])
  <2>1. PICK n \in Nat, m \in Nat : n = Cardinality(Unstarted(x)) /\ m = Cardinality(Unstarted(x)')
    <3>1. Cardinality(Unstarted(x)) \in Nat /\ Cardinality(Unstarted(x)') \in Nat
      <4>1. Cardinality(Unstarted(x)')  \in Nat
        <5>1. IsFiniteSet(Tries) /\ Unstarted(x)' \subseteq Tries
          BY FS_Interval, MaxAttemptsPositive DEF Tries, Unstarted
        <5> QED
          BY <5>1, FS_Subset, FS_CardinalityType
      <4> QED
        BY <4>1, UnstartedFinite
    <3> QED
      BY <3>1
  <2>2. /\ sends[x] + n <= attemptCount[x] + Extra(inline[x]) /\ Extra(inline[x]) \in {0, 1}
        /\ sends'[x] + m - attemptCount'[x] <= sends[x] + n - attemptCount[x]
    BY <2>1 DEF CodeInv, SendsPaid, Extra
  <2>3. /\ sends[x] \in Nat /\ sends'[x] \in Nat /\ attemptCount[x] \in Nat /\ attemptCount'[x] \in Nat
    BY DEF CodeInv, CodeShape, OtpTypeOK, RowTypes
  <2> QED
    BY <2>1, <2>2, <2>3
<1> QED
  BY <1>1, <1>2 DEF CodeInv, SendsPaid

\* Fewer attempts wait to be begun, or as many.
LEMMA FewerUnstarted ==
    ASSUME NEW x, NEW U, U \subseteq Unstarted(x)
    PROVE  Cardinality(U) \in Nat /\ Cardinality(U) <= Cardinality(Unstarted(x))
BY UnstartedFinite, FS_Subset, FS_CardinalityType

LEMMA EventStepCodes ==
    ASSUME CodeInv, NEW e \in Events, EventStep(e), UNCHANGED <<inline, sends>> PROVE CodeInv' /\ RowsForward
<1>0. /\ CodeShape /\ CodesFit /\ JobsHeld /\ UNCHANGED <<attemptCount, ledger, batch, job, step, inline, sends>>
  BY DEF CodeInv, EventStep, Enqueue, BackoffElapses, LeaseExpires, local
<1>1. status' = status \/ (status[e] = "ABSENT" /\ status' = [status EXCEPT ![e] = "PENDING"])
  BY DEF EventStep, Enqueue, BackoffElapses, LeaseExpires
<1>2. RowTypes' /\ CodesFit' /\ RowsForward
  <2>1. CASE status' = status
    BY <1>0, <2>1 DEF CodeShape, OtpTypeOK, RowTypes, CodesFit, RowsForward
  <2>2. CASE status[e] = "ABSENT" /\ status' = [status EXCEPT ![e] = "PENDING"]
    <3>1. status'[e] = "PENDING" /\ \A x \in Events \ {e} : status'[x] = status[x]
      BY <1>0, <2>2 DEF CodeShape, OtpTypeOK
    <3>2. CodeFits("PENDING", attemptCount[e], ledger[e], inline[e])
      BY <1>0, <2>2 DEF CodesFit, CodeFits
    <3>3. CodesFit'
      BY <1>0, <3>1, <3>2 DEF CodesFit
    <3> QED
      BY <1>0, <2>2, <3>1, <3>3 DEF CodeShape, OtpTypeOK, RowTypes, RowsForward, Statuses, Settled
  <2> QED
    BY <1>1, <2>1, <2>2
<1>3. \A x \in Events : Unstarted(x)' = Unstarted(x)
  BY <1>0 DEF Unstarted
<1>4. \A x \in Events : sends'[x] + Cardinality(Unstarted(x)') - attemptCount'[x]
                          <= sends[x] + Cardinality(Unstarted(x)) - attemptCount[x]
  <2> TAKE x \in Events
  <2>1. sends[x] \in Nat /\ attemptCount[x] \in Nat /\ Cardinality(Unstarted(x)) \in Nat
    BY <1>0, UnstartedFinite DEF CodeShape, OtpTypeOK
  <2> QED
    BY <1>0, <1>3, <2>1
<1>5. JobsHeld'
  BY <1>0 DEF JobsHeld
<1> QED
  BY <1>0, <1>2, <1>4, <1>5, WorkersMove DEF CodeShape

\* The worker leaves its job, or the job in hand moves on: no attempt is issued and none is begun.
LEMMA NothingBegun ==
    ASSUME CodeInv, RowTypes', CodesFit', RowsForward, UNCHANGED <<inline, attemptCount, sends>>, NEW w \in Workers,
           NEW B \in SUBSET LateJobs, NEW j \in LateJobs \cup {NoJob}, NEW s \in Steps,
           batch' = [batch EXCEPT ![w] = B], job' = [job EXCEPT ![w] = j], step' = [step EXCEPT ![w] = s],
           B \subseteq batch[w], s = "idle" <=> j = NoJob, s # "idle" => j \in B,
           B \ {j} \subseteq batch[w] \ {job[w]}
    PROVE  CodeInv' /\ RowsForward
<1>0. CodeShape /\ JobsHeld
  BY DEF CodeInv
<1>1. /\ batch'[w] = B /\ job'[w] = j /\ step'[w] = s
      /\ \A v \in Workers \ {w} : batch'[v] = batch[v] /\ job'[v] = job[v] /\ step'[v] = step[v]
  BY <1>0 DEF CodeShape
<1>2. JobsHeld'
  <2>1. \A v \in Workers : batch'[v] \subseteq batch[v]
    BY <1>1
  <2>2. ASSUME NEW v \in Workers
        PROVE  /\ \A k \in batch'[v] : k.attempt <= attemptCount'[k.event]
               /\ \A u \in Workers \ {v} : batch'[u] \cap batch'[v] = {}
    BY <1>0, <2>1 DEF JobsHeld
  <2>3. ASSUME NEW v \in Workers
        PROVE  (step'[v] = "idle" <=> job'[v] = NoJob) /\ (step'[v] # "idle" => job'[v] \in batch'[v])
    BY <1>0, <1>1 DEF JobsHeld
  <2> QED
    BY <2>2, <2>3 DEF JobsHeld
<1>3. \A x \in Events : Unstarted(x)' \subseteq Unstarted(x)
  <2>1. \A v \in Workers : batch'[v] \ {job'[v]} \subseteq batch[v] \ {job[v]}
    BY <1>1
  <2> QED
    BY <2>1 DEF Unstarted
<1>4. \A x \in Events : sends'[x] + Cardinality(Unstarted(x)') - attemptCount'[x]
                          <= sends[x] + Cardinality(Unstarted(x)) - attemptCount[x]
  <2> TAKE x \in Events
  <2>1. PICK n \in Nat, m \in Nat : n = Cardinality(Unstarted(x)) /\ m = Cardinality(Unstarted(x)') /\ m <= n
    BY <1>3, FewerUnstarted, UnstartedFinite
  <2>2. sends[x] \in Nat /\ attemptCount[x] \in Nat
    BY <1>0 DEF CodeShape, OtpTypeOK
  <2> QED
    BY <2>1, <2>2
<1>5. /\ batch' \in [Workers -> SUBSET LateJobs] /\ job' \in [Workers -> LateJobs \cup {NoJob}]
      /\ step' \in [Workers -> Steps] /\ sends' \in [Events -> Nat]
  BY <1>0 DEF CodeShape
<1> QED
  BY <1>2, <1>4, <1>5, WorkersMove

\* A job is begun: it was nobody else's.
LEMMA StartCodes == ASSUME CodeInv, NEW w \in Workers, StartJob(w), OtpWorkerStep(w) PROVE CodeInv' /\ RowsForward
<1>0. CodeShape /\ CodesFit /\ JobsHeld /\ UNCHANGED <<status, attemptCount, ledger, batch, inline>>
  BY DEF CodeInv, StartJob, OtpWorkerStep, rows
<1>1. PICK j \in batch[w] : job' = [job EXCEPT ![w] = j]
  BY DEF StartJob
<1>2. /\ j \in LateJobs /\ j.event \in Events /\ j.attempt \in Tries /\ j # NoJob /\ step[w] = "idle" /\ job[w] = NoJob
      /\ step' = [step EXCEPT ![w] = "handle"]
  BY <1>0, <1>1 DEF CodeShape, LateJobs, NoJob, Tries, StartJob, JobsHeld
<1>3. /\ job'[w] = j /\ step'[w] = "handle"
      /\ \A v \in Workers \ {w} : job'[v] = job[v] /\ step'[v] = step[v]
      /\ job' \in [Workers -> LateJobs \cup {NoJob}] /\ step' \in [Workers -> Steps]
  BY <1>0, <1>1, <1>2 DEF CodeShape, Steps
<1>4. sends' = [e \in Events |-> IF j.event = e THEN sends[e] + 1 ELSE sends[e]]
  BY <1>2, <1>3 DEF OtpWorkerStep
<1>5. RowTypes' /\ CodesFit' /\ RowsForward /\ sends' \in [Events -> Nat]
  BY <1>0, <1>4 DEF CodeShape, OtpTypeOK, RowTypes, CodesFit, RowsForward
<1>6. JobsHeld'
  BY <1>0, <1>1, <1>2, <1>3 DEF JobsHeld
<1>7. \A x \in Events : sends'[x] + Cardinality(Unstarted(x)') - attemptCount'[x]
                          <= sends[x] + Cardinality(Unstarted(x)) - attemptCount[x]
  <2> TAKE x \in Events
  <2>0. sends[x] \in Nat /\ attemptCount[x] \in Nat
    BY <1>0 DEF CodeShape, OtpTypeOK
  <2>1. Unstarted(x)' \subseteq Unstarted(x)
    <3>1. \A v \in Workers : batch'[v] \ {job'[v]} \subseteq batch[v] \ {job[v]}
      <4>1. NoJob \notin batch[w]
        BY <1>0 DEF CodeShape, LateJobs, NoJob, Tries
      <4> QED
        BY <1>0, <1>2, <1>3, <4>1
    <3> QED
      BY <3>1 DEF Unstarted
  <2>2. CASE x # j.event
    <3>1. PICK n \in Nat, m \in Nat : n = Cardinality(Unstarted(x)) /\ m = Cardinality(Unstarted(x)') /\ m <= n
      BY <2>1, FewerUnstarted, UnstartedFinite
    <3> QED
      BY <1>0, <1>4, <2>0, <2>2, <3>1
  <2>3. CASE x = j.event
    <3> DEFINE a == j.attempt
    <3>1. j = [event |-> x, attempt |-> a]
      BY <1>2, <2>3 DEF LateJobs
    <3>2. a \in Unstarted(x)
      BY <1>1, <1>2, <3>1 DEF Unstarted
    <3>3. a \notin Unstarted(x)'
      <4> SUFFICES ASSUME NEW v \in Workers, j \in batch'[v] \ {job'[v]} PROVE FALSE
        BY <3>1 DEF Unstarted
      <4>1. v # w /\ j \in batch[v]
        BY <1>0, <1>3
      <4> QED
        BY <1>0, <1>1, <4>1 DEF JobsHeld
    <3>4. Unstarted(x)' \subseteq Unstarted(x) \ {a}
      BY <2>1, <3>3
    <3>5. Cardinality(Unstarted(x) \ {a}) = Cardinality(Unstarted(x)) - 1 /\ IsFiniteSet(Unstarted(x) \ {a})
      BY <3>2, UnstartedFinite, FS_RemoveElement
    <3>6. Cardinality(Unstarted(x)') <= Cardinality(Unstarted(x) \ {a}) /\ Cardinality(Unstarted(x)') \in Nat
      BY <3>4, <3>5, FS_Subset, FS_CardinalityType
    <3>7. PICK n \in Nat, m \in Nat : n = Cardinality(Unstarted(x)) /\ m = Cardinality(Unstarted(x)') /\ m <= n - 1
      BY <3>5, <3>6, UnstartedFinite
    <3> QED
      BY <1>0, <1>4, <2>0, <2>3, <3>7
  <2> QED
    BY <2>2, <2>3
<1> QED
  BY <1>0, <1>3, <1>5, <1>6, <1>7, WorkersMove DEF CodeShape

\* A lease issues the next attempt of its rows, to one worker or, when the answer is lost, to none.
LEMMA LeaseAccounts ==
    ASSUME CodeInv, NEW S \in SUBSET Candidates, LeaseRows(S), UNCHANGED <<inline, sends, job, step>>,
           NEW w \in Workers, step[w] = "idle", batch[w] = {}, NEW B \in {Leased(S), {}},
           batch' = [batch EXCEPT ![w] = B]
    PROVE  CodeInv' /\ RowsForward
<1>0. CodeShape /\ CodesFit /\ JobsHeld
  BY DEF CodeInv
<1>1. /\ RowTypes' /\ CodesFit' /\ RowsForward
      /\ \A e \in Events : attemptCount'[e] =
           IF e \in S /\ ~Exhausted(e) THEN attemptCount[e] + 1 ELSE attemptCount[e]
  BY <1>0, LeaseCodes
<1>2. /\ batch'[w] = B /\ \A v \in Workers \ {w} : batch'[v] = batch[v]
      /\ \A x \in Events : attemptCount[x] \in Nat /\ attemptCount'[x] \in 0..(MaxAttempts + 1) /\ sends[x] \in Nat
  BY <1>0, <1>1 DEF CodeShape, OtpTypeOK, RowTypes
<1>3. ASSUME NEW j \in B
      PROVE  /\ j \in LateJobs /\ j.event \in S /\ ~Exhausted(j.event)
             /\ j.attempt = attemptCount[j.event] + 1 /\ j.attempt = attemptCount'[j.event]
  <2>1. PICK e \in S : ~Exhausted(e) /\ j = [event |-> e, attempt |-> attemptCount[e] + 1]
    BY <1>3 DEF Leased
  <2>2. e \in Events /\ attemptCount'[e] = attemptCount[e] + 1
    BY <1>1, <2>1 DEF Candidates
  <2> QED
    BY <1>2, <2>1, <2>2, MaxAttemptsPositive DEF LateJobs, Tries
<1>4. ASSUME NEW v \in Workers, NEW j \in batch[v]
      PROVE  j.event \in Events /\ j.attempt <= attemptCount[j.event] /\ j.attempt <= attemptCount'[j.event]
  <2>1. j.event \in Events /\ j.attempt \in Nat /\ j.attempt <= attemptCount[j.event]
    BY <1>0 DEF CodeShape, LateJobs, Tries, JobsHeld
  <2> QED
    BY <1>1, <1>2, <2>1
<1>5. JobsHeld'
  <2>1. ASSUME NEW v \in Workers, NEW j \in batch'[v] PROVE j.attempt <= attemptCount'[j.event]
    <3>1. CASE v = w
      BY <1>2, <1>3, <2>1, <3>1 DEF LateJobs, Tries
    <3>2. CASE v # w
      BY <1>2, <1>4, <2>1, <3>2
    <3> QED
      BY <3>1, <3>2
  <2>2. ASSUME NEW v \in Workers \ {w} PROVE batch'[v] \cap batch'[w] = {}
    <3> SUFFICES ASSUME NEW j \in batch[v], j \in B PROVE FALSE
      BY <1>2
    <3>1. j.event \in Events /\ j.attempt <= attemptCount[j.event] /\ j.attempt = attemptCount[j.event] + 1
      BY <1>3, <1>4
    <3> QED
      BY <1>2, <3>1
  <2>3. ASSUME NEW v \in Workers PROVE \A u \in Workers \ {v} : batch'[u] \cap batch'[v] = {}
    BY <1>0, <1>2, <2>2 DEF JobsHeld
  <2>4. ASSUME NEW v \in Workers
        PROVE  (step'[v] = "idle" <=> job'[v] = NoJob) /\ (step'[v] # "idle" => job'[v] \in batch'[v])
    BY <1>0, <1>2 DEF JobsHeld
  <2> QED
    BY <2>1, <2>3, <2>4 DEF JobsHeld
<1>6. \A x \in Events : sends'[x] + Cardinality(Unstarted(x)') - attemptCount'[x]
                          <= sends[x] + Cardinality(Unstarted(x)) - attemptCount[x]
  <2> TAKE x \in Events
  <2>1. ASSUME NEW a \in Unstarted(x)', a \notin Unstarted(x)
        PROVE  x \in S /\ ~Exhausted(x) /\ a = attemptCount[x] + 1
    <3>1. PICK v \in Workers : [event |-> x, attempt |-> a] \in batch'[v] \ {job[v]} /\ a \in Tries
      BY <2>1 DEF Unstarted
    <3>2. v = w
      BY <1>2, <2>1, <3>1 DEF Unstarted
    <3> QED
      BY <1>2, <1>3, <3>1, <3>2
  <2>2. PICK n \in Nat : n = Cardinality(Unstarted(x))
    BY UnstartedFinite
  <2>3. CASE x \in S /\ ~Exhausted(x)
    <3> DEFINE U == Unstarted(x) \cup {attemptCount[x] + 1}
    <3>1. Unstarted(x)' \subseteq U
      BY <2>1
    <3>2. IsFiniteSet(U) /\ Cardinality(U) \in {n, n + 1}
      BY <2>2, UnstartedFinite, FS_AddElement
    <3>3. Cardinality(Unstarted(x)') <= n + 1 /\ Cardinality(Unstarted(x)') \in Nat
      <4>1. PICK u \in Nat, m \in Nat : u = Cardinality(U) /\ m = Cardinality(Unstarted(x)') /\ m <= u
        BY <3>1, <3>2, FS_Subset, FS_CardinalityType
      <4> QED
        BY <2>2, <3>2, <4>1
    <3>4. PICK m \in Nat : m = Cardinality(Unstarted(x)') /\ m <= n + 1
      BY <3>3
    <3>5. attemptCount'[x] = attemptCount[x] + 1 /\ sends'[x] = sends[x]
      BY <1>1, <2>3
    <3> QED
      BY <1>2, <2>2, <3>4, <3>5
  <2>4. CASE ~(x \in S /\ ~Exhausted(x))
    <3>1. Unstarted(x)' \subseteq Unstarted(x)
      BY <2>1, <2>4
    <3>2. PICK m \in Nat : m = Cardinality(Unstarted(x)') /\ m <= n
      BY <2>2, <3>1, FewerUnstarted
    <3>3. attemptCount'[x] = attemptCount[x] /\ sends'[x] = sends[x]
      BY <1>1, <2>4
    <3> QED
      BY <1>2, <2>2, <3>2, <3>3
  <2> QED
    BY <2>3, <2>4
<1>7. /\ batch' \in [Workers -> SUBSET LateJobs] /\ job' \in [Workers -> LateJobs \cup {NoJob}]
      /\ step' \in [Workers -> Steps] /\ sends' \in [Events -> Nat]
  BY <1>0, <1>3 DEF CodeShape
<1> QED
  BY <1>1, <1>5, <1>6, <1>7, WorkersMove

LEMMA PollCodes ==
    ASSUME CodeInv, NEW w \in Workers, Poll(w) \/ PollAnswerLost(w), UNCHANGED <<inline, sends>>
    PROVE  CodeInv' /\ RowsForward
<1>1. PICK S \in SUBSET Candidates : LeaseRows(S) /\ (batch' = [batch EXCEPT ![w] = Leased(S)] \/ batch' = batch)
  BY DEF Poll, PollAnswerLost, local
<1>2. step[w] = "idle" /\ batch[w] = {} /\ UNCHANGED <<job, step>>
  BY DEF Poll, PollAnswerLost, local
<1>3. PICK B \in {Leased(S), {}} : batch' = [batch EXCEPT ![w] = B]
  <2>1. batch = [batch EXCEPT ![w] = {}]
    BY <1>2 DEF CodeInv, CodeShape
  <2> QED
    BY <1>1, <2>1
<1> QED
  BY <1>1, <1>2, <1>3, LeaseAccounts

\* The worker after the lease and before the next: it keeps or drops the job in hand.
LEMMA AfterLeaseCodes ==
    ASSUME CodeInv, NEW w \in Workers, UNCHANGED <<inline, sends>>,
           HandlerReturns(w) \/ HandlerThrows(w) \/ PublishJob(w) \/ PublishErrors(w) \/ FailJob(w) \/ FailErrors(w)
    PROVE  CodeInv' /\ RowsForward
<1>0. CodeShape /\ CodesFit /\ JobsHeld
  BY DEF CodeInv
<1>1. step[w] # "idle" /\ job[w] \in batch[w] /\ job[w] \in LateJobs /\ batch[w] \in SUBSET LateJobs /\ job[w] # NoJob
  BY <1>0 DEF CodeShape, JobsHeld, HandlerReturns, HandlerThrows, PublishJob, PublishErrors, FailJob, FailErrors
<1>2. RowTypes' /\ CodesFit' /\ RowsForward /\ attemptCount' = attemptCount
  <2>1. CASE UNCHANGED rows
    BY <1>0, <2>1 DEF rows, CodeShape, OtpTypeOK, RowTypes, CodesFit, RowsForward
  <2>2. CASE \E o \in {"PUBLISHED", FailureOutcome(job[w])} : Record(job[w], o)
    BY <1>0, <1>1, <2>2, RecordCodes
  <2> QED
    BY <2>1, <2>2 DEF HandlerReturns, HandlerThrows, PublishJob, PublishErrors, FailJob, FailErrors
<1>3. CASE JobEnds(w)
  <2>1. /\ batch' = [batch EXCEPT ![w] = batch[w] \ {job[w]}] /\ job' = [job EXCEPT ![w] = NoJob]
        /\ step' = [step EXCEPT ![w] = "idle"]
    BY <1>3 DEF JobEnds
  <2> QED
    BY <1>1, <1>2, <2>1, NothingBegun DEF Steps
<1>4. CASE \E s \in {"publish", "fail"} : step' = [step EXCEPT ![w] = s] /\ UNCHANGED <<batch, job>>
  <2>1. PICK s \in {"publish", "fail"} : step' = [step EXCEPT ![w] = s] /\ UNCHANGED <<batch, job>>
    BY <1>4
  <2>2. batch' = [batch EXCEPT ![w] = batch[w]] /\ job' = [job EXCEPT ![w] = job[w]]
    BY <1>0, <2>1 DEF CodeShape
  <2> QED
    BY <1>1, <1>2, <2>1, <2>2, NothingBegun DEF Steps
<1> QED
  BY <1>3, <1>4 DEF HandlerReturns, HandlerThrows, PublishJob, PublishErrors, FailJob, FailErrors

LEMMA OtpNextInv == CodeInv /\ [OtpNext]_otpVars => CodeInv' /\ RowsForward
<1>1. ASSUME CodeInv, NEW w \in Workers, OtpWorkerStep(w) PROVE CodeInv' /\ RowsForward
  <2>0. CodeShape /\ JobsHeld /\ inline' = inline
    BY <1>1 DEF CodeInv, OtpWorkerStep
  <2>1. CASE StartJob(w)
    BY <1>1, <2>1, StartCodes
  <2>2. CASE ~StartJob(w)
    <3>1. job'[w] = NoJob \/ job' = job
      BY <1>1, <2>0, <2>2 DEF OtpWorkerStep, WorkerStep, Poll, PollAnswerLost, HandlerReturns, HandlerThrows, PublishJob,
         PublishErrors, FailJob, FailErrors, Crash, JobEnds, local, CodeShape
    <3>2. sends' = sends
      <4>1. ~(job[w] = NoJob /\ job'[w] # NoJob)
        BY <3>1
      <4>2. sends' = [e \in Events |-> sends[e]]
        BY <1>1, <4>1 DEF OtpWorkerStep
      <4> QED
        BY <2>0, <4>2 DEF CodeShape
    <3>3. CASE Crash(w)
      <4>1. /\ batch' = [batch EXCEPT ![w] = {}] /\ job' = [job EXCEPT ![w] = NoJob]
            /\ step' = [step EXCEPT ![w] = "idle"] /\ UNCHANGED <<status, attemptCount, due, ledger>>
        BY <3>3 DEF Crash, rows
      <4>2. RowTypes' /\ CodesFit' /\ RowsForward
        BY <1>1, <2>0, <4>1 DEF CodeInv, CodeShape, OtpTypeOK, RowTypes, CodesFit, RowsForward
      <4>3. UNCHANGED <<inline, attemptCount, sends>> /\ "idle" \in Steps /\ {} \in SUBSET LateJobs
        BY <2>0, <3>2, <4>1 DEF Steps
      <4>4. PICK B \in SUBSET LateJobs, s \in Steps : B = {} /\ s = "idle"
        BY <4>3
      <4> QED
        BY <1>1, <4>1, <4>2, <4>3, <4>4, NothingBegun
    <3> QED
      BY <1>1, <2>0, <2>2, <3>2, <3>3, PollCodes, AfterLeaseCodes DEF OtpWorkerStep, WorkerStep
  <2> QED
    BY <2>1, <2>2
<1>2. ASSUME CodeInv, UNCHANGED otpVars PROVE CodeInv' /\ RowsForward
  BY <1>2 DEF otpVars, vars, CodeInv, CodeShape, OtpTypeOK, CodesFit, JobsHeld, SendsPaid, Unstarted, RowsForward
<1> QED
  BY <1>1, <1>2, EventStepCodes, InlineStepInv DEF OtpNext

LEMMA InitCodeInv == OtpInit => CodeInv
<1> SUFFICES ASSUME OtpInit PROVE CodeInv
  OBVIOUS
<1>1. CodeShape
  BY MaxAttemptsPositive DEF OtpInit, Init, CodeShape, OtpTypeOK, Statuses, InlinePhases, Ledgers, Steps
<1>2. CodesFit
  BY MaxAttemptsPositive DEF OtpInit, Init, CodesFit, CodeFits, Attempts
<1>3. JobsHeld
  BY DEF OtpInit, Init, JobsHeld
<1>4. SendsPaid
  <2>1. \A e \in Events : Unstarted(e) = {}
    BY DEF OtpInit, Init, Unstarted
  <2>2. \A e \in Events : sends[e] = 0 /\ attemptCount[e] = 0 /\ Extra(inline[e]) = 0
    BY DEF OtpInit, Init, Extra
  <2>3. Cardinality({}) = 0
    BY FS_EmptySet
  <2> QED
    BY <2>1, <2>2, <2>3 DEF SendsPaid
<1> QED
  BY <1>1, <1>2, <1>3, <1>4 DEF CodeInv

\* Whatever the API and the workers interleave, an outcome that comes late reopens nothing, rewrites
\* no attempt and takes none back (otp-delivery.service.ts, repository.ts).
THEOREM OtpLateOutcomeHarmless == OtpSpec => LateOutcomeHarmless
<1>1. CodeInv /\ [OtpNext]_otpVars => CodeInv' /\ [RowsForward]_otpVars
  BY OtpNextInv
<1>2. OtpSpec => [][RowsForward]_otpVars
  BY <1>1, InitCodeInv, PTL DEF OtpSpec
<1> QED
  BY <1>2, PTL DEF LateOutcomeHarmless, RowsForward

\* Both senders together send a code at most twice more than the outbox allows a job
\* (otp-delivery.service.ts).
THEOREM OtpTriesBounded == OtpSpec => []TriesBounded
<1>1. CodeInv => TriesBounded
  <2> SUFFICES ASSUME CodeInv, NEW e \in Events PROVE sends[e] <= MaxAttempts + 2
    BY DEF TriesBounded
  <2>1. PICK n \in Nat : n = Cardinality(Unstarted(e))
    BY UnstartedFinite
  <2> QED
    BY <2>1, MaxAttemptsPositive DEF CodeInv, CodeShape, OtpTypeOK, SendsPaid, Extra
<1>2. OtpInit => CodeInv
  BY InitCodeInv
<1>3. CodeInv /\ [OtpNext]_otpVars => CodeInv'
  BY OtpNextInv
<1> QED
  BY <1>1, <1>2, <1>3, PTL DEF OtpSpec

\* The types hold of rows that two protocols write.
THEOREM OtpTypesCorrect == OtpSpec => []OtpTypeOK
<1>1. CodeInv => OtpTypeOK
  BY DEF CodeInv, CodeShape
<1>2. OtpInit => CodeInv
  BY InitCodeInv
<1>3. CodeInv /\ [OtpNext]_otpVars => CodeInv'
  BY OtpNextInv
<1> QED
  BY <1>1, <1>2, <1>3, PTL DEF OtpSpec
=============================================================================
