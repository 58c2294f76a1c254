# Formal model of the gated-community management system

TLA+ modules, TLC runs and TLAPS proofs for the program in `src/`: an API
(NestJS, PostgreSQL through Prisma), a background worker, a guard app that works
without a connection, a resident app and an administration web. Paths below are
relative to `src/`.

The models keep the control of the code - every state change, guard, early return
and error path - and abstract its data to what the properties tell apart. One SQL
statement, one transaction or one `await` of the app is one step; everything
between two steps is interleaved with the other actors.

## 1. Inventory

| Component | State | Operations | What makes it correct |
|---|---|---|---|
| Transactional outbox (`apps/worker/src/outbox/repository.ts`, `pollOnce` of `runtime.ts`) | `outbox_events`, `outbox_attempts`, each worker's batch | lease, publish, fail; crash, lost answers | ledger and row agree; attempts are bounded and fenced; published means handled; every event is settled |
| Push delivery (`dispatchNotification` and `processExpoReceipt` of `jobs/handler.ts`, `retryDelivery` of `operations.service.ts`) | `notification_deliveries`, device endpoints with their provider, Expo's receipt events | claim, inspect, exhaust, send, complete, retry, fail, administrator's retry | sends are bounded over the delivery's life; a terminal outcome stands; DELIVERED is genuine, and only Expo's receipt takes it back |
| Guard queue and synchronization (`apps/guard-app/src/offline`, `packages/domain/src/offline-sync.ts`) | SQLite: mutations, leases, sequences, directory; `syncNow`'s position; the server's device row | record, retry by hand, claim, send, apply, refresh, restart, purge; server decision | what the device calls synced took effect; order; no number twice; every row is decided |
| Other jobs (`jobs/handler.ts`) | challenges, files and objects, visits, approvals, audit events | OTP, scan, promote, cleanup, expiry, long visits, retention, audit follow-up | an object served is clean; object and row agree; a decision is not overwritten |
| Worker runtime (`runtime.ts`, `main.ts`, `redis-accelerator.ts`, `health.ts`) | poll in progress, pending wake-up, stop flag, heartbeat | wake, poll, drain, stop | polls are never concurrent, a wake-up is not lost, stop drains |
| Sessions (`auth/session.service.ts`; the guard app's `api/client.ts`, the resident app's `AuthProvider.tsx`, the web's `api-client.ts`) | sessions, token families, stored answers, failures; each client's token and idempotency key | issue, rotate, replay, revoke, end; store, adopt, renew, forget | one live token per family; a token is exchanged once; a lost answer never costs a live session; what ended stays ended |
| Sign-in (`auth.service.ts`, `guard-auth.service.ts`, `resident-pin.service.ts`, `admin-auth.service.ts`, `mfa-verifier.ts`, `credential-attempt.service.ts`; `provision-admin.ts`) | challenges, attempt counters, lock-outs, used TOTP steps | request, verify, lock, unlock; provision an administrator | guesses are bounded, codes are used once, a session opens only on a credential that still stands |
| Mutation journal (`platform/mutation-journal.service.ts`) | idempotency records, audit chain, outbox rows | begin, commit, fail, append | a request takes effect once; the audit chain is linear |
| Operations (`operations.service.ts`) | notices, complaints, payments, allocations, emergencies, roles | the transitions of each | histories agree with rows; money balances |
| Memberships (`membership.service.ts`) | memberships, family members | request, decide, end | one approved row; family follows; recipients were members |
| Society (`society.service.ts`) | blocks, floors, flats, gates | create, change | names are unique, structure is consistent |
| Domain functions (`packages/domain/src`) | none | state machines, OTP, codes, payment allocation | one story per visit; the tables are the API's |
| Access control (`modules/access`, `packages/permissions`) | roles, grants, devices | policy decisions | deny by default; a decision rests on what is granted |
| Database (`packages/database/prisma/migrations`) | constraints, triggers | - | enter the modules whose tables they guard |
| Administration web (`apps/admin-web`) | cached profile, screens, forms | list, filter, create, act | what it offers, the API serves |
| Resident app, guard screens | forms, keys kept for a retry | send, retry | a tap takes effect once |
| Infrastructure, scripts, UI, validation | configuration and presentation | - | not modelled |

### Interactions

* The API changes business tables and inserts outbox events in one transaction
  (`MutationJournal.commit`); the worker leases events and runs a handler per
  event type. Workers meet only in the rows: leases, status guards, the attempt ledger.
* A handler may insert further events (a receipt check after a push, a cleanup
  after a promotion); an administrator's retry inserts a new dispatch event.
* The guard app meets the API through batches of actions, directory snapshots that
  carry the device's lease, and token rotation. **The endpoint that receives
  batches and the one that issues snapshots are not in the repository.** The app and
  `evaluateOfflineMutation` say what they must do, and only that is modelled.
* Inside the guard app, the sync loop, the guard's taps, the refresh effect and
  the clock interleave at every `await`.

### Hard behaviours

The list is in `PROJECT.json` under `hazards`, each at its line: take-overs of
expired leases while the slow worker still runs, crashes between a lease and its
outcome, statements that commit without an answer, limits counted in two places,
stale reads followed by unconditional updates, lost and late batches, restarts,
clocks, replays and races between transactions.

## 2. Plan

| Order | Module | Composes | State of the work |
|---|---|---|---|
| 1 | `AtLeastOnce` | - | abstract specification of the outbox |
| 2 | `Outbox`, `OutboxProofs` | `AtLeastOnce` as refinement target | modelled, checked, proved with the refinement |
| 3 | `PushDelivery`, `MCPushDelivery` | extends `Outbox` | modelled, checked, proved (`OutboxProofs`) |
| 4 | `GuardSync`, `MCGuardSync`, `GuardSyncProofs` | app, network, server | modelled, checked; safety proved |
| 5 | `SessionRotation`, `SessionProofs` | server, under arbitrary clients | modelled, checked, proved |
| | `GuardShift`, `MCGuardShift`, `ResidentSession`, `AdminTabs`, `MCClients`; `GuardShiftProofs`, `ClientProofs` | extend `SessionRotation` by the three clients | modelled, checked; that each implements the server's specification and all safety proved |
| 6 | `Journal`, `ServiceProofs` | idempotency claims, audit chain | modelled, checked, proved |
| 7 | `Transactions` and on it `Payments`, `Residency`, `Casework`, `Visits`; `TransactionProofs` | the API's SERIALIZABLE transactions on each group of tables | modelled, checked, proved |
| 8 | `SignIn`; `OtpDelivery` (extends `Outbox`); `ServiceProofs` | the four sign-ins; the two senders of a code | modelled, checked, proved |
| 9 | `FileJobs`, `ServiceProofs`; `EventKinds` (extends `Outbox`) | file jobs; the event types of both programs | modelled, checked; the file jobs proved |
| 10 | `MCServices` | 6-9, one part at a time | the `services` run |
| 11 | `WorkerRuntime` | the process around `Outbox` | modelled, checked in `MCClients` |
| 12 | `Listing`, `ApiContract`, `ConsoleScreens`, `Permissions`, `AdminConsole` | the console's screens and forms on the API's routes | modelled, checked; `RegularWalkComplete` proved (`RequestProofs`) |
| 13 | `RequestAccess`, `RequestProofs` | extends `Permissions` and `ApiContract` | modelled, checked; `DecisionsGrounded` proved |
| 14 | `AppCalls`, `RetainedKeys` | the apps' requests on the API's routes; their repetition | modelled, checked; `RetriesTakeEffectOnce` proved (`RequestProofs`) |
| 15 | `MCConsole` | 12-14, one part at a time | the `console` run |

Abstract specifications worth stating: `AtLeastOnce` (done); "a request takes effect
once and answers alike" for the journal (`OneEffectPerKey` says it as an invariant).
`SessionRotation` is the abstract specification of its clients: each of their steps is
one of its steps or leaves its variables alone.

Nothing is left of the theorems planned: every invariant of a passing run and every action
property but `RefusalsExplained` is stated by a theorem; what stays with TLC is in section 9.

## 3. Outbox

`Outbox.tla` is `LEASE_SQL`, `COMPLETE_SQL`, `FAIL_SQL` and the loop of `pollOnce`.

| Model | Code |
|---|---|
| `status`, `attemptCount`, `due` | `outbox_events.status`, `attempt_count`; `available_at`/`claimed_at` reduced to "has elapsed" |
| `ledger` | `outbox_attempts`, one slot per attempt number |
| `Candidates`, `Abandoned`, `Exhausted`, `LeaseRows`, `Leased` | the CTEs of `LEASE_SQL` |
| `Owns`, `Record`, `FailureOutcome` | `COMPLETE_SQL`, `FAIL_SQL` |
| `Poll`, `StartJob`, `HandlerReturns`, `HandlerThrows`, `PublishJob`, `FailJob` | `pollOnce` |
| `PollAnswerLost`, `PublishErrors`, `FailErrors`, `Crash` | connection errors and the death of a process |

Abstractions. Time: `due` is the single question the statements ask of it, so a
lease may expire at any moment. Order: `ORDER BY`, `LIMIT` and `SKIP LOCKED` let
any subset of candidates up to `BatchSize` be leased. The handler is a choice
between returning and throwing, and `PushDelivery` replaces it by a real one. Outside
the database and this loop nothing touches the two tables but inserts (`Enqueue`).

Run: `outbox` (2 events, 2 workers, 2 attempts, batches of 2: a first and a last
attempt, a take-over of each, and batches whose second event is taken over before
it starts) checks the invariants `LedgerAgrees`, `AttemptsNotShared` and
`PublishedWasHandled`, `SettledForever`, `EventuallySettled` and the
refinement `ImplementsPromise`. That no third attempt, event or worker changes the
safety part is what the theorems below show.

Fairness: the poll timer fires (`runtime.ts`); a handler ends, because each provider
call carries a time-out (`OTP_PROVIDER_TIMEOUT_MS`, `PUSH_PROVIDER_TIMEOUT_MS`,
`CLAMAV_TIMEOUT_MS`, bounded above in `config.ts`); statements answer or raise; time
passes. All of it weak fairness, and none on failures, lost answers or crashes: each
of those uses up an attempt, and attempts are bounded, so even a world that only
fails settles every event.

### Proofs

`OutboxProofs.tla` proves for all `Events` (finite), `Workers`, `MaxAttempts > 0` and
`BatchSize > 0` that `TypeOK`, `LedgerAgrees`, `DeadLetterIsExhausted`,
`RetryHasBudget`, `AttemptsNotShared`, `PublishedWasHandled` are invariants and that
every step satisfies `SettledForever`. None of them but `TypeOK` and the budgets is
inductive alone: `AttemptsNotShared` needs to know that a fresh lease is of an
attempt nobody holds, which is `JobsIssued` (a held job's number never exceeds
the row's counter); `PublishedWasHandled` needs to know that a worker about to
publish has seen the handler of that very attempt return, also in `JobsIssued`; and
the off-by-one questions are settled by `LedgerAgrees`, which ties counter, status
and ledger. `IInv` is their conjunction. The proof has a lemma per statement (a lease
of any set of candidates, an outcome recorded by any worker) and a step per action.

`OutboxImplementsPromise` proves the refinement: `Fate` maps a row's status to what
became of its event, an outcome the database refuses is a stutter, and a lease of any set
of candidates is one `Sweep` that claims some events and buries others, which needs
`LedgerAgrees` to know that a buried event had used its attempts.

Not proved: `EventuallySettled`, which is liveness; TLC checks it.

## 4. Push delivery

`PushDelivery.tla` extends `Outbox`: the worker that `StartJob` puts on a dispatch
event goes through the statements of `dispatchNotification` (`ClaimDelivery`,
`InspectDelivery`, `MarkExhausted`, `SendPush`, `CompleteDelivery`, `MarkForRetry`,
`FailTerminally`), any of which may raise (`StatementFails`), and the worker may die
in any of them. `RetryDelivery` is the administrator's. `stale` is the delivery's
own lease, `fresh` a history variable: the worker's claim is younger than it.
`NewDelivery` is external: the producer of notifications is not in the repository.
`provider` is the endpoint's, chosen in `Init`, and nothing changes it. It decides two
things. The handler sends through EXPO and FCM only (`endpointProvider`): a WEB_PUSH endpoint,
which the schema allows, does not parse and is retried until the attempts are used up. And
`CompleteDelivery` queues the receipt check for EXPO alone: that an FCM endpoint has expired
is learnt from the answer to the send itself, and an FCM delivery that is `DELIVERED` stays so.
`RunsOnTheOutbox` checks that the composition takes only steps of `Outbox`, so what is
proved of `Outbox` holds of it.

Run `push_safety`: 2 workers, one delivery of each provider in turn, its event and one retry, 2 attempts:
enough for a take-over of the first and of the last attempt with an administrator's
retry in between. With `DuplicateSendSuppressed` in the place of `SendsBounded`, the same
configuration gives a counterexample to what the code says of itself: `MarkExhausted` asks for
`PROCESSING` and the attempt limit but not whether the claim is stale, so it can fail a delivery
another worker is sending; after an administrator's retry two workers with fresh claims send at once
(`DuplicateSendSuppressed`). `SendsBounded` and `TerminalOutcomesStand` still hold: the
overlap costs a duplicate within the budget and never undoes a terminal state.

`ExhaustedIsTerminal` in that place gives a further counterexample: a worker that dies in an event's
last attempt leaves its delivery `PROCESSING`, because `LEASE_SQL` buries the event
without running the handler, the only code that fails an exhausted delivery, and
`retryDelivery` accepts only `FAILED`. A test says that the worker "terminally
records an exhausted stale delivery instead of leaving PROCESSING"; it does so only
while an attempt is left.

### Proofs

`OutboxProofs.tla` also proves for any events, deliveries and finite set of workers that
every step is a step of `Outbox` or leaves its variables alone
(`PushRunsOnTheOutbox`), so that what section 3 proves holds here; then `PushTypeOK`,
`SendsBounded` and `TerminalOutcomesStand`. `PInv` is what a worker between two
statements rests on: it is inside a handler exactly while it is at a statement
(`InTheHandler`), its event has a target (`EventsTargeted`), and whoever is about to record
a delivery, like a row that says `DELIVERED`, has an accepted push behind it
and, with Expo, its receipt check queued (`Accepted`); no other provider's delivery has such a
check (`ChecksAreExpos`). `SendsBounded` is not inductive: two workers may both be about to send. The
invariant counts those workers as sends already (`Bounded`): each of them took one of
the row's tries when it claimed it, and nothing gives a try back. `Stands` is
`TerminalOutcomesStand` for one delivery; each statement after the send is shown to write
the row only where it was open.

## 5. Guard queue and synchronization

`GuardSync.tla` has one device, its app and its server. `SelectReady`, `MarkSyncing`
and `SendBatch` are the three statements of `claimReadyMutations`; `ApplyResult` is a
round of the results loop of `syncNow`, whose `catch` starts over with a retryable
failure for all rows (`AllFail`); `RetryRead`/`RetryWrite` are the two statements of
`retryMutation`; `SnapshotIssued`/`SnapshotStored` are the two ends of
`refreshSnapshot`; `Restart` is `initializeDatabase`. `Decide` is
`evaluateOfflineMutation`. Batches (`net`) can be lost, arrive after the app gave up on
them, be processed in part; answers can be lost or partial.

Runs:

| Run | Instance | Question |
|---|---|---|
| `guard_order` | 2 actions, 1 gate, batches of 2, retries by hand | what is called synced took effect, in order, without reuse of numbers |
| `guard_gates` | 2 actions, 2 gates, batches of 1 | no row is stranded in `SYNCING` |
| `guard_live` | 1 action, contested and datable | every action is decided while the lease runs |
| `guard_lapse` | 1 action | violation: once the lease lapses nothing retries |

`NoneLeftSyncing` in `GuardOrder.cfg` (where taps are allowed) gives a counterexample
outside the list of runs: a tap on Retry that
overlaps the timer's loop strands the other row of the batch in `SYNCING` until a
restart. `ConflictIsGenuine` states what the app tells the guard of a `CONFLICT`; it does
not hold either (with one contested action in `GuardOrder.cfg`): a later action of the same
gate is answered `CONFLICT` although the server's record agrees with it.

Two actions suffice for order, overtaking and partial batches, two gates for
sequences that are counted per gate on the device and per device on the server.
`NoneLeftSyncing` is run without retries by hand, because of the counterexample
above. `AppliedInOrder` is run on one gate: over two gates the server's single sequence and the device's two cannot agree, and no document says
which is meant.

Fairness: the 15 s timer keeps starting the loop, requests end within 20 s
(`AbortController` of `api/client.ts`), SQLite answers, backoffs elapse. Strong
fairness on the steps of a synchronization and on the server's answer says that the
network and the app are not interrupted for ever at the same point; `guard_live` needs
it because a restart returns rows to the queue. Nothing makes the guard act, nor the
effect refresh more often than the code's dependencies do.

Abstracted or left out: the response stored under `sync:<digest>` on the server,
the search of the cached directory, re-enrolment after a purge, and two identical batches
on the network at once (they collapse into one).

### Proofs

`GuardSyncProofs.tla` proves `TypeOK`, `SyncedIsApplied` and `NumbersNotReused` for any
actions, gates, batch sizes and behaviour of the network, `NoneLeftSyncing` where nobody
taps Retry (`Tapped = {}`) and `AppliedInOrder` for one gate, the cases of which the
counterexamples above show that they are the most one can ask. The invariant `GInv` adds
that every number in use, on the device, in a lease or at the server, is at most the
number of actions recorded (`Counted`), that a batch is of one gate (`OfOneGate`), that no
result is held outside the loop that applies it (`NothingHeld`) and that a positive answer
is of an action that took effect (`AnswersTrue`). The server's run over a batch
is a recursive function; what it does to a whole batch follows from what it does to one
action by taking a batch of least size that is a counterexample. `InHand` says where the
rows of a claimed batch are, `InSequence` that one gate's numbers are accepted without a gap.

## 6. Sessions

### The server

`SessionRotation.tla` is `rotate`, `commitRefreshFailure`, `revokeSession` and
`createWithinTransaction` of `session.service.ts`, with the parts of
`mutation-journal.service.ts` and `credential-attempt.service.ts` they call. Each is
one Serializable transaction, hence one step; a transaction the database refuses to
serialize is an error for the client and no step of the server.

| Model | Code |
|---|---|
| `session`, `token`, `newest` | `user_sessions.status`, `refresh_tokens.status` (the n-th token of the family), the length of the family |
| `record` | `idempotency_records` of one session: the request hashed, the outcome stored |
| `lapsed`, `barred` | idle and absolute limits; device and user status |
| `failures`, `origin` | `authentication_attempts` of the family and of the device in the window |
| `Replay`, `KeyReused`, `Block`, `Compromise`, `Expire`, `Rotate` | the outcomes of `rotate`, each with the tests before it |

The clients are arbitrary: any token issued, any key, this device or another. The
records and statuses are those of one session each, so one session, three tokens and
four keys (part `family` of the run `clients`) reach every outcome in every order;
the limits (5 and 30 in the code) are constants, scaled down so that both are met. The
limit of 20 failures a day repeats the one of 15 minutes and is left out.

`CompromiseIsReuse` states the reason stored with `COMPROMISED`; it is not always what
happened (it is violated in the part `family`).

### The clients

| Module | Client | State |
|---|---|---|
| `GuardShift` | guard app | SecureStore and references in memory, updated one after the other; one rotation, one sign-in or sign-out |
| `ResidentSession` | resident app | SecureStore only; executions of `refreshSession`, which the timer, Retry and 401s start |
| `AdminTabs` | administration web | the cookie, which the browser sends and sets, and the key in `localStorage`; a refresh per tab |

One `await` is one step. Every request may be given up on (20 s, 15 s, a closed tab)
and still be served later, or never; apps are killed and started between any two
steps. `Throttled`, `AppThrottled` and `WebThrottled` are the API's global rate limiter,
which answers 429 before the handler runs.

| Run | Instance | Question |
|---|---|---|
| `shift_kept` | 2 shifts, 3 tokens, 3 keys, one 429 of the limiter | no key is ever presented with two tokens; until the limiter has refused a request, or a renewed key has met another shift's token, what SecureStore holds of a live session still works and the app never presents a token it has spent |
| `clients` | `MCClients`: the bare server, the resident app (2 executions, 2 deaths, one 429, one undeserved 401), the administration web (1 tab, closed at any moment, one 429) or the worker's process (section 7), chosen in `Init`; failure limits 2 and 3 | the family's invariants; a live session is kept whatever starts the refresh, and the start always ends; cookie and key together refresh a live session until the limiter has refused a request |

The parts of `clients` share nothing but the server's module, so one at a time
moves and a counterexample names its part. `ShiftThrottled.cfg` gives a counterexample
to what the guard's recovery screen says: after a lost answer the limiter's 429 retires
the key that stands for it, and the session is compromised (`CredentialRemains`).

A second way to lose the credential needs three shifts, and it was the attempt to prove
`ShiftKept` that showed it. `onRefreshRejected` reads the store (`RenewalStarts`), writes it
(`RenewKey`) and sets the reference to the key (`AdoptKey`), in three steps, and a
sign-out and a sign-in fit between them: the key renewed for one shift is then put beside
the token of another, and store and memory hold different keys for one token, each of
which may be presented. `mixed` remembers that this happened. It takes `ShiftKept.cfg` with
3 sessions, 4 keys, 2 tokens, no 429 of the limiter and `CredentialRemains` as the
invariant; the refusal that starts it is the server's own limit on failures.

Further counterexamples: `ResidentOverlap.cfg` (Retry tapped while an attempt runs: an
older successor overwrites a newer one) and `ResidentHang.cfg` (a refresh whose
profile request is answered 401 waits for itself). `LeftKeyIsReplayed` of `AdminTabs` does
not hold either: a key left behind by a closed tab is answered 409 in the next session.

Two shifts are enough for what one leaves to the next; three tokens for a rotation that
follows a lost one; two executions for one that waits for another, and three for
`ResidentOverlap.cfg`. `ShiftKept` and `CookieKept` speak of the time before the
limiter's first 429, because `ShiftThrottled.cfg` shows what that one does, and
`ShiftKept` of shifts whose keys did not mix (`Unspoilt`);
`SessionKept` is run with one recovery at a time (`Impatient` is `FALSE`), and it allows
for one thing (`Blocked`): a refusal for too many failures is stored under the key presented,
and the app keeps its key after a 429, so the session answers that key with the refusal even
when the window has passed (`credential-attempt.service.ts:99`). A failure ends its own session,
so it is the failures of the device's earlier sessions that block a live one: the attempt to
prove the plain form for any number of sessions showed it.
`BootEnds` speaks of starts without an undeserved 401 (`hiccups = 0`):
`ResidentOverlap.cfg` and `ResidentHang.cfg` show why the two conditions are there. With two tabs
`CookieKept` does not hold: a tab clears the key another one still needs. No document
promises that, so it is a hazard without a run.

Fairness of `ResidentSession`: the provider's timer fires and every `await` settles,
because `api.ts` aborts a request after 15 s. Nothing makes a request succeed.
`Outside` leaves out `Bar`, the suspension of a user who may be readmitted later, which
`SessionRotation` has: nothing in the repository suspends or readmits a
resident's user or device.

### Proofs

`SessionProofs.tla` proves `TypeOK`, `OneCurrentToken`, `AnswerRecoverable`,
`ExchangedOnce` and `EndsForGood` for any finite set of sessions and any positive
bounds. Only `TypeOK` is inductive alone. `IInv` adds that tokens are numbered as they are
issued (`Numbered`), that the live token of a live session is the last (`OnlyNewest`),
and that a stored exchange is of a token and its immediate successor
(`Successive`): a second exchange of a token would need it live, while a stored one says
that a later token exists. `SpecEndsForGood` follows from `IInv` too: a rotation revives
nothing because the number it issues was not issued before. The proof has a lemma per
kind of step: a refusal, an end, a rotation, a sign-in, a revocation.

`GuardShiftProofs.tla` proves that the guard app implements the client
`SessionRotation` leaves open (`GuardSpecRunsOnTheServer`: `GuardSpec => Spec`), so
that the theorems above hold of the composition (`GuardSpecFamily`), and it proves
`GuardTypeOK` and `KeyForOneToken`, for any number of shifts, tokens, keys and
refusals of the limiter. `KeyForOneToken` is far from inductive: after a 4xx the
reference to the key is renewed alone (`AdoptKey`), beside whatever token is in memory
by then. `Apart` says that this is the token the key was renewed for or one of another
session, which rests on `Opened` (a sign-in is given a session nothing in hand belongs
to); `Unpresented` that a renewed key has not been sent before the references follow;
`KeysMinted` that a key generated is new to the server. `Held` adds to the requests in
hand the credentials a sign-in has stored and not yet adopted. The proof has a lemma per
kind of step (nothing new in hand, one new key, a request served) and a case per action.

`ShiftKept` and `NeverItsOwnReplay` (`GuardSpecShiftKept`, `GuardSpecNeverItsOwnReplay`)
rest on a second inductive invariant, `KInv`. As long as the state is `Unspoilt`, of a live
session

* everything in hand, store, memory or a request under way, carries the session on
  (`AllCarryOn`): what is stored may be loaded by the next start, what is in memory may
  overwrite what is stored;
* an unpresented key has no rival (`NoRival`, `LateNoRival`): two unused keys for one token
  would both carry the session on, until the first is served and the second is taken for a
  replay. `Firm` leaves out what is in memory between a write to the store and the
  references that follow it: it is never presented again.

Always, an answer in hand is in the server's records (`AnswerKnown`), so the key a renewal
retires stands for no rotation; and a session just opened is nobody's yet (`Unsaved`). The
same case per action follows, under lemmas for a request served (`ServedRemains`), nothing
new in hand (`FewerRemain`) and a new key (`NewRemains`). No limiter is assumed away: the
conditions are those of `Unspoilt`, and the counterexamples above show that each is needed.

`ClientProofs.tla` does the same for the administration web and the resident app, for any
sessions, tokens, keys, limits, tabs and executions of `refreshSession`: both take only steps
of the server (`AdminSpecRunsOnTheServer`, `ResidentSpecRunsOnTheServer`), keep their types,
and keep what they have stored.

* Both rest on one lemma: credentials can be exchanged as long as every request that may still
  be served and is not in the server's records either is the one they would make or carries a
  token that is spent (`Unrivalled`).
* `AdminSpecCookieKept` (`CookieKept`) is of a browser with one tab (`OneTab`), because with two
  it does not hold. What `localStorage` and the cookie jar hold is `Unrivalled` by what is
  under way or late (`CookieSafe`), until the limiter refuses a request.
* `ResidentSpecSessionKept` (`SessionKept`) assumes `~Impatient`, because of `ResidentOverlap.cfg`.
  An execution that has credentials and is not at rest works on a session that is usable at most
  by its own hand (`OneAtWork`), a sign-in begins only when nothing else is under way and all in
  hand is of one session (`OfOneSession`), keys the app has not minted are not in the server's
  records (`AppMints`). Then what is stored, what an execution carries and what it was just
  answered all last (`Lasting`): they are the last token with an unused key, or their exchange
  is recorded, and they are unrivalled. The proof has a case per action under lemmas for a
  step that only takes something away (`FadingLasts`), a request served (`ServedLasts`), the
  answer adopted (`LastingAnswer`) and the key renewed (`KeptSave`).

## 7. The API's operations and the worker's other jobs

### What they share: transactions

Every state-changing request of the API runs `MutationJournal.begin`, its own
statements and `commit` in one transaction. `Transactions.tla` is that transaction,
reduced to what decides: it reads the snapshot of its first statement, and PostgreSQL
refuses the commit if another one of the society committed since, because all of them
read the newest audit entry and append after it. `Begin`, `Commit` and `Abort` are
extended by the modules that give `db` its tables; several administrators are under way
at once. A refusal (404, 409), a serialization error and a lost connection are `Abort`.

### The modules

| Module | Code | Model |
|---|---|---|
| `Journal` | `mutation-journal.service.ts` | requests with a key and a body at the steps of `begin` (claim, replay, conflict), execution, `appendAudit` under the advisory lock, `commit`; SERIALIZABLE or, for the keys in `Relaxed`, READ COMMITTED |
| `SignIn` | `auth.service.ts`, `resident-pin.service.ts`, `guard-auth.service.ts`, `admin-auth.service.ts`, `mfa-verifier.ts`, `credential-attempt.service.ts`, `domain/otp.ts`, `provision-admin.ts` | one person signing in by one of four methods from several requests: what is verified outside the transaction and decided inside it; changes of PIN and device in between, and the script that replaces password, second factor and TOTP secret in one transaction |
| `OtpDelivery` | `deliverOtpInline`/`attemptOtpDelivery` of `auth.service.ts`, `deliverOtp` of `handler.ts` | extends `Outbox` by the API as a second sender of the same event |
| `Payments` | `recordPayment`, `allocatePayment` | payments, allocations, charges; the unique indexes |
| `Residency` | `membership.service.ts`, `createNotice`, `publishNotice`, `archiveNotice`, `domain/membership.ts` | memberships of one flat, what they drag along, the recipients a notice freezes |
| `Casework` | complaints, emergencies, roles in `operations.service.ts`, the tables of `domain/complaint.ts` and `domain/emergency.ts` | status, assignee, version and append-only histories |
| `Visits` | `domain/visitor.ts`, `expireApproval`, `flagLongVisits` of `handler.ts` | one visit and its approval under callers of the rules and the worker's two statements |
| `FileJobs` | `scanFile`, `promote`, `cleanupQuarantine`, `executeRetention` of `handler.ts` | row and two objects of a file; any number of workers anywhere in the jobs of that file |
| `EventKinds` | `JobHandler.handle`, the event types of the journal | extends `Outbox` by the type of each event |

Run `services` (`MCServices`): `Init` chooses the part and only its variables move, as
in `clients`: the parts meet through the journal and the outbox alone, and those have
models of their own. What each part is asked:

| Part | Instance | Question |
|---|---|---|
| `journal` | 2 requests, 3 keys (one `Relaxed`), 2 bodies, 3 sends | a key takes effect once and for one body, whatever is sent again or overtaken |
| `signin` | 2 requests, one replacement of PIN, password or TOTP secret, limit 2, 1 guess per challenge, 2 challenges, 2 TOTP periods | guesses are bounded over concurrent requests; a challenge, an enrollment token or a step of a TOTP secret opens one session; a session opens only on a credential that stands when it commits |
| `codes` | 1 event, 2 workers, 2 attempts | an outcome the API reports late does not undo a settled event |
| `money` | 2 payments, 2 charges, 2 flats, 2 references, amounts up to 2 | both balances hold, `paid` and status follow the allocations, flats match |
| `roster` | 2 memberships of 1 user, 1 notice, 4 decisions | one approved row, family members follow it, recipients were members |
| `cases` | 1 complaint, 1 emergency, 1 role, 4 changes | the histories are complete where the code writes them, in order, and end in the row's state |
| `gates` | 1 visit, 6 events | visit, approval and decisions tell one story, and a decision is not undone by the worker |
| `files` | 1 file, 3 workers | the object served is one the scanner passed; row and object agree; a verdict stands |

Two administrators suffice for every race of two transactions, since the third of
three is aborted by either; three workers for scan, cleanup and retention at once.
There is no fairness in `services`: its questions are of safety. The database holds the
rows of every part, so that each property is checked by the name its module gives it.

Violations: `audit_fork` (`addComplaintInternalNote` alone runs READ COMMITTED: one internal
note beside one SERIALIZABLE request forks the audit chain), `notice_events` (nothing handles
`notice.published`; nothing crashes and every provider works in this instance; the run is
of `EventKinds` itself). Beside them
`DeclaredSteps.cfg` shows that the API's complaint and emergency tables are not the
domain's, and, with `StatusHistoryComplete` in its place, that `assignComplaint` writes no
status history. `AllowedIsNotRefused` of `Residency` does not hold: an end without an end
date is refused by the domain rule, and the API never passes one.

Abstracted or left out: limits per origin and per day, formats of identifiers and
secrets, message bodies; a role's `isSystem`, which `deactivateRole` refuses, and its
`version`, which is compared with what the same transaction read; the `version` a client may
leave out is a choice of the client. `provision` is modelled for the account it replaces: the roles it assigns and the permissions it writes are those of `Permissions`, and an
administrator whose `mfaEnabled` is off, as before the first provisioning, is a start of its
own. Password and TOTP secret share one version number, because one transaction replaces both;
retention policies and deadlines are "has passed" flags.

### Proofs

`ServiceProofs.tla` proves `OneEffectPerKey` for any requests, keys, bodies and any choice
of `Relaxed`: at most one open transaction holds the row of a key, and only while the key has
not taken effect (`RowExclusive`); the record says what did (`RecordsEffects`), and every
answer was read from it (`AnswersFromRecord`). `SpecForksFollowRelaxed` says where the
chain of `audit_fork` can break, an entry whose predecessor is not the one it names follows
one that a READ COMMITTED transaction appended, and `SerializableChainUnbroken` that without
such operations it does not break.

It also proves `FilesSafe` and `VerdictStands` for any files and workers: what
a worker is about to do rests on what was true of the row when it got there: past the
inspection the file is genuine, past the scan it was found clean (`Justified`); what is
discarded or erased is settled for good (`Entitled`); once retention has a file no scan of
it is under way (`NoScanOfRetained`).

The two senders of a code (`OtpDelivery`): the API's outcome is not fenced by an attempt
number, so `LedgerAgrees` and the budgets of section 3 do not hold, and a RETRY of the API's
may leave one attempt past the limit. What is left is `CodeFits`: every attempt below the
current one has a row, and while the API is on its way the attempt it will report is within
the limit, at most the next one, and the next one only if the current one is closed. An
outcome that comes late then finds its place taken (`OtpLateOutcomeHarmless`).
`OtpTriesBounded` proves `TriesBounded`, which no run repeats: the attempts issued pay for
what the workers have sent and for what they hold and have not begun (`SendsPaid`), and the
API for one send of its own.

`TransactionProofs.tla` proves `LedgerBalances`, `RosterConsistent`, `TrailsAgree` and
`OneStory` for any callers, payments, charges, memberships, notices and roles and any
bounds. One argument serves all four: a transaction that has not been overtaken has seen the
rows there are (`TxSound`), so a commit changes the rows it decided on, and the rest is a
fact about the rows, stated of constants (the lemmas named `...Keeps`). Sums of
allocations need that adding one allocation to a finite set adds its amount, whatever order
the fold takes the set in (`SubsetInduction`). `OneStory` needs in addition what an
approval says of each status (`ApprovalTold`): without it the timeout could decide an
approval whose visit went on. The constants are assumed as the
theorems state them: a charge's total is positive, amounts are natural numbers.

`ServiceProofs.tla` proves `SignInTypeOK`, `GuessesBounded`, `ProofsSpentOnce` and
`SessionOnLiveCredential` for any number of requests and any limits. A transaction still open
has seen the account as it is (`Agrees`), but for what time alone changes, because every other
commit dooms it; so every wrong guess judged is among the failures that block the next one
(`JudgedCounted`), and what was verified before the transaction opened is compared with what
stands. A code, step or token cannot open a second session because a challenge that opened one
is VERIFIED and stays so (`ChallengesSpent`), a step of the live secret that did is not after
the last one used and no two requests carry the same (`StepsSpent`), and a token that did is gone
(`TokenSpent`). Provisioning sets the last step used anew, possibly back: that is harmless
because nobody holds or spent a step of a secret to come (`VersionsPast`) and a request that
proved one of the old secret fails the comparison of the password replaced with it (`Live`,
`Proved`).

### The worker's process

`WorkerRuntime.tla` is `runtime.ts`, `redis-accelerator.ts` and `main.ts`: the awaits of
bootstrap and shutdown (`at`), the poll under way and the wake-up remembered during it
(`poll`, `pollAgain`), the heartbeat, the intervals, the subscription and the worker's row.
`Lease`, `HandleNext` and `Beat` may fail as statements and providers do; `Signal` is SIGTERM,
and a health port that is taken stops the worker the same way (`Listen`). The part `worker` of
the run `clients` (2 events due, batches of 2) checks two leads-to properties.
`StopComesToRest`: once asked to stop, the worker finishes its batch and its heartbeat and is
at rest for good, with a row that does not say READY unless the database would not take the
statement. `WakesServed`: a call for a poll, whenever it comes, is followed by a lease
statement. Fairness: statements, provider calls and connections end in an answer or a failure,
because each has a time-out; no timer, message or signal is counted on, so a wake-up is served
by `pollAgain` and not by the next interval. Nothing in the repository publishes on the wake
channel but a test. A second signal during shutdown is ignored by `shutdown` and a kill is
`Crash` of `Outbox`.

## 8. The administration web's screens, access control and the apps' requests

| Module | Code | Model |
|---|---|---|
| `Listing` | `cursor`, `page`, `timestampPage` of `operations.service.ts`, `cursor.ts`; the pages of `resource-screen.tsx` | rows with an instant, a page behind a cursor, Next, Previous, search, status and refresh, while rows are inserted and change; per list, how a search enters the query and whose clock stamps the rows |
| `ApiContract` | the controllers and the schemas of their pipes | a table of routes: permission, resource, keys of the body or query that must and may come |
| `ConsoleScreens` | `resource-config.ts` | the configured screens: path, query, permission, statuses, buttons and forms |
| `Permissions` | `packages/permissions`, `seed-catalog.ts`, `load` of `current-identity.service.ts` | catalog, policies of the roles, recency and reasons, `authorize`, the grants an assignment yields |
| `AdminConsole` | `auth-provider.tsx`, `resource-screen.tsx`, `resource-dialogs.tsx`, `configured-fields.tsx` | an administrator with the profile read at the sign-in, the screen, dialog and options loaded, and the API's verdict on each request |
| `RequestAccess` | `current-identity.service.ts`, `authorization.service.ts`, `permission.guard.ts` | one request: the queries that load session, memberships, gates and roles, then the decision, while those rows change |
| `AppCalls` | `endpoints.ts` of the guard app, `resident-api.ts` of the resident app | every request of the two apps, against `ApiContract` |
| `RetainedKeys` | `idempotency-retry.ts`, `performRequest` and `request` of the two apps | the keys kept after a time-out, by call; tries that overlap, are given up on and served later; refreshes, refusals, the app's death |

Run `console` (`MCConsole`): `Init` chooses the part and only its variables move.

| Part | Instance | Question |
|---|---|---|
| `lists` | 3 lists (a search that replaces the cursor, one that does not, and a list stamped by the database), 3 rows, 2 milliseconds of 2 ticks, pages of 1, walks of 5 pages | a walk with Next shows each row that matched all the while exactly once (`RegularWalkComplete`) |
| `web` | every screen and control; both administrators' roles | who sees a button holds the permission of its route: a refusal has the role, the recency or a missing reason to blame (`RefusalsExplained`) |
| `access` | 6 routes, on oneself, on a session, on a flat and on the society, with and without recency and reason; one requester with a resident's, a guard's and an administrator's assignment; 2 changes | an admission rests on facts that were each true while the request was served, a refusal on none that stood all the while (`DecisionsGrounded`) |
| `app` | 2 calls, 3 submissions, one key kept | a submission repeated until it is answered takes effect once (`RetriesTakeEffectOnce`) |

Two changes let a membership or role be replaced during one request; three rows and pages of
one give a first, a middle and a last page; three submissions let a try be overtaken by a
retry of a retry, and one kept key makes two calls compete. There is no fairness in
`console`: its questions are of safety. `RegularWalkComplete` leaves out what `WalkComplete`
shows to fail, `RetriesTakeEffectOnce` the calls whose key was let go while a try was open:
the app was killed, a key was a day old or one too many, two screens submitted at once, or
(`RefusalsKeepTheKey`) a retry was refused.

`RequestProofs.tla` proves three of the four for every value of the constants.

* `AccessSpecGrounded` (`DecisionsGrounded`): for any assignments, memberships, gates and
  routes, and any number of changes. Each query finds its row as it is, so what a request has
  found lies, fact by fact, between what always was and what ever was since it arrived
  (`SeenBetween`); and the right to anything grows with the facts. That `authorize` on the
  grants of `load` then comes to what the policies say takes two lemmas:
  `EntitledIsAdmitted` holds for every assignment, because each policy is in the catalog
  (`PoliciesInCatalog`); `AdmittedIsEntitled` needs the assignments to be `InPolicy`. The
  proof found this condition: `load` picks among the scopes the catalog allows an action by the
  scope of the assignment and never asks the role's policy, and `user_roles.scope` is SOCIETY
  by default, so that a GUARD assigned without a scope is admitted to what `GuardPolicy` allows
  at a gate only. The one place that writes `user_roles` (`provision-admin.ts`) assigns
  administrators in SOCIETY, which is in their policy; the model assumes of an assignment only
  that its role and scope are the enumerations' (`AssignmentsTyped`).
* `RetrySpecEffectOnce` (`RetriesTakeEffectOnce`): for any calls, tries and number of retained
  keys. The invariant is `CallOK` of every call none of whose keys was let go (`Settled`): one
  key is current, kept or under way; only its effect may be ahead of the answers; a try that
  was given up on has that key or one that took effect already. The effects are then as many
  as the answered submissions, or one more.
* `ListSpecWalkComplete` (`RegularWalkComplete`): for any rows, page size and length of a walk.
  A page is the front of what the query answers (`PageIsFront`), and the cursor after it stands
  behind its last row and before the next, because whole milliseconds survive the cursor
  (`CursorStandsBehind`). So a page, when it is read, shows of the rows that match all the
  while exactly those between its cursor and the next (`PageRight`); insertions, changes and
  later pages leave that as it was. The invariant `Walked` adds that each cursor of the walk is
  the one after the page before it and lies further on; a row lies between two neighbours of
  such a chain once (`OnePage`). A page of the walk may be read long before the next: nothing
  in the argument asks that the pages be of one moment. Of the constants it assumes that the ids are
  finitely many and ordered (integers), and that a page holds a row and a millisecond a tick at
  least.

Statements that do not hold, each reproduced by putting its name in `Console.cfg`:

| Definition | What is asked | Why not |
|---|---|---|
| `WalkComplete` | no row is skipped or shown twice | the cursor holds milliseconds, the worker's columns microseconds; a search takes the place of the cursor |
| `PagesDiffer` | Next shows other rows | the search's `OR` replaces the cursor's |
| `NextLeadsOn` | Next leads to a page | a cursor is returned for the last page too |
| `ScreensAreServed` | every screen's list is served | lists without a route; lists that need a reason |
| `FormsAreServed` | every form can be filled in and sent | lookups ask for 200 of at most 100 records; buttons without a route |
| `ResidentsSeeNotices` | a resident sees notices | the grant is TARGETED, the route's object is the society |
| `MembersSeeTheirFlat` | approval gives access to the flat | no operation writes `user_roles` |
| `AppCallsServed` | the API serves what the apps ask | most routes are missing; some bodies are refused |
| `RefusalsKeepTheKey` | a refused retry keeps its key | any answer but IN_PROGRESS releases it |

Abstracted or left out: `lastSeenAt`; access tokens are taken to be genuine; the notice editor,
the dashboard and the settings, which are not in `resource-config.ts`; values of fields beyond
the enumerations of statuses and the limit; the console's own requests, which go out under a
new key each time they are submitted; and, of the apps' kept keys, an answer 5xx that comes
after the commit, from the API or from what stands before it: `performRequest` releases the
key for it as for any other answer, so the next submission, under a new key, takes effect again:
the same gap as `RefusalsKeepTheKey` shows for a 429.

## 9. Results

* Modelled, checked and proved: the outbox with its refinement, push delivery, the safety
  of the guard queue, the server's side of sessions, its three clients
  (refinement and safety), the four sign-ins, the two senders of a code, the mutation journal, the operations on payments,
  memberships, notices, complaints, emergencies, roles and visits, the file jobs, the
  admission of a request, the repetition of the apps' requests, the walk through a list.
* Modelled and checked: everything else of section 2.
* Disagreements between the code and what it or its documents say are the `findings` of
  `PROJECT.json`. Three are runs TLC must find violated: `guard_lapse`, `audit_fork`,
  `notice_events`. The others are reproduced by configurations that are not in the list of
  runs (`ShiftThrottled.cfg`, `ResidentOverlap.cfg`, `ResidentHang.cfg`, `DeclaredSteps.cfg`) or by putting the property
  named in the finding into the configuration of its module's run.
* Only model-checked: liveness, `EventKinds`, `WorkerRuntime`, `RefusalsExplained`. Liveness
  under fairness and ENABLED are out of the prover's reach, and so is what a RECURSIVE
  operator computes; recursive functions and finite sets are reasoned about through a least
  counterexample (`WFMin`), for an induction theorem takes an operator as its parameter.
  `RefusalsExplained` is a statement about the tables of routes, screens and policies, which
  have no constants to generalize: TLC evaluates all of them.
* `TypeOK`, `DeadLetterIsExhausted` and `RetryHasBudget` of `Outbox`, `TriesBounded` of
  `OtpDelivery` and the types of the clients are proved and no run repeats them.
* Each property of a run has a mutant of the code's definition that breaks it (`mutants` of
  `PROJECT.json`); the mutated forms stand before the definitions they change and are marked
  `Mutant`.
* Not modelled: CRUD of blocks, floors, flats and gates; the details of a family
  member; rules of `packages/domain` the repository never calls (parcels, daily help,
  attendance, pre-approvals); the endpoints the guard and resident apps call and the API
  does not have; what the apps' screens show; providers, infrastructure, validation of
  configuration.

## 10. Running

    tlc -workers 2 -config Outbox.cfg Outbox.tla
    tlapm OutboxProofs.tla

and the same for `GuardSyncProofs`, `SessionProofs`, `GuardShiftProofs`, `ClientProofs`,
`ServiceProofs`, `TransactionProofs` and `RequestProofs`.

`PROJECT.json` lists the module and configuration of every run; the other configurations
are run the same way, each with the module of its name's system: the MC module of
`GuardShift` or `ResidentSession`, and `Casework` itself.
