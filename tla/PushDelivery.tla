---------------------------- MODULE PushDelivery ----------------------------
(***************************************************************************)
(* Push notifications: dispatchNotification and its helpers in             *)
(* apps/worker/src/jobs/handler.ts running as the job handler of the       *)
(* outbox, the Expo receipt job, and the administrator's retry of a failed *)
(* delivery in the API.                                                    *)
(*                                                                         *)
(* The module extends Outbox: its workers, rows and steps are those of the *)
(* outbox, and where Outbox only says that a handler returns or throws,    *)
(* this module says which statements and provider calls lead there.  One   *)
(* statement or one provider call is one step.                             *)
(***************************************************************************)
EXTENDS Outbox

CONSTANTS Deliveries     \* rows of notification_deliveries

\* As many processes as the deployment runs.
ASSUME WorkersFinite == IsFiniteSet(Workers)

NoDelivery == "no delivery"
DeliveryStatuses == {"ABSENT", "PENDING", "PROCESSING", "RETRY", "DELIVERED", "FAILED"}
Providers == {"EXPO", "FCM", "WEB_PUSH"}
Phases == {"none", "claim", "inspect", "exhaust", "send", "complete", "retry", "terminal"}

VARIABLES delivery,      \* notification_deliveries.status
          tries,         \* notification_deliveries.attempt_count
          stale,         \* updated_at is older than WORKER_LEASE_SECONDS
          endpoint,      \* the delivery's push endpoint is ACTIVE
          provider,      \* and its provider, which nothing changes
          receipt,       \* its expo.receipt event was inserted
          target,        \* the delivery an outbox event dispatches
          phase,         \* where in dispatchNotification the worker is
          fresh,         \* the worker's own claim is younger than the lease
          sends,         \* history: calls of the push provider
          accepted       \* history: pushes the provider accepted

pushRows == <<delivery, tries, stale, endpoint, provider, receipt, target>>
pushLocal == <<phase, fresh>>
pushHistory == <<sends, accepted>>
pushVars == <<vars, pushRows, pushLocal, pushHistory>>

PushInit ==
    /\ Init
    /\ delivery = [d \in Deliveries |-> "ABSENT"]
    /\ tries = [d \in Deliveries |-> 0]
    /\ stale = [d \in Deliveries |-> FALSE]
    /\ endpoint = [d \in Deliveries |-> TRUE]
    /\ provider \in [Deliveries -> Providers]
    /\ receipt = [d \in Deliveries |-> FALSE]
    /\ target = [e \in Events |-> NoDelivery]
    /\ phase = [w \in Workers |-> "none"]
    /\ fresh = [w \in Workers |-> FALSE]
    /\ sends = [d \in Deliveries |-> 0]
    /\ accepted = [d \in Deliveries |-> 0]

DeliveryOf(w) == target[job[w].event]

-----------------------------------------------------------------------------
(* Producers, the clock, the administrator, the receipt job *)

\* A notification is sent for the first time: the delivery row and its
\* dispatch event are inserted together.  No producer is in this repository;
\* the columns' defaults give the values.
NewDelivery(d, e) ==
    /\ delivery[d] = "ABSENT"
    /\ Enqueue(e)
    /\ delivery' = [delivery EXCEPT ![d] = "PENDING"]
    /\ target' = [target EXCEPT ![e] = d]
    /\ UNCHANGED <<tries, stale, endpoint, provider, receipt, pushLocal, pushHistory>>

\* Mutant: the retry starts the delivery's attempt count over.
RetryDeliveryResets(d, e) ==
    /\ delivery[d] \in {"FAILED", "RETRY"}
    /\ endpoint[d]
    /\ Enqueue(e)
    /\ delivery' = [delivery EXCEPT ![d] = "RETRY"]
    /\ tries' = [tries EXCEPT ![d] = 0]
    /\ stale' = [stale EXCEPT ![d] = FALSE]
    /\ target' = [target EXCEPT ![e] = d]
    /\ UNCHANGED <<endpoint, provider, receipt, pushLocal, pushHistory>>

\* Mutant: the retry opens the dead event again instead of inserting one.
RetryDeliveryReopens(d, e) ==
    /\ delivery[d] \in {"FAILED", "RETRY"}
    /\ endpoint[d]
    /\ target[e] = d /\ status[e] = "DEAD_LETTER"
    /\ status' = [status EXCEPT ![e] = "PENDING"]
    /\ due' = [due EXCEPT ![e] = TRUE]
    /\ delivery' = [delivery EXCEPT ![d] = "RETRY"]
    /\ stale' = [stale EXCEPT ![d] = FALSE]
    /\ UNCHANGED <<attemptCount, ledger, local, handled, tries, endpoint,
                   provider, receipt, target, pushLocal, pushHistory>>

\* retryDelivery: only from FAILED or RETRY and while the endpoint is active.
\* attempt_count keeps its value; a second dispatch event is inserted.
RetryDelivery(d, e) ==
    /\ delivery[d] \in {"FAILED", "RETRY"}
    /\ endpoint[d]
    /\ Enqueue(e)
    /\ delivery' = [delivery EXCEPT ![d] = "RETRY"]
    /\ stale' = [stale EXCEPT ![d] = FALSE]
    /\ target' = [target EXCEPT ![e] = d]
    /\ UNCHANGED <<tries, endpoint, provider, receipt, pushLocal, pushHistory>>

\* The lease passes since the row's last update.
DeliveryAges(d) ==
    /\ delivery[d] = "PROCESSING" /\ ~stale[d]
    /\ stale' = [stale EXCEPT ![d] = TRUE]
    /\ fresh' = [w \in Workers |-> fresh[w] /\ DeliveryOf(w) # d]
    /\ UNCHANGED <<vars, delivery, tries, endpoint, provider, receipt, target, phase, pushHistory>>

\* processExpoReceipt when Expo reports an endpoint of its own expired; the
\* other answers change nothing.  The job may run again after a lost outcome.
ReceiptExpired(d) ==
    /\ receipt[d] /\ provider[d] = "EXPO"
    /\ delivery[d] \in {"DELIVERED", "FAILED"}
    /\ delivery' = [delivery EXCEPT ![d] = "FAILED"]
    /\ endpoint' = [endpoint EXCEPT ![d] = FALSE]
    /\ UNCHANGED <<vars, tries, stale, provider, receipt, target, pushLocal, pushHistory>>

-----------------------------------------------------------------------------
(* dispatchNotification *)

GoTo(w, p) == phase' = [phase EXCEPT ![w] = p]

\* handle() is called with the next event of the batch.
StartDispatch(w) ==
    /\ StartJob(w)
    /\ GoTo(w, "claim")
    /\ UNCHANGED <<pushRows, fresh, pushHistory>>

\* The handler is done: the outbox learns whether it returned or threw.
Returns(w) ==
    /\ HandlerReturns(w)
    /\ GoTo(w, "none")
    /\ fresh' = [fresh EXCEPT ![w] = FALSE]

Throws(w) ==
    /\ HandlerThrows(w)
    /\ GoTo(w, "none")
    /\ fresh' = [fresh EXCEPT ![w] = FALSE]

\* The WHERE clause of the claim: a waiting delivery, or one whose claim aged
\* past the lease when this is not the event's first attempt.
Claimable(d, attempt) ==
    /\ endpoint[d]
    /\ tries[d] < MaxAttempts
    /\ \/ delivery[d] \in {"PENDING", "RETRY"}
       \/ delivery[d] = "PROCESSING" /\ attempt > 1 /\ stale[d]

ClaimDelivery(w) ==
    LET d == DeliveryOf(w) IN
    /\ phase[w] = "claim"
    /\ IF Claimable(d, job[w].attempt)
       THEN /\ delivery' = [delivery EXCEPT ![d] = "PROCESSING"]
            /\ tries' = [tries EXCEPT ![d] = @ + 1]
            /\ stale' = [stale EXCEPT ![d] = FALSE]
            /\ fresh' = [fresh EXCEPT ![w] = TRUE]
            /\ GoTo(w, "send")
       ELSE GoTo(w, "inspect") /\ UNCHANGED <<delivery, tries, stale, fresh>>
    /\ UNCHANGED <<vars, endpoint, provider, receipt, target, pushHistory>>

\* Why the claim failed: a terminal delivery ends the job, an exhausted one is
\* to be failed, anything else is an error for the outbox to retry.
InspectDelivery(w) ==
    LET d == DeliveryOf(w)
        exhausted == tries[d] >= MaxAttempts \/ job[w].attempt >= MaxAttempts IN
    /\ phase[w] = "inspect"
    /\ \/ delivery[d] \in {"DELIVERED", "FAILED"} /\ Returns(w)
       \/ /\ delivery[d] \notin {"DELIVERED", "FAILED"} /\ exhausted
          /\ GoTo(w, "exhaust") /\ UNCHANGED <<vars, fresh>>
       \/ delivery[d] \notin {"DELIVERED", "FAILED"} /\ ~exhausted /\ Throws(w)
    /\ UNCHANGED <<pushRows, pushHistory>>

\* PUSH_ATTEMPTS_EXHAUSTED; the state read before may have changed.
MarkExhausted(w) ==
    LET d == DeliveryOf(w) IN
    /\ phase[w] = "exhaust"
    /\ IF delivery[d] \in {"PENDING", "PROCESSING", "RETRY"}
       THEN /\ delivery' = [delivery EXCEPT ![d] = "FAILED"]
            /\ stale' = [stale EXCEPT ![d] = FALSE]
            /\ Returns(w)
       ELSE Throws(w) /\ UNCHANGED <<delivery, stale>>
    /\ UNCHANGED <<tries, endpoint, provider, receipt, target, pushHistory>>

\* The provider call and its classification.  An exception or a missing
\* message id says nothing of whether the push went out; an endpoint token that
\* does not decrypt or parse, or a provider that is not one of the two the
\* handler knows, ends the same way before the call.
SendPush(w) ==
    LET d == DeliveryOf(w) IN
    /\ phase[w] = "send"
    /\ \/ /\ provider[d] \in {"EXPO", "FCM"}
          /\ sends' = [sends EXCEPT ![d] = @ + 1]
          /\ \/ GoTo(w, "complete") /\ accepted' = [accepted EXCEPT ![d] = @ + 1]
             \/ GoTo(w, "retry")
                /\ \E n \in {0, 1} : accepted' = [accepted EXCEPT ![d] = @ + n]
             \/ GoTo(w, "terminal") /\ UNCHANGED accepted
       \/ GoTo(w, "retry") /\ UNCHANGED pushHistory
    /\ UNCHANGED <<vars, pushRows, fresh>>

\* Accepted: DELIVERED, and Expo's receipt check is queued (once per delivery);
\* FCM has none.
CompleteDelivery(w) ==
    LET d == DeliveryOf(w) IN
    /\ phase[w] = "complete"
    /\ IF delivery[d] = "PROCESSING"
       THEN /\ delivery' = [delivery EXCEPT ![d] = "DELIVERED"]
            /\ receipt' = [receipt EXCEPT ![d] = @ \/ provider[d] = "EXPO"]
            /\ stale' = [stale EXCEPT ![d] = FALSE]
            /\ Returns(w)
       ELSE Throws(w) /\ UNCHANGED <<delivery, receipt, stale>>
    /\ UNCHANGED <<tries, endpoint, provider, target, pushHistory>>

\* Mutant: the failed send is recorded whatever the delivery's status.
MarkForRetryUnguarded(w) ==
    LET d == DeliveryOf(w) IN
    /\ phase[w] = "retry"
    /\ delivery' = [delivery EXCEPT ![d] = "RETRY"]
    /\ stale' = [stale EXCEPT ![d] = FALSE]
    /\ Throws(w)
    /\ UNCHANGED <<tries, endpoint, provider, receipt, target, pushHistory>>

\* markNotificationForRetry: nothing but the status says whose claim it is.
\* The handler throws either way.
MarkForRetry(w) ==
    LET d == DeliveryOf(w) IN
    /\ phase[w] = "retry"
    /\ IF delivery[d] = "PROCESSING"
       THEN /\ delivery' = [delivery EXCEPT ![d] = "RETRY"]
            /\ stale' = [stale EXCEPT ![d] = FALSE]
       ELSE UNCHANGED <<delivery, stale>>
    /\ Throws(w)
    /\ UNCHANGED <<tries, endpoint, provider, receipt, target, pushHistory>>

\* failNotificationTerminally: the endpoint is revoked with the delivery.
FailTerminally(w) ==
    LET d == DeliveryOf(w) IN
    /\ phase[w] = "terminal"
    /\ IF delivery[d] = "PROCESSING"
       THEN /\ delivery' = [delivery EXCEPT ![d] = "FAILED"]
            /\ endpoint' = [endpoint EXCEPT ![d] = FALSE]
            /\ stale' = [stale EXCEPT ![d] = FALSE]
            /\ Returns(w)
       ELSE Throws(w) /\ UNCHANGED <<delivery, endpoint, stale>>
    /\ UNCHANGED <<tries, provider, receipt, target, pushHistory>>

\* A statement of the handler fails before it commits.
StatementFails(w) ==
    /\ phase[w] \notin {"none", "send"}
    /\ Throws(w)
    /\ UNCHANGED <<pushRows, pushHistory>>

CrashInDispatch(w) ==
    /\ Crash(w)
    /\ GoTo(w, "none")
    /\ fresh' = [fresh EXCEPT ![w] = FALSE]
    /\ UNCHANGED <<pushRows, pushHistory>>

-----------------------------------------------------------------------------
DispatchStep(w) ==
    \/ ClaimDelivery(w) \/ InspectDelivery(w) \/ MarkExhausted(w)
    \/ SendPush(w) \/ CompleteDelivery(w) \/ MarkForRetry(w)
    \/ FailTerminally(w) \/ StatementFails(w)

\* The steps of the outbox that do not touch the handler.
OutboxStep ==
    /\ \/ \E e \in Events : BackoffElapses(e) \/ LeaseExpires(e)
       \/ \E w \in Workers :
            \/ Poll(w) \/ PollAnswerLost(w)
            \/ PublishJob(w) \/ PublishErrors(w)
            \/ FailJob(w) \/ FailErrors(w)
    /\ UNCHANGED <<pushRows, pushLocal, pushHistory>>

PushNext ==
    \/ \E d \in Deliveries, e \in Events : NewDelivery(d, e) \/ RetryDelivery(d, e)
    \/ \E d \in Deliveries : DeliveryAges(d) \/ ReceiptExpired(d)
    \/ \E w \in Workers : StartDispatch(w) \/ DispatchStep(w) \/ CrashInDispatch(w)
    \/ OutboxStep

PushSpec == PushInit /\ [][PushNext]_pushVars

-----------------------------------------------------------------------------
(* Properties *)

\* Every variable of the delivery has its type.
PushTypeOK ==
    /\ delivery \in [Deliveries -> DeliveryStatuses]
    /\ tries \in [Deliveries -> 0..MaxAttempts]
    /\ stale \in [Deliveries -> BOOLEAN]
    /\ endpoint \in [Deliveries -> BOOLEAN]
    /\ provider \in [Deliveries -> Providers]
    /\ receipt \in [Deliveries -> BOOLEAN]
    /\ target \in [Events -> Deliveries \cup {NoDelivery}]
    /\ phase \in [Workers -> Phases]
    /\ fresh \in [Workers -> BOOLEAN]
    /\ sends \in [Deliveries -> Nat]
    /\ accepted \in [Deliveries -> Nat]

Sending(w, d) == phase[w] = "send" /\ DeliveryOf(w) = d

\* The provider is called at most WORKER_MAX_ATTEMPTS times for a delivery over
\* its whole life: takeovers, crashes and administrator retries included, since
\* each call spends a claim and no path gives claims back.
SendsBounded ==
    \A d \in Deliveries :
      sends[d] + Cardinality({w \in Workers : Sending(w, d)}) <= tries[d]

\* Late workers never undo a terminal delivery: DELIVERED is taken back only by
\* the answer to its receipt check, which Expo alone has and which revokes the
\* endpoint (FCM's stands for good); FAILED changes only when an administrator
\* retries; an endpoint once revoked is not sent to by a new claim.  Nothing is
\* DELIVERED before the provider accepted it, nor by Expo without its check queued.
TerminalOutcomesStand ==
    [][\A d \in Deliveries :
         /\ delivery[d] = "DELIVERED" /\ delivery'[d] # "DELIVERED" =>
              provider[d] = "EXPO" /\ receipt[d] /\ delivery'[d] = "FAILED" /\ ~endpoint'[d]
         /\ delivery[d] = "FAILED" /\ delivery'[d] # "FAILED" =>
              \E e \in Events : status[e] = "ABSENT" /\ status'[e] = "PENDING" /\ target'[e] = d
         /\ ~endpoint[d] => tries'[d] = tries[d]
         /\ delivery'[d] = "DELIVERED" =>
              accepted[d] > 0 /\ (receipt'[d] <=> provider[d] = "EXPO")]_pushVars

\* The push job is a job handler as the outbox knows it: composed with the
\* statements above, the outbox still takes only the steps of its own module.
RunsOnTheOutbox == Spec

\* What failure-paths.test.ts says of the worker: an exhausted delivery is
\* recorded as failed and not left PROCESSING, here once every event that
\* dispatches it is settled and no worker is on it any more.
ExhaustedIsTerminal ==
    \A d \in Deliveries :
      delivery[d] = "PROCESSING" =>
        \/ \E e \in Events : target[e] = d /\ status[e] \notin Settled
        \/ \E w \in Workers : phase[w] # "none" /\ DeliveryOf(w) = d

\* What the handler says when it refuses a claim: a duplicate send is
\* suppressed while the delivery is already processing.
DuplicateSendSuppressed ==
    \A v, w \in Workers : \A d \in Deliveries :
      v # w /\ Sending(v, d) /\ Sending(w, d) => ~(fresh[v] /\ fresh[w])
=============================================================================
