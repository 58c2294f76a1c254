---------------------------- MODULE OtpDelivery ----------------------------
(***************************************************************************)
(* Two senders of one sign-in code.  requestOtp commits an otp.deliver     *)
(* event and then tries to send the code itself (attemptOtpDelivery),      *)
(* using the outbox row as its claim; the worker's deliverOtp, run by      *)
(* the outbox of module Outbox, sends it when the API does not.            *)
(*                                                                         *)
(* The inline sender does not follow the outbox's protocol: its claim does *)
(* not count an attempt, its outcome is not fenced by the attempt number,  *)
(* and its failure does not look at the attempt limit.  The unique index   *)
(* (event, attempt) of outbox_attempts is what is left.  An attempt past   *)
(* the limit settles the event, so no row is kept of it here.              *)
(***************************************************************************)
EXTENDS Outbox

VARIABLES inline,   \* the API request's progress and its attempt number
          sends     \* history: how often a sender set out to send the code

otpVars == <<vars, inline, sends>>

InlinePhases == {"waiting", "read", "claimed", "sent", "failed", "done"}

OtpTypeOK ==
    /\ status \in [Events -> Statuses]
    /\ attemptCount \in [Events -> 0..(MaxAttempts + 1)]
    /\ inline \in [Events -> [phase : InlinePhases, attempt : 0..(MaxAttempts + 1)]]

OtpInit ==
    /\ Init
    /\ inline = [e \in Events |-> [phase |-> "waiting", attempt |-> 0]]
    /\ sends = [e \in Events |-> 0]

\* The claim transaction reads the event: due, and PENDING or RETRY.  The
\* attempt it will report is one more than the row's count, kept in memory.
InlineRead(e) ==
    /\ inline[e].phase = "waiting"
    /\ status[e] \in {"PENDING", "RETRY"} /\ due[e]
    /\ inline' = [inline EXCEPT ![e] = [phase |-> "read", attempt |-> attemptCount[e] + 1]]
    /\ UNCHANGED <<vars, sends>>

\* updateMany ... WHERE status IN (PENDING, RETRY): takes the row, without
\* counting an attempt; a row that is gone ends the inline delivery.
InlineClaim(e) ==
    /\ inline[e].phase = "read"
    /\ IF status[e] \in {"PENDING", "RETRY"}
       THEN /\ status' = [status EXCEPT ![e] = "PROCESSING"]
            /\ due' = [due EXCEPT ![e] = FALSE]
            /\ inline' = [inline EXCEPT ![e].phase = "claimed"]
            /\ sends' = [sends EXCEPT ![e] = @ + 1]
       ELSE /\ inline' = [inline EXCEPT ![e].phase = "done"]
            /\ UNCHANGED <<status, due, sends>>
    /\ UNCHANGED <<attemptCount, ledger, local, handled>>

\* The provider answers, or fails.
InlineSend(e) ==
    /\ inline[e].phase = "claimed"
    /\ \E outcome \in {"sent", "failed"} : inline' = [inline EXCEPT ![e].phase = outcome]
    /\ UNCHANGED <<vars, sends>>

\* Mutant: outbox_attempts has no unique (event, attempt), so a late outcome
\* overwrites the row of the attempt.
LedgerOpenAlways(e, a) == TRUE

\* outboxAttempt.create succeeds: no row of this attempt yet.
LedgerOpen(e, a) == ~HasRow(e, a)

\* The outcome transaction: the update asks for PROCESSING only, and the
\* insert of the attempt row rolls it back when the row exists.
InlineOutcome(e, outcome, dueNow) ==
    LET a == inline[e].attempt IN
    IF status[e] = "PROCESSING" /\ LedgerOpen(e, a)
    THEN /\ status' = [status EXCEPT ![e] = outcome]
         /\ attemptCount' = [attemptCount EXCEPT ![e] = a]
         /\ due' = [due EXCEPT ![e] = dueNow]
         /\ ledger' = [ledger EXCEPT ![e] =
              [n \in Attempts |-> IF n = a THEN outcome ELSE ledger[e][n]]]
    ELSE UNCHANGED rows

Ended(e, phase) == inline' = [inline EXCEPT ![e].phase = phase]

\* After a send: PUBLISHED.  No row updated ends quietly; a row that
\* exists already throws and runs into the failure path.
InlineSucceed(e) ==
    /\ inline[e].phase = "sent"
    /\ InlineOutcome(e, "PUBLISHED", FALSE)
    /\ Ended(e, IF status[e] = "PROCESSING" /\ ~LedgerOpen(e, inline[e].attempt)
                THEN "failed" ELSE "done")
    /\ UNCHANGED <<local, handled, sends>>

\* After a failure: RETRY with a backoff, whatever the attempt limit; errors
\* of this transaction are swallowed.
InlineFail(e) ==
    /\ inline[e].phase = "failed"
    /\ InlineOutcome(e, "RETRY", FALSE)
    /\ Ended(e, "done")
    /\ UNCHANGED <<local, handled, sends>>

\* A connection error of a transaction, or the death of the API process.
\* After a send the error is caught and the row is set to RETRY instead.
InlineError(e) ==
    /\ inline[e].phase \notin {"waiting", "done"}
    /\ \/ Ended(e, "done")
       \/ inline[e].phase = "sent" /\ Ended(e, "failed")
    /\ UNCHANGED <<vars, sends>>

\* The worker's steps; a job that starts sets out to send.
OtpWorkerStep(w) ==
    /\ WorkerStep(w)
    /\ sends' = [e \in Events |->
         IF job[w] = NoJob /\ job'[w] # NoJob /\ job'[w].event = e THEN sends[e] + 1 ELSE sends[e]]
    /\ UNCHANGED inline

OtpNext ==
    \/ \E e \in Events :
         \/ EventStep(e) /\ UNCHANGED <<inline, sends>>
         \/ InlineRead(e) \/ InlineClaim(e) \/ InlineSend(e)
         \/ InlineSucceed(e) \/ InlineFail(e) \/ InlineError(e)
    \/ \E w \in Workers : OtpWorkerStep(w)

OtpSpec == OtpInit /\ [][OtpNext]_otpVars

-----------------------------------------------------------------------------
(* Properties *)

\* The second sender costs at most two deliveries more than the outbox's budget,
\* however its late outcomes cut into the worker's attempts: its own, and one
\* attempt past the limit, which its RETRY at the last attempt leaves open.
TriesBounded == \A e \in Events : sends[e] <= MaxAttempts + 2

\* A late outcome of the API never reopens a settled event, rewrites the ledger
\* or turns the attempt number back, although nothing in it names the attempt
\* the row is in.
LateOutcomeHarmless ==
    [][\A e \in Events :
         /\ status[e] \in Settled => status'[e] = status[e]
         /\ \A a \in Attempts : ledger[e][a] # "none" => ledger'[e][a] = ledger[e][a]
         /\ attemptCount'[e] \in {attemptCount[e], attemptCount[e] + 1}]_otpVars
=============================================================================
