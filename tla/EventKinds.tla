----------------------------- MODULE EventKinds -----------------------------
(***************************************************************************)
(* What the API's events are and what the worker does with them.  Every    *)
(* operation of the journal inserts one event of its own type; the switch  *)
(* of JobHandler.handle knows nine types and throws for any other, which   *)
(* the outbox of module Outbox retries and finally buries.                 *)
(***************************************************************************)
EXTENDS Outbox

CONSTANT Kinds    \* event types the API emits, as far as the run tells them apart

VARIABLE kind     \* outbox_events.event_type

kindVars == <<vars, kind>>

\* The cases of the switch.
Handled ==
    {"notification.dispatch", "otp.deliver", "file.scan", "file.quarantine-cleanup", "expo.receipt",
     "visitor.approval-timeout", "visitor.long-visit", "retention.execute", "audit.follow-up"}

KindInit == Init /\ kind \in [Events -> Kinds]

\* The default case throws at once.  For the others the providers are taken to
\* work here, so that only the contract between the two programs is in question.
Handles(w) ==
    IF kind[job[w].event] \in Handled THEN HandlerReturns(w) ELSE HandlerThrows(w)

KindWorkerStep(w) ==
    Poll(w) \/ StartJob(w) \/ (step[w] = "handle" /\ Handles(w)) \/ PublishJob(w) \/ FailJob(w)

KindNext ==
    /\ (\E e \in Events : EventStep(e)) \/ (\E w \in Workers : KindWorkerStep(w))
    /\ UNCHANGED kind

\* As in Outbox: the poll timer fires and time passes.
KindFairness ==
    /\ \A e \in Events : WF_kindVars(BackoffElapses(e) /\ UNCHANGED kind)
    /\ \A w \in Workers : WF_kindVars(KindWorkerStep(w) /\ UNCHANGED kind)

KindSpec == KindInit /\ [][KindNext]_kindVars /\ KindFairness

\* "Push notification for published notices": when nothing crashes and every
\* provider works, each event the API committed is served in the end.
EventuallyServed == \A e \in Events : status[e] = "PENDING" ~> status[e] = "PUBLISHED"
=============================================================================
