---------------------------- MODULE AtLeastOnce ----------------------------
(***************************************************************************)
(* What the transactional outbox promises to the code that writes to it:   *)
(* an event is tried a bounded number of times, it is published only when  *)
(* its handler completed in the try that publishes it, and it is buried    *)
(* (dead-lettered) only when every allowed try was made.  Handlers may run *)
(* late and more than once: the promise is "at least once", never          *)
(* "exactly once".                                                         *)
(***************************************************************************)
EXTENDS Naturals, FiniteSets

CONSTANTS Events,        \* rows the API may insert
          MaxAttempts    \* WORKER_MAX_ATTEMPTS

VARIABLES fate,          \* what became of each event
          tries,         \* how many times each event was claimed
          handled        \* the tries in which its handler completed

abstractVars == <<fate, tries, handled>>

Fates == {"unborn", "open", "published", "dead"}

AbstractInit ==
    /\ fate = [e \in Events |-> "unborn"]
    /\ tries = [e \in Events |-> 0]
    /\ handled = [e \in Events |-> {}]

\* An event enters the outbox with the business change that caused it.
Submit(e) ==
    /\ fate[e] = "unborn"
    /\ fate' = [fate EXCEPT ![e] = "open"]
    /\ UNCHANGED <<tries, handled>>

\* One poll claims the events of C for a further try and buries those of B,
\* which were abandoned in their last allowed try.
Sweep(C, B) ==
    /\ C \cap B = {}
    /\ \A e \in C : fate[e] = "open" /\ tries[e] < MaxAttempts
    /\ \A e \in B : fate[e] = "open" /\ tries[e] = MaxAttempts
    /\ tries' = [e \in Events |-> IF e \in C THEN tries[e] + 1 ELSE tries[e]]
    /\ fate' = [e \in Events |-> IF e \in B THEN "dead" ELSE fate[e]]
    /\ UNCHANGED handled

\* A handler completes for try n, possibly long after the event moved on.
Complete(e, n) ==
    /\ n \in 1..tries[e]
    /\ handled' = [handled EXCEPT ![e] = @ \cup {n}]
    /\ UNCHANGED <<fate, tries>>

Publish(e) ==
    /\ fate[e] = "open"
    /\ tries[e] \in handled[e]
    /\ fate' = [fate EXCEPT ![e] = "published"]
    /\ UNCHANGED <<tries, handled>>

Bury(e) ==
    /\ fate[e] = "open"
    /\ tries[e] = MaxAttempts
    /\ fate' = [fate EXCEPT ![e] = "dead"]
    /\ UNCHANGED <<tries, handled>>

AbstractNext ==
    \/ \E e \in Events : Submit(e) \/ Publish(e) \/ Bury(e)
    \/ \E C, B \in SUBSET Events : Sweep(C, B)
    \/ \E e \in Events, n \in 1..MaxAttempts : Complete(e, n)

AtLeastOnceSpec == AbstractInit /\ [][AbstractNext]_abstractVars
=============================================================================
