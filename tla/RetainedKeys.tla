---------------------------- MODULE RetainedKeys ----------------------------
(***************************************************************************)
(* How an app repeats a request whose fate it does not know: the request   *)
(* client keeps the Idempotency-Key of a call that timed out, by a digest  *)
(* of the call, and sends the next try of the same call under it           *)
(* (idempotency-retry.ts and performRequest, the same in both apps).       *)
(* Tries overlap, are given up on and served later; the app is killed.     *)
(* The API is reduced to what Journal shows of it: a key takes effect once *)
(* and is answered alike ever after.                                       *)
(***************************************************************************)
EXTENDS AppCalls, SequencesExt

CONSTANTS Submitted,   \* the calls the user makes, a subset of the two apps' calls
          MaxKept,     \* MAX_RETAINED_KEYS
          MaxTries     \* bound on the submissions, and with them on the keys

ASSUME KeptBounded == MaxKept \in Nat

VARIABLES kept,        \* retainedKeys, oldest first: <<[call, key], ...>>
          tries,       \* requests under way
          applied,     \* the keys that took effect, with their calls
          oks,         \* how often the user saw each call succeed
          lapses,      \* the calls whose key was let go though a try under it may take effect
          submissions

retryVars == <<kept, tries, applied, oks, lapses, submissions>>

CallsOf(entries) == {entries[i].call : i \in DOMAIN entries}
Lapsed(lost, why) == {[call |-> c, why |-> why] : c \in lost}

RetryInit ==
    /\ kept = <<>> /\ tries = {} /\ applied = {}
    /\ oks = [c \in Submitted |-> 0]
    /\ lapses = {}
    /\ submissions = 0

-----------------------------------------------------------------------------
(* idempotency-retry.ts *)

\* delete: a call has one entry at most.
Without(entries, c) ==
    LET at == {i \in DOMAIN entries : entries[i].call = c}
    IN IF at = {} THEN entries ELSE RemoveAt(entries, CHOOSE i \in at : TRUE)

\* prune: first the entries a day old, of which there are this many, then the oldest beyond the limit.
Pruned(entries, expired) ==
    LET young == SubSeq(entries, expired + 1, Len(entries))
    IN IF Len(young) > MaxKept THEN SubSeq(young, Len(young) - MaxKept + 1, Len(young)) ELSE young

Prune(entries, lapsed) ==
    \E expired \in 0 .. Len(entries) :
        /\ kept' = Pruned(entries, expired)
        /\ lapses' = lapses \cup lapsed \cup Lapsed(CallsOf(entries) \ CallsOf(kept'), "dropped")

\* idempotencyKeyForRetry, once it has pruned.
KeyForRetry(entries, c, proposed) ==
    IF \E e \in {entries[i] : i \in DOMAIN entries} : e.call = c
    THEN (CHOOSE e \in {entries[i] : i \in DOMAIN entries} : e.call = c).key
    ELSE proposed

\* retainIdempotencyKey: the entry moves to the end.
Retain(try) == Prune(Append(Without(kept, try.call), [call |-> try.call, key |-> try.key]), {})

-----------------------------------------------------------------------------
(* performRequest, ApiClient.request *)

Awaited(c) == {t \in tries : t.awaited /\ t.call = c}

\* The button is disabled while its own request is pending, not that of a screen opened anew.
Tap(c) ==
    /\ submissions < MaxTries
    /\ submissions' = submissions + 1
    /\ Prune(kept, IF Awaited(c) # {} THEN Lapsed({c}, "overlap") ELSE {})
    /\ tries' = tries \cup
          {[call |-> c, proposed |-> submissions', key |-> KeyForRetry(kept', c, submissions'),
            at |-> "sent", awaited |-> TRUE, retried |-> FALSE]}
    /\ UNCHANGED <<applied, oks>>

\* Answered 401 before it is executed: the session is refreshed and the request sent again, under
\* the key kept by then.  A refresh that fails ends the request; the resident app keeps its key
\* where the refresh got no answer, the guard app leaves the kept keys alone.
Unauthorized(try) ==
    /\ try.at = "sent" /\ try.awaited /\ ~try.retried
    /\ \/ /\ Prune(kept, {})
          /\ tries' = (tries \ {try}) \cup
                {[try EXCEPT !.retried = TRUE, !.key = KeyForRetry(kept', try.call, try.proposed)]}
       \/ /\ tries' = tries \ {try}
          /\ Retain(try) \/ UNCHANGED <<kept, lapses>>
    /\ UNCHANGED <<applied, oks, submissions>>

\* Timed out, aborted or cut off: the request may arrive yet.
Lose(try) ==
    /\ try.awaited
    /\ Retain(try)
    /\ tries' = (tries \ {try}) \cup
          IF try.at = "sent" THEN {[try EXCEPT !.awaited = FALSE]} ELSE {}
    /\ UNCHANGED <<applied, oks, submissions>>

\* Mutant: that the same request is being processed is taken for its end.
DefinitiveAlways(at) == at # "sent"

\* Any response but IDEMPOTENCY_REQUEST_IN_PROGRESS releases the key.
Definitive(at) == at \in {"ok", "refused"}

Answered(try) ==
    /\ try.awaited /\ try.at # "sent"
    /\ tries' = tries \ {try}
    /\ IF Definitive(try.at)
       THEN /\ kept' = Without(kept, try.call)
            /\ lapses' = IF try.at = "refused" /\ try.call \in CallsOf(kept)
                         THEN lapses \cup Lapsed({try.call}, "refused") ELSE lapses
       ELSE Retain(try)
    /\ oks' = IF try.at = "ok" THEN [oks EXCEPT ![try.call] = @ + 1] ELSE oks
    /\ UNCHANGED <<applied, submissions>>

\* The map is in memory only.
Kill ==
    /\ kept' = <<>>
    /\ lapses' = lapses \cup Lapsed(CallsOf(kept) \cup {t.call : t \in {u \in tries : u.awaited}},
                                    "killed")
    /\ tries' = {[t EXCEPT !.awaited = FALSE] : t \in {u \in tries : u.at = "sent"}}
    /\ UNCHANGED <<applied, oks, submissions>>

-----------------------------------------------------------------------------
(* The API *)

\* The answer of a try nobody waits for goes nowhere.
Serve(try, at) ==
    tries' = (tries \ {try}) \cup IF try.awaited THEN {[try EXCEPT !.at = at]} ELSE {}

\* Executed, or replayed where its key took effect before.
TakesEffect(try) ==
    /\ try.at = "sent" /\ Reachable(try.call)
    /\ Serve(try, "ok")
    /\ applied' = applied \cup {[key |-> try.key, call |-> try.call]}
    /\ UNCHANGED <<kept, oks, lapses, submissions>>

\* Throttled, invalid or rolled back.
Refuse(try) ==
    /\ try.at = "sent"
    /\ Serve(try, "refused")
    /\ UNCHANGED <<kept, applied, oks, lapses, submissions>>

\* Another try under the key is being executed.
RefuseBusy(try) ==
    /\ try.at = "sent"
    /\ \E other \in tries \ {try} : other.at = "sent" /\ other.key = try.key
    /\ Serve(try, "busy")
    /\ UNCHANGED <<kept, applied, oks, lapses, submissions>>

RetryNext ==
    \/ \E c \in Submitted : Tap(c)
    \/ \E t \in tries :
          Unauthorized(t) \/ Lose(t) \/ Answered(t) \/ TakesEffect(t) \/ Refuse(t) \/ RefuseBusy(t)
    \/ Kill

RetrySpec == RetryInit /\ [][RetryNext]_retryVars

-----------------------------------------------------------------------------
(* A submission repeated until it is answered takes effect once, and what  *)
(* the user saw succeed took effect each time: of every call no more than  *)
(* one effect is ahead of the successes shown.  Calls whose key was let go *)
(* while a try under it was open are left out: the app was killed, a key   *)
(* was a day old or one too many, two screens submitted at once, or a      *)
(* retry was refused.                                                      *)
Effects(c) == Cardinality({a \in applied : a.call = c})

RetriesTakeEffectOnce ==
    \A c \in Submitted :
        (\A l \in lapses : l.call # c) => Effects(c) \in {oks[c], oks[c] + 1}

\* So it is also where a retry was refused, by the rate limiter for one.
RefusalsKeepTheKey ==
    \A c \in Submitted :
        (\A l \in lapses : l.call = c => l.why = "refused") => Effects(c) <= oks[c] + 1
=============================================================================
