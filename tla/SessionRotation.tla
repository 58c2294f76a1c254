--------------------------- MODULE SessionRotation ---------------------------
(***************************************************************************)
(* The server's side of a session (apps/api/src/modules/auth,              *)
(* session.service.ts): a sign-in opens a session with one refresh token;  *)
(* every refresh consumes the token presented and issues its successor;    *)
(* the answer is stored under the client's idempotency key, so that the    *)
(* same request sent again receives the same answer; a spent token under   *)
(* another key ends the whole family.                                      *)
(*                                                                         *)
(* rotate and revokeSession each are one Serializable transaction, so one  *)
(* step.  The clients are arbitrary here: any request with a token that    *)
(* was issued, under any key, at any time and in any order.  GuardShift,   *)
(* ResidentSession and AdminTabs replace them by the three applications.   *)
(***************************************************************************)
EXTENDS Naturals, FiniteSets

CONSTANTS Sessions,      \* sessions the device may be given
          MaxTokens,     \* bound: tokens of one family
          MaxKeys,       \* bound: idempotency keys generated by the client
          SubjectLimit,  \* failures of one family in the window (5 in the code)
          OriginLimit    \* failures of one device in the window (30 in the code)

ASSUME SessionsFinite == IsFiniteSet(Sessions)
ASSUME BoundsPositive == /\ MaxTokens \in Nat \ {0}
                         /\ MaxKeys \in Nat \ {0}
                         /\ SubjectLimit \in Nat \ {0}
                         /\ OriginLimit \in Nat \ {0}

Tokens == 1..MaxTokens
Keys == 1..MaxKeys

\* A refresh: the token is the n-th of the session's family; sameDevice says
\* that the fingerprint sent with it is the one of the session's device.
Requests == [session : Sessions, token : Tokens, key : Keys, sameDevice : BOOLEAN]

\* idempotency_records of one session: the request hashed, the outcome stored.
Records == [token : Tokens, sameDevice : BOOLEAN,
            outcome : {"rotated", "refused", "blocked"}, issued : 0..MaxTokens]
NoRecord == [token |-> 0, sameDevice |-> FALSE, outcome |-> "none", issued |-> 0]

VARIABLES session,   \* user_sessions.status ("NONE": no such row)
          newest,    \* number of tokens of the family
          token,     \* refresh_tokens.status ("NONE": not issued)
          record,    \* idempotency_records of operation auth.session.rotate
          lapsed,    \* sessions past their idle or absolute limit
          barred,    \* the device or the user is not ACTIVE
          failures,  \* authentication_attempts of a family in the window
          origin     \* and of the device

server == <<session, newest, token, record, lapsed, barred, failures, origin>>

SessionStatuses == {"NONE", "ACTIVE", "REVOKED", "EXPIRED", "COMPROMISED"}

Init ==
    /\ session = [s \in Sessions |-> "NONE"]
    /\ newest = [s \in Sessions |-> 0]
    /\ token = [s \in Sessions |-> [n \in Tokens |-> "NONE"]]
    /\ record = [s \in Sessions |-> [k \in Keys |-> NoRecord]]
    /\ lapsed = {}
    /\ barred = FALSE
    /\ failures = [s \in Sessions |-> 0]
    /\ origin = 0

Stored(r) == record[r.session][r.key]

-----------------------------------------------------------------------------
(* The outcomes of rotate, in the order of its tests *)

Fresh(r) == Stored(r) = NoRecord
SameRequest(r) == Stored(r).token = r.token /\ Stored(r).sameDevice = r.sameDevice

\* begin finds a completed record of the same request: its answer, nothing else.
Replay(r) == ~Fresh(r) /\ SameRequest(r) /\ UNCHANGED server

\* begin finds a record of another request: 409 IDEMPOTENCY_KEY_REUSED.
KeyReused(r) == ~Fresh(r) /\ ~SameRequest(r) /\ UNCHANGED server

Allowed(r) ==
    /\ failures[r.session] < SubjectLimit
    /\ r.sameDevice => origin < OriginLimit

Spent(r) == token[r.session][r.token] # "ACTIVE"
Replayed(r) == Spent(r) \/ ~r.sameDevice
Usable(s) == session[s] = "ACTIVE" /\ s \notin lapsed /\ ~barred

Remember(r, outcome, issued) ==
    record' = [record EXCEPT ![r.session][r.key] =
                  [token |-> r.token, sameDevice |-> r.sameDevice,
                   outcome |-> outcome, issued |-> issued]]

\* The counts of the window, capped where only "at the limit" matters.
CountFailure(r) ==
    /\ failures' = [failures EXCEPT ![r.session] = IF @ < SubjectLimit THEN @ + 1 ELSE @]
    /\ origin' = IF r.sameDevice /\ origin < OriginLimit THEN origin + 1 ELSE origin

\* Too many failures: the refusal is stored like any other answer.
Block(r) ==
    /\ Fresh(r) /\ ~Allowed(r)
    /\ Remember(r, "blocked", 0)
    /\ CountFailure(r)
    /\ UNCHANGED <<session, newest, token, lapsed, barred>>

\* commitRefreshFailure on a session found: session and family take the status,
\* whatever they were before.
EndFamily(s, ending) ==
    /\ session' = [session EXCEPT ![s] = ending]
    /\ token' = [token EXCEPT ![s] =
                    [n \in Tokens |-> IF @[n] = "NONE" THEN "NONE" ELSE ending]]

Compromise(r) ==
    /\ Fresh(r) /\ Allowed(r) /\ Replayed(r)
    /\ EndFamily(r.session, "COMPROMISED")
    /\ Remember(r, "refused", 0)
    /\ CountFailure(r)
    /\ UNCHANGED <<newest, lapsed, barred>>

Expire(r) ==
    /\ Fresh(r) /\ Allowed(r) /\ ~Replayed(r)
    /\ ~Usable(r.session)
    /\ EndFamily(r.session, "EXPIRED")
    /\ Remember(r, "refused", 0)
    /\ CountFailure(r)
    /\ UNCHANGED <<newest, lapsed, barred>>

\* Mutant: the presented token is not consumed.
SuccessorOnly(s, n) == [token EXCEPT ![s][newest[s] + 1] = "ACTIVE"]

\* The token presented is consumed, its successor inserted.
Succeed(s, n) == [token EXCEPT ![s][n] = "REVOKED", ![s][newest[s] + 1] = "ACTIVE"]

\* Mutant: the answer is stored without the token it carries.
RotateForgetful(r) ==
    LET s == r.session IN
    /\ Fresh(r) /\ Allowed(r) /\ ~Replayed(r)
    /\ Usable(s)
    /\ newest[s] < MaxTokens
    /\ token' = Succeed(s, r.token)
    /\ newest' = [newest EXCEPT ![s] = @ + 1]
    /\ Remember(r, "rotated", r.token)
    /\ UNCHANGED <<session, lapsed, barred, failures, origin>>

Rotate(r) ==
    LET s == r.session IN
    /\ Fresh(r) /\ Allowed(r) /\ ~Replayed(r)
    /\ Usable(s)
    /\ newest[s] < MaxTokens
    /\ token' = Succeed(s, r.token)
    /\ newest' = [newest EXCEPT ![s] = @ + 1]
    /\ Remember(r, "rotated", newest[s] + 1)
    /\ UNCHANGED <<session, lapsed, barred, failures, origin>>

Refresh(r) ==
    /\ r.token <= newest[r.session]
    /\ Rotate(r) \/ Compromise(r) \/ Expire(r) \/ Block(r) \/ Replay(r) \/ KeyReused(r)

\* What the client is told, found in the records once the request is served:
\* 200 with a token, 401 or 429 as stored, or 409 for a key of another request.
Reply(outcome, issued) == [outcome |-> outcome, issued |-> issued]
ReplyIn(records, r) ==
    LET stored == records[r.session][r.key] IN
    IF stored.token = r.token /\ stored.sameDevice = r.sameDevice
    THEN Reply(stored.outcome, stored.issued)
    ELSE Reply("reused", 0)

-----------------------------------------------------------------------------
(* The other operations on a session *)

\* Mutant: a sign-in takes over the ended session of the device.
SignInReopens(s) ==
    /\ session[s] # "ACTIVE" /\ ~barred
    /\ session' = [session EXCEPT ![s] = "ACTIVE"]
    /\ newest' = [newest EXCEPT ![s] = 1]
    /\ token' = [token EXCEPT ![s][1] = "ACTIVE"]
    /\ UNCHANGED <<record, lapsed, barred, failures, origin>>

\* createWithinTransaction: a device and a user that are ACTIVE.
SignIn(s) ==
    /\ session[s] = "NONE" /\ ~barred
    /\ session' = [session EXCEPT ![s] = "ACTIVE"]
    /\ newest' = [newest EXCEPT ![s] = 1]
    /\ token' = [token EXCEPT ![s][1] = "ACTIVE"]
    /\ UNCHANGED <<record, lapsed, barred, failures, origin>>

\* Mutant: the tokens of a revoked session are left alone.
RevokeSessionOnly(s) ==
    /\ session[s] # "NONE"
    /\ session' = [session EXCEPT ![s] = IF @ = "ACTIVE" THEN "REVOKED" ELSE @]
    /\ UNCHANGED <<newest, token, record, lapsed, barred, failures, origin>>

\* revokeSession, from this device (logout) or from another of the user's.
Revoke(s) ==
    /\ session[s] # "NONE"
    /\ session' = [session EXCEPT ![s] = IF @ = "ACTIVE" THEN "REVOKED" ELSE @]
    /\ token' = [token EXCEPT ![s] =
                    [n \in Tokens |-> IF @[n] = "ACTIVE" THEN "REVOKED" ELSE @[n]]]
    /\ UNCHANGED <<newest, record, lapsed, barred, failures, origin>>

\* The idle limit (moved on by each rotation) or the absolute one passes.
Lapse(s) ==
    /\ session[s] # "NONE" /\ s \notin lapsed
    /\ lapsed' = lapsed \cup {s}
    /\ UNCHANGED <<session, newest, token, record, barred, failures, origin>>

\* The device or the user is suspended, or readmitted.
Bar ==
    /\ barred' = ~barred
    /\ UNCHANGED <<session, newest, token, record, lapsed, failures, origin>>

\* The attempts leave the window of 15 minutes.
WindowPasses ==
    /\ origin # 0 \/ \E s \in Sessions : failures[s] # 0
    /\ failures' = [s \in Sessions |-> 0]
    /\ origin' = 0
    /\ UNCHANGED <<session, newest, token, record, lapsed, barred>>

Others ==
    \/ \E s \in Sessions : SignIn(s) \/ Revoke(s) \/ Lapse(s)
    \/ Bar
    \/ WindowPasses

Next == Others \/ \E r \in Requests : Refresh(r)

Spec == Init /\ [][Next]_server

-----------------------------------------------------------------------------
(* Properties *)

\* Types of the server's variables (session.service.ts, schema.prisma).
TypeOK ==
    /\ session \in [Sessions -> SessionStatuses]
    /\ newest \in [Sessions -> 0..MaxTokens]
    /\ token \in [Sessions -> [Tokens -> SessionStatuses]]
    /\ record \in [Sessions -> [Keys -> Records \cup {NoRecord}]]
    /\ lapsed \subseteq Sessions
    /\ barred \in BOOLEAN
    /\ failures \in [Sessions -> 0..SubjectLimit]
    /\ origin \in 0..OriginLimit

\* A live session has exactly one live token, the last one issued; a session
\* that has ended has none (updateMany, create and the ends in session.service.ts).
OneCurrentToken ==
    \A s \in Sessions :
        {n \in Tokens : token[s][n] = "ACTIVE"} =
            IF session[s] = "ACTIVE" THEN {newest[s]} ELSE {}

\* A client that lost an answer can have it again: the last rotation of a live
\* session is stored, under one key, with the token that is now current.
AnswerRecoverable ==
    \A s \in Sessions :
        session[s] = "ACTIVE" /\ newest[s] > 1 =>
            \E k \in Keys :
                /\ record[s][k].outcome = "rotated"
                /\ record[s][k].token = newest[s] - 1
                /\ record[s][k].issued = newest[s]

\* A token is exchanged once: no two keys hold an exchange of the same token.
ExchangedOnce ==
    \A s \in Sessions : \A j, k \in Keys :
        /\ record[s][j].outcome = "rotated"
        /\ record[s][k].outcome = "rotated"
        /\ record[s][j].token = record[s][k].token
        => j = k

\* A session that ended never lives again, and a token once spent is never
\* accepted again, whatever is replayed, revoked or expired afterwards.
EndsForGood ==
    [][\A s \in Sessions :
        /\ session[s] \notin {"NONE", "ACTIVE"} => session'[s] # "ACTIVE"
        /\ \A n \in Tokens : token[s][n] \notin {"NONE", "ACTIVE"} => token'[s][n] # "ACTIVE"
      ]_server

\* The reason stored with COMPROMISED, "Refresh token reuse or device mismatch
\* detected": the token presented had been exchanged, or the device differs.
CompromiseIsReuse ==
    [][\A s \in Sessions :
        session[s] # "COMPROMISED" /\ session'[s] = "COMPROMISED" =>
            \E k \in Keys :
                /\ record[s][k] = NoRecord /\ record'[s][k] # NoRecord
                /\ record'[s][k].token < newest[s] \/ ~record'[s][k].sameDevice
      ]_server
=============================================================================
