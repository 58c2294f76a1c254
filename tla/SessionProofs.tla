---------------------------- MODULE SessionProofs ---------------------------
(***************************************************************************)
(* Theorems about the server's side of a session: whatever the clients     *)
(* send, a live family has one current token, a token is exchanged once,   *)
(* and the last exchange can be answered again.  GuardShiftProofs and      *)
(* ClientProofs show that the three applications take only steps of the    *)
(* server, so that all of this holds under them.                           *)
(***************************************************************************)
EXTENDS SessionRotation, TLAPS

\* What the three invariants rest on: tokens are numbered as they are issued,
\* and a stored exchange is of a token and its immediate successor.
Numbered ==
    \A s \in Sessions :
        /\ session[s] = "NONE" <=> newest[s] = 0
        /\ \A n \in Tokens : token[s][n] = "NONE" <=> n > newest[s]

Successive ==
    \A s \in Sessions : \A k \in Keys :
        record[s][k].outcome = "rotated" =>
            /\ record[s][k].issued = record[s][k].token + 1
            /\ record[s][k].issued <= newest[s]

OnlyNewest ==
    \A s \in Sessions : \A n \in Tokens :
        token[s][n] = "ACTIVE" <=> session[s] = "ACTIVE" /\ n = newest[s]

IInv == TypeOK /\ Numbered /\ OnlyNewest /\ Successive /\ ExchangedOnce /\ AnswerRecoverable

LEMMA OnlyNewestIsOneCurrent == TypeOK /\ Numbered /\ OnlyNewest => OneCurrentToken
<1> SUFFICES ASSUME TypeOK, Numbered, OnlyNewest, NEW s \in Sessions
             PROVE  {n \in Tokens : token[s][n] = "ACTIVE"} =
                        IF session[s] = "ACTIVE" THEN {newest[s]} ELSE {}
  BY DEF OneCurrentToken
<1>1. CASE session[s] = "ACTIVE"
  <2>1. newest[s] \in Tokens
    BY <1>1, BoundsPositive DEF TypeOK, Numbered, Tokens
  <2> QED
    BY <1>1, <2>1 DEF OnlyNewest
<1>2. CASE session[s] # "ACTIVE"
  BY <1>2 DEF OnlyNewest
<1> QED
  BY <1>1, <1>2

LEMMA InitIInv == Init => IInv
<1> SUFFICES ASSUME Init PROVE IInv
  OBVIOUS
<1>1. TypeOK
  <2>1. record \in [Sessions -> [Keys -> Records \cup {NoRecord}]]
    BY DEF Init
  <2>2. /\ session \in [Sessions -> SessionStatuses]
        /\ token \in [Sessions -> [Tokens -> SessionStatuses]]
    BY DEF Init, SessionStatuses
  <2>3. /\ newest \in [Sessions -> 0..MaxTokens]
        /\ failures \in [Sessions -> 0..SubjectLimit]
        /\ origin \in 0..OriginLimit
    BY BoundsPositive DEF Init
  <2>4. barred \in BOOLEAN /\ lapsed \subseteq Sessions
    BY DEF Init
  <2> QED
    BY <2>1, <2>2, <2>3, <2>4 DEF TypeOK
<1>2. Numbered /\ OnlyNewest
  BY BoundsPositive DEF Init, Numbered, OnlyNewest, Tokens
<1>3. Successive /\ ExchangedOnce
  BY DEF Init, Successive, ExchangedOnce, NoRecord
<1>4. AnswerRecoverable
  BY DEF Init, AnswerRecoverable
<1> QED
  BY <1>1, <1>2, <1>3, <1>4 DEF IInv

-----------------------------------------------------------------------------
(* Storing an outcome under a fresh key *)

\* The record stored is well typed and no other record changes.
LEMMA RememberFresh ==
    ASSUME TypeOK, NEW r \in Requests, Fresh(r),
           NEW outcome \in {"rotated", "refused", "blocked"},
           NEW issued \in 0..MaxTokens, Remember(r, outcome, issued)
    PROVE  /\ record' \in [Sessions -> [Keys -> Records \cup {NoRecord}]]
           /\ record'[r.session][r.key] =
                  [token |-> r.token, sameDevice |-> r.sameDevice,
                   outcome |-> outcome, issued |-> issued]
           /\ \A s \in Sessions : \A k \in Keys :
                  s # r.session \/ k # r.key => record'[s][k] = record[s][k]
           /\ record[r.session][r.key].outcome = "none"
<1>1. r.session \in Sessions /\ r.key \in Keys /\ r.token \in Tokens /\ r.sameDevice \in BOOLEAN
  BY DEF Requests
<1>2. [token |-> r.token, sameDevice |-> r.sameDevice,
       outcome |-> outcome, issued |-> issued] \in Records
  BY <1>1 DEF Records
<1>3. record[r.session][r.key].outcome = "none"
  BY DEF Fresh, Stored, NoRecord
<1> QED
  BY <1>1, <1>2, <1>3 DEF TypeOK, Remember

\* Counting a failure keeps the counters within the limits.
LEMMA CountTyped ==
    ASSUME TypeOK, NEW r \in Requests, CountFailure(r)
    PROVE  failures' \in [Sessions -> 0..SubjectLimit] /\ origin' \in 0..OriginLimit
BY BoundsPositive DEF TypeOK, CountFailure, Requests

\* A refusal is stored: what the stored exchanges say still holds, as long as
\* no session comes alive and none issues a token.
LEMMA RefusalKeepsRecords ==
    ASSUME IInv, NEW r \in Requests, Fresh(r), newest' = newest,
           NEW outcome \in {"refused", "blocked"}, Remember(r, outcome, 0),
           \A s \in Sessions : session'[s] = "ACTIVE" => session[s] = "ACTIVE"
    PROVE  Successive' /\ ExchangedOnce' /\ AnswerRecoverable'
<1>1. 0 \in 0..MaxTokens /\ TypeOK /\ outcome \in {"rotated", "refused", "blocked"}
  BY BoundsPositive DEF IInv
<1>2. /\ record'[r.session][r.key] =
             [token |-> r.token, sameDevice |-> r.sameDevice,
              outcome |-> outcome, issued |-> 0]
      /\ \A s \in Sessions : \A k \in Keys :
             s # r.session \/ k # r.key => record'[s][k] = record[s][k]
      /\ record[r.session][r.key].outcome = "none"
  BY <1>1, RememberFresh
<1>3. \A s \in Sessions : \A k \in Keys :
          record'[s][k].outcome = "rotated" => record'[s][k] = record[s][k]
  BY <1>2
<1>4. \A s \in Sessions : \A k \in Keys :
          record[s][k].outcome = "rotated" => record'[s][k] = record[s][k]
  BY <1>2
<1>5. Successive'
  BY <1>3 DEF IInv, Successive
<1>6. ExchangedOnce'
  BY <1>3 DEF IInv, ExchangedOnce
<1>7. AnswerRecoverable'
  BY <1>4 DEF IInv, AnswerRecoverable
<1> QED
  BY <1>5, <1>6, <1>7

\* The end of a family: no token of it is current any more.
LEMMA EndKeepsFamily ==
    ASSUME IInv, NEW s \in Sessions, NEW ending \in {"EXPIRED", "COMPROMISED"},
           newest[s] # 0, EndFamily(s, ending), newest' = newest
    PROVE  /\ session' \in [Sessions -> SessionStatuses]
           /\ token' \in [Sessions -> [Tokens -> SessionStatuses]]
           /\ Numbered' /\ OnlyNewest'
           /\ \A t \in Sessions : session'[t] = "ACTIVE" => session[t] = "ACTIVE"
<1>1. session' \in [Sessions -> SessionStatuses]
  BY DEF IInv, TypeOK, EndFamily, SessionStatuses
<1>2. token' \in [Sessions -> [Tokens -> SessionStatuses]]
  BY DEF IInv, TypeOK, EndFamily, SessionStatuses
<1>3. session'[s] = ending /\ \A n \in Tokens :
          token'[s][n] = IF token[s][n] = "NONE" THEN "NONE" ELSE ending
  BY DEF IInv, TypeOK, EndFamily
<1>4. \A t \in Sessions \ {s} : session'[t] = session[t] /\ token'[t] = token[t]
  BY DEF IInv, TypeOK, EndFamily
<1>5. Numbered'
  BY <1>3, <1>4 DEF IInv, Numbered
<1>6. OnlyNewest'
  BY <1>3, <1>4 DEF IInv, OnlyNewest
<1> QED
  BY <1>1, <1>2, <1>3, <1>4, <1>5, <1>6

-----------------------------------------------------------------------------
(* The outcomes of a refresh *)

LEMMA BlockStep ==
    ASSUME IInv, NEW r \in Requests, Block(r) PROVE IInv'
<1>1. Successive' /\ ExchangedOnce' /\ AnswerRecoverable'
  BY RefusalKeepsRecords DEF Block
<1>2. 0 \in 0..MaxTokens
  BY BoundsPositive
<1>3. record' \in [Sessions -> [Keys -> Records \cup {NoRecord}]]
  BY <1>2, RememberFresh DEF Block, IInv
<1>4. TypeOK'
  BY <1>3, CountTyped DEF Block, IInv, TypeOK
<1>5. Numbered' /\ OnlyNewest'
  BY DEF Block, IInv, Numbered, OnlyNewest
<1> QED
  BY <1>1, <1>4, <1>5 DEF IInv

\* Compromise and Expire: a refusal that ends the family.
LEMMA EndStep ==
    ASSUME IInv, NEW r \in Requests, r.token <= newest[r.session],
           Compromise(r) \/ Expire(r)
    PROVE  IInv'
<1>1. PICK ending \in {"EXPIRED", "COMPROMISED"} : EndFamily(r.session, ending)
  BY DEF Compromise, Expire
<1>2. r.session \in Sessions /\ r.token \in Tokens
  BY DEF Requests
<1>3. /\ Fresh(r) /\ Remember(r, "refused", 0) /\ CountFailure(r)
      /\ newest' = newest /\ lapsed' = lapsed /\ barred' = barred
  BY DEF Compromise, Expire
<1>4. newest[r.session] # 0
  BY <1>2, BoundsPositive DEF IInv, TypeOK, Tokens
<1>5. /\ session' \in [Sessions -> SessionStatuses]
      /\ token' \in [Sessions -> [Tokens -> SessionStatuses]]
      /\ Numbered' /\ OnlyNewest'
      /\ \A t \in Sessions : session'[t] = "ACTIVE" => session[t] = "ACTIVE"
  BY <1>1, <1>2, <1>3, <1>4, EndKeepsFamily
<1>6. Successive' /\ ExchangedOnce' /\ AnswerRecoverable'
  BY <1>3, <1>5, RefusalKeepsRecords
<1>7. 0 \in 0..MaxTokens
  BY BoundsPositive
<1>8. record' \in [Sessions -> [Keys -> Records \cup {NoRecord}]]
  BY <1>3, <1>7, RememberFresh DEF IInv
<1>9. TypeOK'
  BY <1>3, <1>5, <1>8, CountTyped DEF IInv, TypeOK
<1> QED
  BY <1>5, <1>6, <1>9 DEF IInv

LEMMA RotateStep ==
    ASSUME IInv, NEW r \in Requests, Rotate(r) PROVE IInv'
<1> DEFINE s == r.session
           new == newest[s] + 1
<1>1. s \in Sessions /\ r.key \in Keys /\ r.token \in Tokens
  BY DEF Requests
<1>2. /\ Fresh(r) /\ Remember(r, "rotated", new)
      /\ token' = [token EXCEPT ![s][r.token] = "REVOKED", ![s][new] = "ACTIVE"]
      /\ newest' = [newest EXCEPT ![s] = @ + 1]
      /\ newest[s] < MaxTokens
      /\ lapsed' = lapsed /\ barred' = barred
      /\ failures' = failures /\ origin' = origin
      /\ token[s][r.token] = "ACTIVE"
  BY DEF Rotate, Replayed, Spent, Usable, Succeed
<1>0. session' = session /\ session[s] = "ACTIVE"
  BY DEF Rotate, Usable
<1>3. r.token = newest[s]
  BY <1>0, <1>1, <1>2 DEF IInv, OnlyNewest
<1>4. new \in Tokens /\ new \in 0..MaxTokens /\ newest[s] \in Nat /\ new # r.token
  BY <1>1, <1>2, <1>3, BoundsPositive DEF IInv, TypeOK, Tokens
<1>5. /\ newest'[s] = new
      /\ token'[s][new] = "ACTIVE" /\ token'[s][r.token] = "REVOKED"
      /\ \A n \in Tokens \ {new, r.token} : token'[s][n] = token[s][n]
      /\ \A t \in Sessions \ {s} : token'[t] = token[t] /\ newest'[t] = newest[t]
  BY <1>1, <1>2, <1>4 DEF IInv, TypeOK
<1>6. /\ record' \in [Sessions -> [Keys -> Records \cup {NoRecord}]]
      /\ record'[s][r.key] = [token |-> r.token, sameDevice |-> r.sameDevice,
                              outcome |-> "rotated", issued |-> new]
      /\ \A t \in Sessions : \A k \in Keys :
             t # s \/ k # r.key => record'[t][k] = record[t][k]
      /\ record[s][r.key].outcome = "none"
  <2>1. TypeOK /\ Fresh(r) /\ Remember(r, "rotated", new) /\ new \in 0..MaxTokens
    BY <1>2, <1>4 DEF IInv
  <2> QED
    BY <2>1, RememberFresh
<1>7. TypeOK'
  <2>1. token' \in [Sessions -> [Tokens -> SessionStatuses]]
    BY <1>1, <1>2, <1>4 DEF IInv, TypeOK, SessionStatuses
  <2>2. newest' \in [Sessions -> 0..MaxTokens]
    BY <1>1, <1>2, <1>4 DEF IInv, TypeOK
  <2> QED
    BY <1>0, <1>2, <1>6, <2>1, <2>2 DEF IInv, TypeOK
<1>8. Numbered'
  <2> SUFFICES ASSUME NEW t \in Sessions
               PROVE  /\ session'[t] = "NONE" <=> newest'[t] = 0
                      /\ \A n \in Tokens : token'[t][n] = "NONE" <=> n > newest'[t]
    BY DEF Numbered
  <2>1. CASE t # s
    BY <1>0, <1>5, <2>1 DEF IInv, Numbered
  <2>2. CASE t = s
    <3>1. session'[t] # "NONE" /\ newest'[t] # 0
      BY <1>0, <1>4, <1>5, <2>2
    <3>2. ASSUME NEW n \in Tokens PROVE token'[t][n] = "NONE" <=> n > new
      <4>1. n \in Nat /\ (token[s][n] = "NONE" <=> n > newest[s])
        BY <1>1 DEF IInv, Numbered, Tokens
      <4> QED
        BY <1>3, <1>4, <1>5, <2>2, <4>1
    <3> QED
      BY <1>5, <2>2, <3>1, <3>2
  <2> QED
    BY <2>1, <2>2
<1>9. OnlyNewest'
  <2> SUFFICES ASSUME NEW t \in Sessions, NEW n \in Tokens
               PROVE  token'[t][n] = "ACTIVE" <=> session'[t] = "ACTIVE" /\ n = newest'[t]
    BY DEF OnlyNewest
  <2>1. token[t][n] = "ACTIVE" <=> session[t] = "ACTIVE" /\ n = newest[t]
    BY DEF IInv, OnlyNewest
  <2>2. CASE t # s
    BY <1>0, <1>5, <2>1, <2>2
  <2>3. CASE t = s /\ n # new /\ n # r.token
    BY <1>0, <1>3, <1>4, <1>5, <2>1, <2>3
  <2>4. CASE t = s /\ (n = new \/ n = r.token)
    BY <1>0, <1>4, <1>5, <2>4
  <2> QED
    BY <2>2, <2>3, <2>4
<1>10. Successive'
  <2> SUFFICES ASSUME NEW t \in Sessions, NEW k \in Keys, record'[t][k].outcome = "rotated"
               PROVE  /\ record'[t][k].issued = record'[t][k].token + 1
                      /\ record'[t][k].issued <= newest'[t]
    BY DEF Successive
  <2>1. CASE t = s /\ k = r.key
    BY <1>3, <1>4, <1>5, <1>6, <2>1
  <2>2. CASE t # s \/ k # r.key
    <3>1. /\ record'[t][k] = record[t][k]
          /\ record[t][k].issued = record[t][k].token + 1
          /\ record[t][k].issued <= newest[t]
      BY <1>6, <2>2 DEF IInv, Successive
    <3>2. record[t][k] \in Records
      BY <3>1 DEF IInv, TypeOK, NoRecord
    <3>3. record[t][k].issued \in Nat /\ newest[t] \in Nat /\ newest'[t] \in Nat
      BY <1>7, <3>2, BoundsPositive DEF IInv, TypeOK, Records
    <3>4. newest[t] <= newest'[t]
      BY <1>4, <1>5, <3>3
    <3> QED
      BY <3>1, <3>3, <3>4
  <2> QED
    BY <2>1, <2>2
<1>11. \A k \in Keys : record[s][k].outcome = "rotated" => record[s][k].token # r.token
  <2> SUFFICES ASSUME NEW k \in Keys, record[s][k].outcome = "rotated",
                      record[s][k].token = r.token
               PROVE  FALSE
    OBVIOUS
  <2>1. record[s][k].issued = r.token + 1 /\ record[s][k].issued <= newest[s]
    BY <1>1 DEF IInv, Successive
  <2> QED
    BY <1>3, <1>4, <2>1
<1>12. ExchangedOnce'
  <2> SUFFICES ASSUME NEW t \in Sessions, NEW j \in Keys, NEW k \in Keys,
                      record'[t][j].outcome = "rotated", record'[t][k].outcome = "rotated",
                      record'[t][j].token = record'[t][k].token, j # k
               PROVE  FALSE
    BY DEF ExchangedOnce
  <2>1. CASE t = s /\ j = r.key
    BY <1>6, <1>11, <2>1
  <2>2. CASE t = s /\ k = r.key
    BY <1>6, <1>11, <2>2
  <2>3. CASE ~(t = s /\ j = r.key) /\ ~(t = s /\ k = r.key)
    BY <1>6, <2>3 DEF IInv, ExchangedOnce
  <2> QED
    BY <2>1, <2>2, <2>3
<1>13. AnswerRecoverable'
  <2> SUFFICES ASSUME NEW t \in Sessions, session'[t] = "ACTIVE", newest'[t] > 1
               PROVE  \E k \in Keys : /\ record'[t][k].outcome = "rotated"
                                      /\ record'[t][k].token = newest'[t] - 1
                                      /\ record'[t][k].issued = newest'[t]
    BY DEF AnswerRecoverable
  <2>1. CASE t = s
    <3>1. r.token = newest'[t] - 1
      BY <1>3, <1>4, <1>5, <2>1
    <3> QED
      BY <1>1, <1>5, <1>6, <2>1, <3>1
  <2>2. CASE t # s
    <3>1. PICK k \in Keys : /\ record[t][k].outcome = "rotated"
                            /\ record[t][k].token = newest[t] - 1
                            /\ record[t][k].issued = newest[t]
      BY <1>0, <1>5, <2>2 DEF IInv, AnswerRecoverable
    <3> QED
      BY <1>5, <1>6, <2>2, <3>1
  <2> QED
    BY <2>1, <2>2
<1> QED
  BY <1>7, <1>8, <1>9, <1>10, <1>12, <1>13 DEF IInv

-----------------------------------------------------------------------------
(* The other operations *)

LEMMA SignInStep ==
    ASSUME IInv, NEW s \in Sessions, SignIn(s) PROVE IInv'
<1>1. 1 \in Tokens /\ 1 \in 0..MaxTokens
  BY BoundsPositive DEF Tokens
<1>2. TypeOK'
  <2>1. newest' \in [Sessions -> 0..MaxTokens]
    BY <1>1 DEF IInv, TypeOK, SignIn
  <2>2. token' \in [Sessions -> [Tokens -> SessionStatuses]]
    BY <1>1 DEF IInv, TypeOK, SignIn, SessionStatuses
  <2>3. session' \in [Sessions -> SessionStatuses]
    BY DEF IInv, TypeOK, SignIn, SessionStatuses
  <2> QED
    BY <2>1, <2>2, <2>3 DEF IInv, TypeOK, SignIn
<1>3. newest[s] = 0 /\ \A n \in Tokens : token[s][n] = "NONE"
  <2>1. newest[s] = 0
    BY DEF IInv, Numbered, SignIn
  <2> QED
    BY <2>1 DEF IInv, Numbered, Tokens
<1>4. /\ session'[s] = "ACTIVE" /\ newest'[s] = 1 /\ token'[s][1] = "ACTIVE"
      /\ \A n \in Tokens \ {1} : token'[s][n] = "NONE"
      /\ \A t \in Sessions \ {s} :
             /\ session'[t] = session[t] /\ newest'[t] = newest[t] /\ token'[t] = token[t]
      /\ record' = record
  BY <1>1, <1>3 DEF IInv, TypeOK, SignIn
<1>5. Numbered'
  <2> SUFFICES ASSUME NEW t \in Sessions
               PROVE  /\ session'[t] = "NONE" <=> newest'[t] = 0
                      /\ \A n \in Tokens : token'[t][n] = "NONE" <=> n > newest'[t]
    BY DEF Numbered
  <2>1. CASE t = s
    BY <1>4, <2>1 DEF Tokens
  <2>2. CASE t # s
    BY <1>4, <2>2 DEF IInv, Numbered
  <2> QED
    BY <2>1, <2>2
<1>6. OnlyNewest'
  BY <1>4 DEF IInv, OnlyNewest
<1>7. Successive' /\ ExchangedOnce' /\ AnswerRecoverable'
  <2>1. Successive'
    <3> SUFFICES ASSUME NEW t \in Sessions, NEW k \in Keys, record[t][k].outcome = "rotated"
                 PROVE  /\ record[t][k].issued = record[t][k].token + 1
                        /\ record[t][k].issued <= newest'[t]
      BY <1>4 DEF Successive
    <3>1. /\ record[t][k].issued = record[t][k].token + 1
          /\ record[t][k].issued <= newest[t]
      BY DEF IInv, Successive
    <3>2. record[t][k] \in Records
      BY DEF IInv, TypeOK, NoRecord
    <3>3. t # s
      BY <1>3, <3>1, <3>2 DEF Records, Tokens
    <3> QED
      BY <1>4, <3>1, <3>3
  <2>2. ExchangedOnce'
    BY <1>4 DEF IInv, ExchangedOnce
  <2>3. AnswerRecoverable'
    BY <1>4 DEF IInv, AnswerRecoverable
  <2> QED
    BY <2>1, <2>2, <2>3
<1> QED
  BY <1>2, <1>5, <1>6, <1>7 DEF IInv

LEMMA RevokeStep ==
    ASSUME IInv, NEW s \in Sessions, Revoke(s) PROVE IInv'
<1>1. session' \in [Sessions -> SessionStatuses] /\ token' \in [Sessions -> [Tokens -> SessionStatuses]]
  BY DEF IInv, TypeOK, Revoke, SessionStatuses
<1>2. /\ \A n \in Tokens : token'[s][n] = IF token[s][n] = "ACTIVE" THEN "REVOKED" ELSE token[s][n]
      /\ session'[s] = IF session[s] = "ACTIVE" THEN "REVOKED" ELSE session[s]
      /\ \A t \in Sessions \ {s} : session'[t] = session[t] /\ token'[t] = token[t]
      /\ record' = record /\ newest' = newest
  BY DEF IInv, TypeOK, Revoke
<1>3. TypeOK'
  BY <1>1 DEF IInv, TypeOK, Revoke
<1>4. Numbered'
  BY <1>2 DEF IInv, Numbered
<1>5. OnlyNewest'
  BY <1>2 DEF IInv, OnlyNewest
<1>6. Successive' /\ ExchangedOnce' /\ AnswerRecoverable'
  BY <1>2 DEF IInv, Successive, ExchangedOnce, AnswerRecoverable
<1> QED
  BY <1>3, <1>4, <1>5, <1>6 DEF IInv

\* Steps that leave sessions, tokens and records alone.
LEMMA QuietStep ==
    ASSUME IInv, UNCHANGED <<session, newest, token, record>>,
           lapsed' \subseteq Sessions, barred' \in BOOLEAN,
           failures' \in [Sessions -> 0..SubjectLimit], origin' \in 0..OriginLimit
    PROVE  IInv'
<1>1. TypeOK'
  BY DEF IInv, TypeOK
<1>2. Numbered' /\ OnlyNewest' /\ Successive' /\ ExchangedOnce' /\ AnswerRecoverable'
  BY DEF IInv, Numbered, OnlyNewest, Successive, ExchangedOnce, AnswerRecoverable
<1> QED
  BY <1>1, <1>2 DEF IInv

LEMMA NextIInv == IInv /\ [Next]_server => IInv'
<1> SUFFICES ASSUME IInv, [Next]_server PROVE IInv'
  OBVIOUS
<1>1. ASSUME NEW s \in Sessions, SignIn(s) PROVE IInv'
  BY <1>1, SignInStep
<1>2. ASSUME NEW s \in Sessions, Revoke(s) PROVE IInv'
  BY <1>2, RevokeStep
<1>3. ASSUME NEW s \in Sessions, Lapse(s) PROVE IInv'
  BY <1>3, QuietStep DEF Lapse, IInv, TypeOK
<1>4. CASE Bar
  BY <1>4, QuietStep DEF Bar, IInv, TypeOK
<1>5. CASE WindowPasses
  BY <1>5, QuietStep, BoundsPositive DEF WindowPasses, IInv, TypeOK
<1>6. ASSUME NEW r \in Requests, Refresh(r) PROVE IInv'
  <2>2. CASE Rotate(r)
    BY <2>2, RotateStep
  <2>3. CASE Compromise(r) \/ Expire(r)
    BY <1>6, <2>3, EndStep DEF Refresh
  <2>4. CASE Block(r)
    BY <2>4, BlockStep
  <2>5. CASE Replay(r) \/ KeyReused(r)
    BY <2>5, QuietStep DEF Replay, KeyReused, server, IInv, TypeOK
  <2> QED
    BY <1>6, <2>2, <2>3, <2>4, <2>5 DEF Refresh
<1>7. CASE UNCHANGED server
  BY <1>7, QuietStep DEF server, IInv, TypeOK
<1> QED
  BY <1>1, <1>2, <1>3, <1>4, <1>5, <1>6, <1>7 DEF Next, Others

LEMMA SpecIInv == Spec => []IInv
BY InitIInv, NextIInv, PTL DEF Spec

-----------------------------------------------------------------------------
(* What the clients see of a step *)

\* The outcomes of a refresh, as far as the records are concerned: a
\* record it finds stays; if there was none, one is made of the request.
LEMMA RefreshRecords ==
    ASSUME TypeOK, NEW r \in Requests, Refresh(r)
    PROVE  /\ ~Fresh(r) => record' = record
           /\ Fresh(r) => record'[r.session][r.key].token = r.token
                       /\ record'[r.session][r.key].sameDevice = r.sameDevice
                       /\ record'[r.session][r.key].outcome \in {"rotated", "refused", "blocked"}
           /\ \A s \in Sessions : \A k \in Keys :
                  s # r.session \/ k # r.key => record'[s][k] = record[s][k]
<1>1. CASE Replay(r) \/ KeyReused(r)
  BY <1>1 DEF Replay, KeyReused, server
<1>2. CASE Block(r) \/ Compromise(r) \/ Expire(r) \/ Rotate(r)
  <2>1. Fresh(r)
    BY <1>2 DEF Block, Compromise, Expire, Rotate
  <2>2. PICK outcome \in {"rotated", "refused", "blocked"}, issued \in 0..(MaxTokens + 1) :
            Remember(r, outcome, issued)
    <3>1. newest[r.session] \in 0..MaxTokens /\ 0 \in 0..(MaxTokens + 1)
      BY BoundsPositive DEF TypeOK, Requests
    <3>2. newest[r.session] + 1 \in 0..(MaxTokens + 1)
      BY <3>1, BoundsPositive
    <3> QED
      BY <1>2, <3>1, <3>2 DEF Block, Compromise, Expire, Rotate
  <2>3. r.session \in Sessions /\ r.key \in Keys
    BY DEF Requests
  <2> QED
    BY <2>1, <2>2, <2>3 DEF Remember, TypeOK
<1> QED
  BY <1>1, <1>2 DEF Refresh

\* No step closes a session so far that it was never opened.
LEMMA StaysOpened ==
    ASSUME IInv, IInv', [Next]_server, NEW s \in Sessions, session[s] # "NONE"
    PROVE  session'[s] # "NONE"
<1>1. \A r \in Requests : Refresh(r) => session'[s] # "NONE"
  <2> SUFFICES ASSUME NEW r \in Requests, Refresh(r) PROVE session'[s] # "NONE"
    OBVIOUS
  <2>1. CASE Compromise(r) \/ Expire(r)
    BY <2>1 DEF Compromise, Expire, EndFamily, IInv, TypeOK
  <2>2. CASE Rotate(r) \/ Block(r) \/ Replay(r) \/ KeyReused(r)
    BY <2>2 DEF Rotate, Block, Replay, KeyReused, server
  <2> QED
    BY <2>1, <2>2 DEF Refresh
<1>2. \A t \in Sessions : SignIn(t) \/ Revoke(t) \/ Lapse(t) => session'[s] # "NONE"
  BY DEF SignIn, Revoke, Lapse, IInv, TypeOK
<1>3. Bar \/ WindowPasses \/ UNCHANGED server => session'[s] # "NONE"
  BY DEF Bar, WindowPasses, server
<1> QED
  BY <1>1, <1>2, <1>3 DEF Next, Others

\* An exchange answers with a token.
LEMMA RotatedIsToken ==
    ASSUME IInv', NEW r \in Requests, ReplyIn(record', r).outcome = "rotated"
    PROVE  ReplyIn(record', r).issued \in Tokens
<1>1. r.session \in Sessions /\ r.key \in Keys
  BY DEF Requests
<1>2. /\ record'[r.session][r.key].outcome = "rotated"
      /\ ReplyIn(record', r).issued = record'[r.session][r.key].issued
  BY DEF ReplyIn, Reply
<1>3. record'[r.session][r.key] \in Records
  BY <1>1, <1>2 DEF IInv, TypeOK, NoRecord
<1>4. record'[r.session][r.key].issued = record'[r.session][r.key].token + 1
  BY <1>1, <1>2 DEF IInv, Successive
<1> QED
  BY <1>2, <1>3, <1>4, BoundsPositive DEF Records, Tokens

\* What a refresh leaves of a session that is still live: it was answered from a record, refused
\* under the limit on failures, or its last token was exchanged.
LEMMA RefreshOfLive ==
    ASSUME IInv, NEW r \in Requests, Refresh(r)
    PROVE  /\ lapsed' = lapsed /\ barred' = barred
           /\ \A s \in Sessions : session'[s] = "ACTIVE" => session[s] = "ACTIVE"
           /\ \A s \in Sessions \ {r.session} : newest'[s] = newest[s]
           /\ session'[r.session] = "ACTIVE" =>
                \/ ~Fresh(r) /\ newest' = newest
                \/ /\ Fresh(r) /\ newest' = newest
                   /\ record'[r.session][r.key].outcome = "blocked"
                \/ /\ Fresh(r) /\ Usable(r.session) /\ r.token = newest[r.session]
                   /\ newest'[r.session] = newest[r.session] + 1
                   /\ record'[r.session][r.key].outcome = "rotated"
                   /\ record'[r.session][r.key].issued = newest'[r.session]
<1>0. /\ r.session \in Sessions /\ r.key \in Keys /\ r.token \in Tokens
      /\ newest[r.session] \in 0..MaxTokens /\ TypeOK
  BY DEF Requests, IInv, TypeOK
<1>1. CASE Replay(r) \/ KeyReused(r)
  BY <1>1 DEF Replay, KeyReused, server
<1>2. CASE Block(r)
  BY <1>0, <1>2 DEF Block, Remember, TypeOK
<1>3. CASE Compromise(r) \/ Expire(r)
  BY <1>0, <1>3 DEF Compromise, Expire, EndFamily, TypeOK
<1>4. CASE Rotate(r)
  <2>1. r.token = newest[r.session]
    BY <1>0, <1>4 DEF Rotate, Replayed, Spent, IInv, OnlyNewest
  <2> QED
    BY <1>0, <1>4, <2>1 DEF Rotate, Remember, TypeOK
<1> QED
  BY <1>1, <1>2, <1>3, <1>4 DEF Refresh

\* Families only grow.
LEMMA NewestGrows ==
    ASSUME IInv, [Next]_server, NEW s \in Sessions
    PROVE  newest[s] \in Nat /\ newest'[s] \in Nat /\ newest[s] <= newest'[s]
<1>0. newest[s] \in Nat /\ TypeOK /\ (session[s] = "NONE" <=> newest[s] = 0)
  BY BoundsPositive DEF IInv, TypeOK, Numbered
<1>1. ASSUME NEW r \in Requests, Refresh(r) PROVE newest'[s] \in {newest[s], newest[s] + 1}
  <2>1. CASE Rotate(r)
    BY <1>0, <2>1 DEF Rotate, TypeOK, Requests
  <2> QED
    BY <1>1, <2>1 DEF Refresh, Compromise, Expire, Block, Replay, KeyReused, server
<1>2. ASSUME NEW t \in Sessions, SignIn(t) PROVE newest'[s] \in {newest[s], 1} /\ newest[s] <= newest'[s]
  BY <1>0, <1>2 DEF SignIn, TypeOK
<1>3. ASSUME NEW t \in Sessions, Revoke(t) \/ Lapse(t) PROVE newest' = newest
  BY <1>3 DEF Revoke, Lapse
<1>4. Bar \/ WindowPasses \/ UNCHANGED server => newest' = newest
  BY DEF Bar, WindowPasses, server
<1> QED
  BY <1>0, <1>1, <1>2, <1>3, <1>4 DEF Next, Others

-----------------------------------------------------------------------------
(* Results *)

\* The server's variables keep their types under any client.
THEOREM SpecTypeOK == Spec => []TypeOK
<1>1. IInv => TypeOK
  BY DEF IInv
<1> QED
  BY <1>1, SpecIInv, PTL

\* A live session has exactly one live token, the last one issued, and a session
\* that has ended none: consumption, issue and every end agree (session.service.ts).
THEOREM SpecOneCurrentToken == Spec => []OneCurrentToken
<1>1. IInv => OneCurrentToken
  BY OnlyNewestIsOneCurrent DEF IInv
<1> QED
  BY <1>1, SpecIInv, PTL

\* The last exchange of a live session is stored with the token now current, so
\* the same request sent again is answered by it (rotate and journal.begin).
THEOREM SpecAnswerRecoverable == Spec => []AnswerRecoverable
<1>1. IInv => AnswerRecoverable
  BY DEF IInv
<1> QED
  BY <1>1, SpecIInv, PTL

\* No token is exchanged under two keys.
THEOREM SpecExchangedOnce == Spec => []ExchangedOnce
<1>1. IInv => ExchangedOnce
  BY DEF IInv
<1> QED
  BY <1>1, SpecIInv, PTL
\* A session that ended stays ended, and a spent token stays spent, in every step
\* of every client (the status guards of rotate, revokeSession and of the ends).
THEOREM SpecEndsForGood == Spec => EndsForGood
<1> DEFINE Over(s) ==
             /\ session[s] \notin {"NONE", "ACTIVE"} => session'[s] # "ACTIVE"
             /\ \A n \in Tokens :
                    token[s][n] \notin {"NONE", "ACTIVE"} => token'[s][n] # "ACTIVE"
<1>1. IInv /\ [Next]_server => [\A s \in Sessions : Over(s)]_server
  <2> SUFFICES ASSUME IInv, Next, NEW t \in Sessions PROVE Over(t)
    OBVIOUS
  <2>1. CASE session' = session /\ token' = token
    BY <2>1
  <2>2. ASSUME NEW s \in Sessions, SignIn(s) PROVE Over(t)
    <3>1. 1 \in Tokens
      BY BoundsPositive DEF Tokens
    <3>2. newest[s] = 0 /\ token[s][1] = "NONE" /\ session[s] = "NONE"
      BY <2>2, <3>1 DEF SignIn, IInv, Numbered
    <3> QED
      BY <2>2, <3>1, <3>2 DEF SignIn, IInv, TypeOK
  <2>3. ASSUME NEW s \in Sessions, Revoke(s) PROVE Over(t)
    BY <2>3 DEF Revoke, IInv, TypeOK
  <2>4. ASSUME NEW r \in Requests, Compromise(r) \/ Expire(r) PROVE Over(t)
    BY <2>4 DEF Compromise, Expire, EndFamily, Requests, IInv, TypeOK
  <2>5. ASSUME NEW r \in Requests, Rotate(r) PROVE Over(t)
    <3> DEFINE s == r.session
               new == newest[s] + 1
    <3>1. s \in Sessions /\ r.token \in Tokens
      BY DEF Requests
    <3>2. new \in Tokens /\ new > newest[s]
      BY <2>5, <3>1, BoundsPositive DEF Rotate, IInv, TypeOK, Tokens
    <3>3. token[s][new] = "NONE"
      BY <3>1, <3>2 DEF IInv, Numbered
    <3>4. /\ token' = [token EXCEPT ![s][r.token] = "REVOKED", ![s][new] = "ACTIVE"]
          /\ session' = session
      BY <2>5 DEF Rotate, Succeed
    <3> QED
      BY <3>1, <3>2, <3>3, <3>4 DEF IInv, TypeOK
  <2>6. CASE \E s \in Sessions : Lapse(s)
    BY <2>1, <2>6 DEF Lapse
  <2>7. CASE Bar \/ WindowPasses
    BY <2>1, <2>7 DEF Bar, WindowPasses
  <2>8. ASSUME NEW r \in Requests, Refresh(r) PROVE Over(t)
    <3>2. CASE Block(r) \/ Replay(r) \/ KeyReused(r)
      BY <2>1, <3>2 DEF Block, Replay, KeyReused, server
    <3> QED
      BY <2>4, <2>5, <2>8, <3>2 DEF Refresh
  <2> QED
    BY <2>2, <2>3, <2>6, <2>7, <2>8 DEF Next, Others
<1> QED
  BY <1>1, SpecIInv, PTL DEF Spec, EndsForGood
=============================================================================
