---------------------------- MODULE ClientProofs ----------------------------
(***************************************************************************)
(* Theorems about the administration web and the resident app as the       *)
(* clients of SessionRotation, for any sessions, tokens, keys and bounds.  *)
(* Both take only steps of the server.  What the browser or the device has *)
(* stored of a live session can be exchanged, because every request that   *)
(* may still be served and is not yet known to the server either is the    *)
(* one stored or carries a spent token (Unrivalled).                       *)
(***************************************************************************)
EXTENDS AdminTabs, ResidentSession, SessionProofs

\* Of the requests L that may be served, a new one with the last token is of the credentials given.
Unrivalled(L, s, n, k) ==
    \A r \in L :
        r.session = s /\ r.token = newest[s] /\ Stored(r) = NoRecord => r.token = n /\ r.key = k

\* The server knows of the token.
Issued(s, n) == s \in Sessions /\ n \in Tokens /\ n <= newest[s]

\* A step of the server leaves what was issued issued.
LEMMA IssuedStays ==
    ASSUME IInv, [Next]_server, NEW s, NEW n, Issued(s, n) PROVE Issued(s, n)'
<1>1. newest[s] \in Nat /\ newest'[s] \in Nat /\ newest[s] <= newest'[s] /\ n \in Nat
  BY NewestGrows DEF Issued, Tokens
<1> QED
  BY <1>1 DEF Issued

-----------------------------------------------------------------------------
(* The administration web: types *)

WebShape ==
    /\ AdminTypeOK
    /\ call \in [Tabs -> [key : 0..MaxKeys,
                          cookie : [session : Sessions, token : Tokens] \cup {NoCookie}]]
    /\ \A t \in Tabs :
        /\ stage[t] # "idle" => call[t].key # 0
        /\ stage[t] = "sent" => call[t].cookie # NoCookie
        /\ outcome[t].outcome = "rotated" => call[t].cookie # NoCookie /\ outcome[t].issued \in Tokens
    /\ outcome \in [Tabs -> [outcome : {"none", "rotated", "refused", "blocked", "reused", "throttled"},
                             issued : 0..MaxTokens]]
    /\ webRefusals \in Nat

Cookies == [session : Sessions, token : Tokens]

LEMMA NoCookieIsNone == NoCookie \notin Cookies
BY BoundsPositive DEF NoCookie, Cookies, Tokens

LEMMA WebRequestTyped ==
    ASSUME WebShape, NEW t \in Tabs, stage[t] = "sent"
    PROVE  /\ WebRequest(call[t]) \in Requests /\ call[t].cookie \in Cookies /\ call[t].key \in Keys
           /\ WebRequest(call[t]).session = call[t].cookie.session
           /\ WebRequest(call[t]).token = call[t].cookie.token
           /\ WebRequest(call[t]).key = call[t].key
           /\ WebRequest(call[t]).sameDevice = TRUE
<1>1. call[t].cookie \in Cookies /\ call[t].key \in Keys
  BY BoundsPositive DEF WebShape, Cookies, Keys
<1> QED
  BY <1>1 DEF WebRequest, Requests, Cookies

LEMMA ReplyTyped ==
    ASSUME IInv', NEW r \in Requests
    PROVE  ReplyIn(record', r) \in [outcome : {"none", "rotated", "refused", "blocked", "reused", "throttled"},
                                    issued : 0..MaxTokens]
<1>1. record'[r.session][r.key] \in Records \cup {NoRecord} /\ 0 \in 0..MaxTokens
  BY BoundsPositive DEF IInv, TypeOK, Requests
<1> QED
  BY <1>1 DEF ReplyIn, Reply, Records, NoRecord

LEMMA InitWebShape == AdminInit => WebShape
<1> SUFFICES ASSUME AdminInit PROVE WebShape
  OBVIOUS
<1>1. AdminTypeOK
  BY BoundsPositive DEF AdminInit, AdminTypeOK
<1>2. NoCall \in [key : 0..MaxKeys, cookie : Cookies \cup {NoCookie}] /\ 0 \in 0..MaxTokens
  BY BoundsPositive DEF NoCall
<1> QED
  BY <1>1, <1>2 DEF AdminInit, WebShape, NoReply, Cookies

\* Leaving a refresh keeps the types.
LEMMA LeaveTyped ==
    ASSUME WebShape, NEW t \in Tabs, Leave(t), key' \in 0..MaxKeys, UNCHANGED <<cookie, webMinted, webRefusals>>,
           webLate' \subseteq Requests
    PROVE  WebShape'
<1>1. NoCall \in [key : 0..MaxKeys, cookie : Cookies \cup {NoCookie}] /\ 0 \in 0..MaxTokens
  BY BoundsPositive DEF NoCall
<1>2. /\ stage' = [stage EXCEPT ![t] = "idle"] /\ call' = [call EXCEPT ![t] = NoCall]
      /\ outcome' = [outcome EXCEPT ![t] = NoReply]
  BY DEF Leave
<1>3. AdminTypeOK'
  BY <1>2 DEF WebShape, AdminTypeOK
<1>4. call' \in [Tabs -> [key : 0..MaxKeys, cookie : Cookies \cup {NoCookie}]]
  BY <1>1, <1>2 DEF WebShape, Cookies
<1>5. NoReply \in [outcome : {"none", "rotated", "refused", "blocked", "reused", "throttled"},
                   issued : 0..MaxTokens]
  BY <1>1 DEF NoReply
<1>6. NoReply.outcome # "rotated"
  BY DEF NoReply
<1>7. \A u \in Tabs :
        /\ stage'[u] # "idle" => call'[u].key # 0
        /\ stage'[u] = "sent" => call'[u].cookie # NoCookie
        /\ outcome'[u].outcome = "rotated" => call'[u].cookie # NoCookie /\ outcome'[u].issued \in Tokens
  BY <1>2, <1>6 DEF WebShape, AdminTypeOK
<1> QED
  BY <1>2, <1>3, <1>4, <1>5, <1>7 DEF WebShape, Cookies

\* Every step of the browser is a step of the server or none of it.
LEMMA WebServerStep == ASSUME WebShape, AdminNext PROVE [Next]_server
<1>1. ASSUME NEW t \in Tabs, Served(t) PROVE Next
  BY <1>1, WebRequestTyped DEF Served, Next
<1>2. ASSUME NEW t \in Tabs, ReadKey(t) \/ Fetch(t) \/ WebThrottled(t) \/ Fails(t) \/ Arrives(t) \/ Finish(t) \/ Close(t)
      PROVE  UNCHANGED server
  BY <1>2 DEF ReadKey, Fetch, WebThrottled, Fails, Arrives, Finish, Close
<1>3. ASSUME NEW r \in webLate, WebServedLate(r) \/ WebDropped(r) PROVE [Next]_server
  BY <1>3 DEF WebServedLate, WebDropped, WebShape, AdminTypeOK, Next
<1>4. ASSUME NEW s \in Sessions, WebSignedIn(s) PROVE Next
  BY <1>4 DEF WebSignedIn, Next, Others
<1>5. CASE WebLogout
  <2>1. cookie.session \in Sessions
    BY <1>5, NoCookieIsNone DEF WebLogout, WebShape, AdminTypeOK, Cookies
  <2> QED
    BY <1>5, <2>1 DEF WebLogout, Next, Others
<1>6. CASE (\E s \in Sessions : Revoke(s) \/ Lapse(s)) \/ WindowPasses
  BY <1>6 DEF Next, Others
<1> QED
  BY <1>1, <1>2, <1>3, <1>4, <1>5, <1>6 DEF AdminNext

LEMMA WebTypesStep == ASSUME WebShape, IInv, IInv', AdminNext PROVE WebShape'
<1> DEFINE Answers == [outcome : {"none", "rotated", "refused", "blocked", "reused", "throttled"},
                       issued : 0..MaxTokens]
<1>0. 0 \in 0..MaxTokens /\ AdminTypeOK
  BY BoundsPositive DEF WebShape
<1>1. ASSUME NEW t \in Tabs, ReadKey(t) PROVE WebShape'
  <2>1. key' \in 0..MaxKeys /\ webMinted' \in 0..MaxKeys /\ key' # 0
    BY <1>0, <1>1, BoundsPositive DEF ReadKey, AdminTypeOK
  <2> QED
    BY <1>0, <1>1, <2>1 DEF ReadKey, WebShape, AdminTypeOK
<1>2. ASSUME NEW t \in Tabs, Fetch(t) PROVE WebShape'
  <2>1. Reply("refused", 0) \in Answers /\ Reply("refused", 0).outcome # "rotated"
    BY <1>0 DEF Reply
  <2>2. /\ call' = [call EXCEPT ![t].cookie = cookie] /\ cookie \in Cookies \cup {NoCookie}
        /\ stage[t] = "keyed" /\ UNCHANGED <<server, browser, webLate, webRefusals>>
    BY <1>0, <1>2 DEF Fetch, AdminTypeOK, Cookies
  <2>3. call' \in [Tabs -> [key : 0..MaxKeys, cookie : Cookies \cup {NoCookie}]]
    BY <2>2 DEF WebShape, Cookies
  <2>4. \A u \in Tabs : call'[u].key = call[u].key /\ (u # t => call'[u] = call[u])
    BY <2>2 DEF WebShape
  <2>5. call'[t].cookie = cookie
    BY <2>2 DEF WebShape
  <2>7. CASE cookie = NoCookie
    <3>1. outcome' = [outcome EXCEPT ![t] = Reply("refused", 0)] /\ stage' = [stage EXCEPT ![t] = "served"]
      BY <1>2, <2>7 DEF Fetch
    <3> QED
      BY <1>0, <2>1, <2>2, <2>3, <2>4, <2>5, <3>1 DEF WebShape, AdminTypeOK, browser, Cookies
  <2>8. CASE cookie # NoCookie
    <3>1. outcome' = outcome /\ stage' = [stage EXCEPT ![t] = "sent"]
      BY <1>2, <2>8 DEF Fetch
    <3> QED
      BY <1>0, <2>2, <2>3, <2>4, <2>5, <2>8, <3>1 DEF WebShape, AdminTypeOK, browser, Cookies
  <2> QED
    BY <2>7, <2>8
<1>3. ASSUME NEW t \in Tabs, Served(t) PROVE WebShape'
  <2>1. PICK r \in Requests : r = WebRequest(call[t])
    BY <1>3, WebRequestTyped DEF Served
  <2>2. PICK x \in Answers : x = ReplyIn(record', r)
    BY <2>1, ReplyTyped
  <2>3. x.outcome = "rotated" => x.issued \in Tokens
    BY <2>2, RotatedIsToken
  <2>4. /\ outcome' = [outcome EXCEPT ![t] = x] /\ stage' = [stage EXCEPT ![t] = "served"]
        /\ stage[t] = "sent" /\ UNCHANGED <<browser, call, webLate, webRefusals>>
    BY <1>3, <2>1, <2>2 DEF Served
  <2> QED
    BY <1>0, <2>3, <2>4 DEF WebShape, AdminTypeOK, browser
<1>4. ASSUME NEW t \in Tabs, WebThrottled(t) PROVE WebShape'
  <2>1. Reply("throttled", 0) \in Answers /\ Reply("throttled", 0).outcome # "rotated"
    BY <1>0 DEF Reply
  <2> QED
    BY <1>0, <1>4, <2>1 DEF WebThrottled, WebShape, AdminTypeOK, browser
<1>5. ASSUME NEW t \in Tabs, Fails(t) \/ Close(t) PROVE WebShape'
  <2>1. webLate' \subseteq Requests
    BY <1>0, <1>5, WebRequestTyped DEF Fails, Close, AdminTypeOK
  <2> QED
    BY <1>0, <1>5, <2>1, LeaveTyped DEF Fails, Close, browser, AdminTypeOK
<1>6. ASSUME NEW t \in Tabs, Arrives(t) PROVE WebShape'
  <2>1. cookie' \in Cookies \cup {NoCookie}
    <3>1. outcome[t].outcome = "rotated" => call[t].cookie \in Cookies /\ outcome[t].issued \in Tokens
      BY DEF WebShape, Cookies
    <3> QED
      BY <1>0, <1>6, <3>1 DEF Arrives, AdminTypeOK, Cookies
  <2> QED
    BY <1>0, <1>6, <2>1 DEF Arrives, WebShape, AdminTypeOK, Cookies
<1>7. ASSUME NEW t \in Tabs, Finish(t) PROVE WebShape'
  <2>1. key' \in 0..MaxKeys /\ webLate' \subseteq Requests
    BY <1>0, <1>7, BoundsPositive DEF Finish, AdminTypeOK
  <2> QED
    BY <1>7, <2>1, LeaveTyped DEF Finish
<1>8. ASSUME NEW r \in webLate, WebServedLate(r) \/ WebDropped(r) PROVE WebShape'
  BY <1>0, <1>8 DEF WebServedLate, WebDropped, WebShape, AdminTypeOK, browser, tabs
<1>9. ASSUME NEW s \in Sessions, WebSignedIn(s) PROVE WebShape'
  <2>1. cookie' \in Cookies
    BY <1>9, BoundsPositive DEF WebSignedIn, Cookies, Tokens
  <2> QED
    BY <1>0, <1>9, <2>1 DEF WebSignedIn, WebShape, AdminTypeOK, tabs, Cookies
<1>10. CASE WebLogout
  BY <1>0, <1>10 DEF WebLogout, WebShape, AdminTypeOK, tabs
<1>11. CASE UNCHANGED <<browser, tabs, webLate, webRefusals>>
  BY <1>0, <1>11 DEF WebShape, AdminTypeOK, browser, tabs
<1> QED
  BY <1>1, <1>2, <1>3, <1>4, <1>5, <1>6, <1>7, <1>8, <1>9, <1>10, <1>11 DEF AdminNext

-----------------------------------------------------------------------------
(* The administration web: what the server knows *)

\* Every token the browser, a tab or a late request has was issued,
WebIssued ==
    /\ cookie # NoCookie => Issued(cookie.session, cookie.token)
    /\ \A t \in Tabs :
        /\ call[t].cookie # NoCookie => Issued(call[t].cookie.session, call[t].cookie.token)
        /\ stage[t] \in {"served", "arrived"} /\ outcome[t].outcome = "rotated" =>
             Issued(call[t].cookie.session, outcome[t].issued)
    /\ \A r \in webLate : Issued(r.session, r.token)

\* and every request was sent by this device.
RecordsFromHere ==
    \A s \in Sessions : \A k \in Keys : record[s][k] # NoRecord => record[s][k].sameDevice = TRUE

WebFromHere == RecordsFromHere /\ \A r \in webLate : r.sameDevice = TRUE

WebInv == IInv /\ WebShape /\ WebIssued /\ WebFromHere

\* A refresh from this device.
LEMMA ServedFromHere ==
    ASSUME TypeOK, RecordsFromHere, NEW r \in Requests, r.sameDevice = TRUE, Refresh(r)
    PROVE  RecordsFromHere'
<1> SUFFICES ASSUME NEW s \in Sessions, NEW k \in Keys, record'[s][k] # NoRecord
             PROVE  record'[s][k].sameDevice = TRUE
  BY DEF RecordsFromHere
<1>1. CASE s = r.session /\ k = r.key
  <2>1. CASE Fresh(r)
    BY <1>1, <2>1, RefreshRecords
  <2>2. CASE ~Fresh(r)
    BY <1>1, <2>2, RefreshRecords DEF RecordsFromHere
  <2> QED
    BY <2>1, <2>2
<1>2. CASE s # r.session \/ k # r.key
  BY <1>2, RefreshRecords DEF RecordsFromHere
<1> QED
  BY <1>1, <1>2

\* What a request is answered was issued.
LEMMA AnswerIssued ==
    ASSUME IInv', NEW r \in Requests, NEW x, x = ReplyIn(record', r), x.outcome = "rotated"
    PROVE  Issued(r.session, x.issued)'
<1>1. r.session \in Sessions /\ r.key \in Keys /\ x.issued \in Tokens
  BY RotatedIsToken DEF Requests
<1>2. /\ record'[r.session][r.key].outcome = "rotated"
      /\ x.issued = record'[r.session][r.key].issued
  BY DEF ReplyIn, Reply
<1>3. record'[r.session][r.key].issued <= newest'[r.session]
  BY <1>1, <1>2 DEF IInv, Successive
<1> QED
  BY <1>1, <1>2, <1>3 DEF Issued

LEMMA WebIssuedStep == ASSUME WebInv, IInv', AdminNext PROVE WebIssued' /\ WebFromHere'
<1>0. /\ WebShape /\ AdminTypeOK /\ IInv /\ TypeOK /\ WebIssued /\ WebFromHere /\ [Next]_server
      /\ \A s, n : Issued(s, n) => Issued(s, n)'
  BY WebServerStep, IssuedStays DEF WebInv, WebShape, IInv
<1>1. ASSUME NEW t \in Tabs, ReadKey(t) PROVE WebIssued' /\ WebFromHere'
  BY <1>0, <1>1 DEF ReadKey, WebIssued, WebFromHere, RecordsFromHere, WebShape, AdminTypeOK, server
<1>2. ASSUME NEW t \in Tabs, Fetch(t) PROVE WebIssued' /\ WebFromHere'
  <2>1. /\ call'[t].cookie = cookie /\ stage'[t] \in {"served", "sent"}
        /\ stage'[t] = "served" => outcome'[t].outcome = "refused"
        /\ \A u \in Tabs \ {t} : call'[u] = call[u] /\ stage'[u] = stage[u] /\ outcome'[u] = outcome[u]
        /\ UNCHANGED <<server, browser, webLate, webRefusals>>
    BY <1>2 DEF Fetch, WebShape, WebInv, AdminTypeOK, Reply
  <2> QED
    BY <1>0, <2>1 DEF WebIssued, WebFromHere, RecordsFromHere, browser, server
<1>3. ASSUME NEW t \in Tabs, Served(t) PROVE WebIssued' /\ WebFromHere'
  <2>1. PICK r \in Requests : r = WebRequest(call[t])
    BY <1>0, <1>3, WebRequestTyped DEF Served
  <2>2. r.session = call[t].cookie.session /\ r.sameDevice = TRUE /\ Refresh(r)
    BY <2>1, <1>3 DEF WebRequest, Served
  <2>3. PICK x : x = ReplyIn(record', r)
    OBVIOUS
  <2>4. x.outcome = "rotated" => Issued(call[t].cookie.session, x.issued)'
    <3>1. x.outcome = "rotated" => Issued(r.session, x.issued)'
      BY <2>3, AnswerIssued
    <3>2. UNCHANGED call
      BY <1>3 DEF Served
    <3> QED
      BY <2>2, <3>1, <3>2
  <2>5. /\ outcome' = [outcome EXCEPT ![t] = x] /\ stage' = [stage EXCEPT ![t] = "served"]
        /\ UNCHANGED <<browser, call, webLate, webRefusals>>
    BY <1>3, <2>1, <2>3 DEF Served
  <2>6. WebIssued'
    BY <1>0, <2>4, <2>5 DEF WebIssued, WebShape, AdminTypeOK, browser
  <2> QED
    BY <1>0, <2>2, <2>5, <2>6, ServedFromHere DEF WebFromHere
<1>4. ASSUME NEW t \in Tabs, WebThrottled(t) PROVE WebIssued' /\ WebFromHere'
  BY <1>0, <1>4 DEF WebThrottled, WebIssued, WebFromHere, RecordsFromHere, WebShape, AdminTypeOK, server,
     browser, Reply
<1>5. ASSUME NEW t \in Tabs, Fails(t) \/ Close(t) PROVE WebIssued' /\ WebFromHere'
  <2>1. \A r \in webLate' : Issued(r.session, r.token) /\ r.sameDevice = TRUE
    <3>1. CASE stage[t] = "sent"
      <4>1. PICK q : q = WebRequest(call[t])
        OBVIOUS
      <4>2. Issued(q.session, q.token) /\ q.sameDevice = TRUE
        BY <1>0, <3>1, <4>1, WebRequestTyped DEF WebIssued, WebShape
      <4>3. webLate' = webLate \cup {q}
        BY <1>5, <3>1, <4>1 DEF Fails, Close
      <4> QED
        BY <1>0, <4>2, <4>3 DEF WebIssued, WebFromHere
    <3>2. CASE stage[t] # "sent"
      BY <1>0, <1>5, <3>2 DEF Fails, Close, WebIssued, WebFromHere
    <3> QED
      BY <3>1, <3>2
  <2> QED
    BY <1>0, <1>5, <2>1
       DEF Fails, Close, Leave, NoCall, WebIssued, WebFromHere, RecordsFromHere, WebShape, AdminTypeOK, browser, server
<1>6. ASSUME NEW t \in Tabs, Arrives(t) PROVE WebIssued' /\ WebFromHere'
  <2>1. cookie' # NoCookie => Issued(cookie'.session, cookie'.token)
    BY <1>0, <1>6 DEF Arrives, WebIssued
  <2> QED
    BY <1>0, <1>6, <2>1 DEF Arrives, WebIssued, WebFromHere, RecordsFromHere, WebShape, AdminTypeOK, server
<1>7. ASSUME NEW t \in Tabs, Finish(t) PROVE WebIssued' /\ WebFromHere'
  BY <1>0, <1>7
     DEF Finish, Leave, NoCall, WebIssued, WebFromHere, RecordsFromHere, WebShape, AdminTypeOK, server
<1>8. ASSUME NEW r \in webLate, WebServedLate(r) PROVE WebIssued' /\ WebFromHere'
  <2>1. r \in Requests /\ r.sameDevice = TRUE
    BY <1>0 DEF WebFromHere, AdminTypeOK
  <2>2. RecordsFromHere'
    BY <1>0, <1>8, <2>1, ServedFromHere DEF WebServedLate, WebFromHere
  <2> QED
    BY <1>0, <1>8, <2>2 DEF WebServedLate, WebIssued, WebFromHere, browser, tabs
<1>9. ASSUME NEW r \in webLate, WebDropped(r) PROVE WebIssued' /\ WebFromHere'
  BY <1>0, <1>9 DEF WebDropped, WebIssued, WebFromHere, RecordsFromHere, browser, tabs, server
<1>10. ASSUME NEW s \in Sessions, WebSignedIn(s) PROVE WebIssued' /\ WebFromHere'
  <2>1. Issued(s, 1)'
    BY <1>0, <1>10, BoundsPositive DEF WebSignedIn, SignIn, Issued, Tokens, TypeOK
  <2>2. cookie'.session = s /\ cookie'.token = 1 /\ UNCHANGED <<tabs, webLate, record>>
    BY <1>10 DEF WebSignedIn, SignIn
  <2> QED
    BY <1>0, <2>1, <2>2 DEF WebIssued, WebFromHere, RecordsFromHere, tabs
<1>11. CASE WebLogout
  BY <1>0, <1>11 DEF WebLogout, Revoke, WebIssued, WebFromHere, RecordsFromHere, tabs
<1>12. ASSUME (\E s \in Sessions : Revoke(s) \/ Lapse(s)) \/ WindowPasses, UNCHANGED <<browser, tabs, webLate, webRefusals>>
       PROVE  WebIssued' /\ WebFromHere'
  <2>1. record' = record
    BY <1>12 DEF Revoke, Lapse, WindowPasses
  <2> QED
    BY <1>0, <1>12, <2>1 DEF WebIssued, WebFromHere, RecordsFromHere, browser, tabs
<1> QED
  BY <1>1, <1>2, <1>3, <1>4, <1>5, <1>6, <1>7, <1>8, <1>9, <1>10, <1>11, <1>12 DEF AdminNext

-----------------------------------------------------------------------------
(* The administration web: cookie and key *)

\* The exchange of the token is stored under the key.
Exchange(s, n, k) ==
    /\ k \in Keys
    /\ record[s][k].outcome = "rotated" /\ record[s][k].token = n /\ record[s][k].issued = newest[s]

\* With this token and key a live session can be carried on, whatever else is served first.
Kept(L, s, n, k) ==
    session[s] = "ACTIVE" =>
        /\ n = newest[s] \/ Exchange(s, n, k)
        /\ Unrivalled(L, s, n, k)

\* Nothing is exchanged, and nothing more may be served.
LEMMA KeptStays ==
    ASSUME NEW L, NEW M, M \subseteq L, NEW s, NEW n, NEW k, NEW j, Kept(L, s, n, k),
           j = k \/ (k = 0 /\ L \subseteq Requests),
           newest'[s] = newest[s], record'[s] = record[s], session'[s] = "ACTIVE" => session[s] = "ACTIVE"
    PROVE  Kept(M, s, n, j)'
<1> SUFFICES ASSUME session'[s] = "ACTIVE" PROVE (n = newest'[s] \/ Exchange(s, n, j)') /\ Unrivalled(M, s, n, j)'
  BY DEF Kept
<1>1. (n = newest[s] \/ Exchange(s, n, k)) /\ Unrivalled(L, s, n, k)
  BY DEF Kept
<1>2. k = 0 => k \notin Keys
  BY DEF Keys
<1>3. n = newest'[s] \/ Exchange(s, n, j)'
  BY <1>1, <1>2 DEF Exchange
<1>4. ASSUME NEW r \in M, r.session = s, r.token = newest'[s], Stored(r)' = NoRecord PROVE r.token = n /\ r.key = j
  <2>1. r \in L /\ r.token = newest[s] /\ Stored(r) = NoRecord
    BY <1>4 DEF Stored
  <2>2. r.token = n /\ r.key = k
    BY <1>1, <1>4, <2>1 DEF Unrivalled
  <2>3. L \subseteq Requests => r.key \in Keys
    BY <2>1 DEF Requests
  <2> QED
    BY <1>2, <2>2, <2>3
<1> QED
  BY <1>3, <1>4 DEF Unrivalled

\* A request is served: if it exchanges the token, it does so under the key.
LEMMA KeptServed ==
    ASSUME IInv, NEW L \in SUBSET Requests, \A q \in L : Issued(q.session, q.token), NEW r \in L, Refresh(r),
           NEW s \in Sessions, NEW n, NEW k, Kept(L, s, n, k)
    PROVE  Kept(L, s, n, k)'
<1>1. r \in Requests /\ r.session \in Sessions /\ r.key \in Keys /\ TypeOK
  BY DEF Requests, IInv
<1>2. CASE s # r.session
  <2>1. newest'[s] = newest[s] /\ (session'[s] = "ACTIVE" => session[s] = "ACTIVE")
    BY <1>1, <1>2, RefreshOfLive
  <2>2. \A j \in Keys : record'[s][j] = record[s][j]
    BY <1>1, <1>2, RefreshRecords
  <2>3. \A q \in L : q.session = s => Stored(q)' = Stored(q)
    BY <2>2 DEF Stored, Requests
  <2> QED
    BY <2>1, <2>2, <2>3 DEF Kept, Exchange, Unrivalled
<1>3. CASE s = r.session
  <2> SUFFICES ASSUME session'[s] = "ACTIVE" PROVE (n = newest'[s] \/ Exchange(s, n, k)') /\ Unrivalled(L, s, n, k)'
    BY DEF Kept
  <2>1. session[s] = "ACTIVE" /\ (n = newest[s] \/ Exchange(s, n, k)) /\ Unrivalled(L, s, n, k)
    BY <1>1, RefreshOfLive DEF Kept
  <2>2. \A j \in Keys : j # r.key \/ ~Fresh(r) => record'[s][j] = record[s][j]
    BY <1>1, <1>3, RefreshRecords
  <2>3. Fresh(r) => record'[s][r.key] # NoRecord /\ record'[s][r.key].token = r.token
    BY <1>1, <1>3, RefreshRecords DEF NoRecord
  <2>4. \A q \in L : q.session = s /\ Stored(q)' = NoRecord => Stored(q) = NoRecord
    BY <1>3, <2>2, <2>3 DEF Stored, Requests, Fresh
  <2>5. Fresh(r) => record[s][r.key] = NoRecord /\ NoRecord.outcome # "rotated"
    BY <1>3 DEF Fresh, Stored, NoRecord
  <2>6. CASE newest'[s] = newest[s]
    <3>1. Exchange(s, n, k) => Exchange(s, n, k)'
      BY <2>2, <2>5, <2>6 DEF Exchange
    <3> QED
      BY <2>1, <2>4, <2>6, <3>1 DEF Unrivalled
  <2>7. CASE /\ Fresh(r) /\ r.token = newest[s] /\ newest'[s] = newest[s] + 1
             /\ record'[s][r.key].outcome = "rotated" /\ record'[s][r.key].issued = newest'[s]
    <3>1. r.token = n /\ r.key = k
      BY <1>3, <2>1, <2>7 DEF Unrivalled, Fresh
    <3>2. Exchange(s, n, k)'
      BY <1>1, <2>3, <2>7, <3>1 DEF Exchange
    <3>3. \A q \in L : q.session = s => q.token # newest'[s]
      <4>1. newest[s] \in Nat
        BY <1>1 DEF TypeOK
      <4>2. \A q \in L : q.session = s => q.token \in Nat /\ q.token <= newest[s]
        BY DEF Issued, Tokens
      <4> QED
        BY <2>7, <4>1, <4>2
    <3> QED
      BY <3>2, <3>3 DEF Unrivalled
  <2> QED
    BY <1>1, <1>3, <2>6, <2>7, RefreshOfLive
<1> QED
  BY <1>2, <1>3

\* The answer to a request that carried its session on: its token needs no key, or without one the
\* token presented still needs none.
LEMMA KeptByAnswer ==
    ASSUME IInv, RecordsFromHere, NEW L \in SUBSET Requests, \A q \in L : Issued(q.session, q.token),
           NEW r \in L, r.sameDevice = TRUE, Refresh(r), Kept(L, r.session, r.token, r.key),
           NEW x, x = ReplyIn(record', r)
    PROVE  /\ x.outcome = "rotated" => Kept(L, r.session, x.issued, 0)'
           /\ x.outcome # "rotated" => Kept(L, r.session, r.token, 0)'
<1> DEFINE s == r.session
<1>1. r \in Requests /\ s \in Sessions /\ r.key \in Keys /\ TypeOK /\ newest[s] \in Nat /\ r.token \in Nat
  BY DEF Requests, IInv, TypeOK, Tokens
<1> SUFFICES ASSUME session'[s] = "ACTIVE"
             PROVE  /\ x.outcome = "rotated" => x.issued = newest'[s] /\ Unrivalled(L, s, x.issued, 0)'
                    /\ x.outcome # "rotated" => r.token = newest'[s] /\ Unrivalled(L, s, r.token, 0)'
  BY DEF Kept
<1>2. session[s] = "ACTIVE" /\ (r.token = newest[s] \/ Exchange(s, r.token, r.key)) /\ Unrivalled(L, s, r.token, r.key)
  BY <1>1, RefreshOfLive DEF Kept
<1>3. \A j \in Keys : j # r.key \/ ~Fresh(r) => record'[s][j] = record[s][j]
  BY <1>1, RefreshRecords
<1>4. Fresh(r) => /\ record'[s][r.key] # NoRecord /\ record'[s][r.key].token = r.token
                  /\ record'[s][r.key].sameDevice = TRUE
  BY <1>1, RefreshRecords DEF NoRecord
<1>5. record'[s][r.key] # NoRecord
  BY <1>1, <1>3, <1>4 DEF Fresh, Stored
<1>6. \A q \in L : q.session = s /\ Stored(q)' = NoRecord => Stored(q) = NoRecord /\ q.key # r.key
  BY <1>3, <1>4, <1>5 DEF Stored, Requests, Fresh
<1>7. \A q \in L : q.session = s /\ Stored(q)' = NoRecord => q.token # newest[s]
  BY <1>2, <1>6 DEF Unrivalled
<1>8. CASE Fresh(r)
  <2>1. r.token = newest[s]
    BY <1>2, <1>8 DEF Exchange, Fresh, Stored, NoRecord
  <2>2. x = [outcome |-> record'[s][r.key].outcome, issued |-> record'[s][r.key].issued]
    BY <1>4, <1>8 DEF ReplyIn, Reply
  <2>3. CASE newest' = newest /\ record'[s][r.key].outcome = "blocked"
    BY <1>7, <2>1, <2>2, <2>3 DEF Unrivalled
  <2>4. CASE /\ newest'[s] = newest[s] + 1
             /\ record'[s][r.key].outcome = "rotated" /\ record'[s][r.key].issued = newest'[s]
    <3>1. \A q \in L : q.session = s => q.token # newest'[s]
      <4>1. \A q \in L : q.session = s => q.token \in Nat /\ q.token <= newest[s]
        BY DEF Issued, Tokens
      <4> QED
        BY <1>1, <2>4, <4>1
    <3> QED
      BY <2>2, <2>4, <3>1 DEF Unrivalled
  <2> QED
    BY <1>1, <1>8, <2>3, <2>4, RefreshOfLive
<1>9. CASE ~Fresh(r)
  <2>1. record'[s][r.key] = record[s][r.key] /\ newest' = newest
    BY <1>1, <1>3, <1>9, RefreshOfLive
  <2>2. record[s][r.key].sameDevice = TRUE
    BY <1>1, <1>9 DEF RecordsFromHere, Fresh, Stored
  <2>3. CASE record[s][r.key].token = r.token /\ record[s][r.key].outcome = "rotated"
    <3>1. x.outcome = "rotated" /\ x.issued = record[s][r.key].issued
      BY <2>1, <2>2, <2>3 DEF ReplyIn, Reply
    <3>2. record[s][r.key].issued = r.token + 1 /\ record[s][r.key].issued <= newest[s]
      BY <1>1, <2>3 DEF IInv, Successive
    <3>3. x.issued = newest[s]
      BY <1>1, <1>2, <3>1, <3>2 DEF Exchange
    <3> QED
      BY <1>7, <2>1, <3>1, <3>3 DEF Unrivalled
  <2>4. CASE record[s][r.key].token # r.token \/ record[s][r.key].outcome # "rotated"
    <3>1. x.outcome # "rotated"
      BY <2>1, <2>2, <2>4 DEF ReplyIn, Reply
    <3>2. r.token = newest[s]
      BY <1>2, <2>4 DEF Exchange
    <3> QED
      BY <1>7, <2>1, <3>1, <3>2 DEF Unrivalled
  <2> QED
    BY <2>3, <2>4
<1> QED
  BY <1>8, <1>9

\* The requests of the browser that the server may serve from now on.
WebHeld == webLate \cup {WebRequest(call[t]) : t \in {u \in Tabs : stage[u] = "sent"}}

CookieSafe(k) == cookie # NoCookie => Kept(WebHeld, cookie.session, cookie.token, k)

\* Where a refresh of the tab is: its request carries the session on, its answer has or leaves a
\* token that needs no key.
TabSafe(t) ==
    /\ stage[t] # "idle" => call[t].key = key
    /\ stage[t] = "sent" =>
        /\ Kept(WebHeld, call[t].cookie.session, call[t].cookie.token, key)
        /\ cookie # call[t].cookie => CookieSafe(0)
    /\ stage[t] = "served" /\ outcome[t].outcome = "rotated" =>
        Kept(WebHeld, call[t].cookie.session, outcome[t].issued, 0)
    /\ stage[t] = "served" /\ outcome[t].outcome # "rotated" => CookieSafe(0)
    /\ stage[t] = "arrived" => CookieSafe(0)

WebSafe == webRefusals = 0 => CookieSafe(key) /\ \A t \in Tabs : TabSafe(t)

OneTab == \A t, u \in Tabs : t = u

LEMMA HeldOfTab ==
    ASSUME OneTab, NEW t \in Tabs
    PROVE  WebHeld = webLate \cup (IF stage[t] = "sent" THEN {WebRequest(call[t])} ELSE {})
BY DEF OneTab, WebHeld

LEMMA WebHeldTyped ==
    ASSUME WebInv
    PROVE  WebHeld \in SUBSET Requests /\ \A r \in WebHeld : Issued(r.session, r.token) /\ r.sameDevice = TRUE
<1>1. ASSUME NEW t \in Tabs, stage[t] = "sent"
      PROVE  /\ WebRequest(call[t]) \in Requests /\ WebRequest(call[t]).sameDevice = TRUE
             /\ Issued(WebRequest(call[t]).session, WebRequest(call[t]).token)
  BY <1>1, WebRequestTyped DEF WebInv, WebIssued, WebShape
<1> SUFFICES ASSUME NEW r \in WebHeld PROVE r \in Requests /\ Issued(r.session, r.token) /\ r.sameDevice = TRUE
  OBVIOUS
<1>2. CASE r \in webLate
  BY <1>2 DEF WebInv, WebIssued, WebFromHere, WebShape, AdminTypeOK
<1>3. CASE r \notin webLate
  <2>1. PICK t \in Tabs : stage[t] = "sent" /\ r = WebRequest(call[t])
    BY <1>3 DEF WebHeld
  <2> QED
    BY <1>1, <2>1
<1> QED
  BY <1>2, <1>3

\* No session comes alive and no record changes.
Calm == UNCHANGED <<record, newest>> /\ \A s \in Sessions : session'[s] = "ACTIVE" => session[s] = "ACTIVE"

LEMMA CalmKeeps ==
    ASSUME WebInv, Calm, WebHeld' \subseteq WebHeld, NEW s \in Sessions, NEW n, NEW k, NEW j,
           Kept(WebHeld, s, n, k), j = k \/ k = 0
    PROVE  Kept(WebHeld, s, n, j)'
<1>1. PICK L \in SUBSET Requests : L = WebHeld
  BY WebHeldTyped
<1>2. PICK M : M = WebHeld'
  OBVIOUS
<1>3. Kept(L, s, n, k)
  BY <1>1
<1>4. /\ newest'[s] = newest[s] /\ record'[s] = record[s] /\ (session'[s] = "ACTIVE" => session[s] = "ACTIVE")
      /\ M \subseteq L /\ (j = k \/ (k = 0 /\ L \subseteq Requests))
  BY <1>1, <1>2 DEF Calm
<1>5. Kept(M, s, n, j)'
  BY <1>3, <1>4, KeptStays
<1> QED
  BY <1>2, <1>5 DEF Kept, Exchange, Unrivalled, Stored

LEMMA ServedKeeps ==
    ASSUME WebInv, NEW r \in WebHeld, Refresh(r), WebHeld' \subseteq WebHeld,
           NEW s \in Sessions, NEW n, NEW k, Kept(WebHeld, s, n, k)
    PROVE  Kept(WebHeld, s, n, k)'
<1>1. PICK L \in SUBSET Requests : L = WebHeld /\ r \in L /\ \A q \in L : Issued(q.session, q.token)
  BY WebHeldTyped
<1>2. Kept(L, s, n, k)'
  <2>1. Kept(L, s, n, k) /\ IInv
    BY <1>1 DEF WebInv
  <2> QED
    BY <1>1, <2>1, KeptServed
<1> QED
  BY <1>1, <1>2 DEF Kept, Exchange, Unrivalled, Stored

\* What is in the tab's hands is of a session of the server.
LEMMA TabTyped ==
    ASSUME WebInv, NEW t \in Tabs
    PROVE  /\ cookie # NoCookie => cookie \in Cookies /\ cookie.session \in Sessions
           /\ call[t].cookie # NoCookie => call[t].cookie \in Cookies /\ call[t].cookie.session \in Sessions
           /\ stage[t] = "sent" => call[t].cookie # NoCookie
           /\ outcome[t].outcome = "rotated" => call[t].cookie # NoCookie
BY DEF WebInv, WebShape, AdminTypeOK, Cookies

\* A step after which the tab and the browser have what they had.
LEMMA SafeCalm ==
    ASSUME WebInv, WebSafe, Calm, WebHeld' \subseteq WebHeld, UNCHANGED <<cookie, key, stage, call, outcome>>,
           webRefusals = 0
    PROVE  CookieSafe(key)' /\ \A t \in Tabs : TabSafe(t)'
<1>1. \A s \in Sessions : \A n, k : Kept(WebHeld, s, n, k) => Kept(WebHeld, s, n, k)'
  BY CalmKeeps
<1>2. ASSUME NEW k, CookieSafe(k), k' = k PROVE CookieSafe(k)'
  BY <1>1, <1>2 DEF CookieSafe, WebInv, WebShape, AdminTypeOK, Cookies
<1> QED
  BY <1>1, <1>2, TabTyped DEF WebSafe, TabSafe

\* The tab leaves its refresh, with the key or without needing one.
LEMMA SafeLeave ==
    ASSUME WebInv, WebSafe, OneTab, NEW t \in Tabs, Leave(t), UNCHANGED <<server, cookie>>, webRefusals = 0,
           WebHeld' \subseteq WebHeld, key' = key \/ CookieSafe(0)
    PROVE  CookieSafe(key)' /\ \A u \in Tabs : TabSafe(u)'
<1>1. /\ stage'[t] = "idle" /\ \A u \in Tabs : u = t
      /\ Calm /\ CookieSafe(key) /\ cookie' = cookie
  BY DEF Leave, WebInv, WebShape, AdminTypeOK, OneTab, Calm, server, WebSafe
<1>2. \A u \in Tabs : TabSafe(u)'
  BY <1>1 DEF TabSafe
<1>3. cookie # NoCookie => Kept(WebHeld, cookie.session, cookie.token, key)'
  <2> SUFFICES ASSUME cookie # NoCookie PROVE Kept(WebHeld, cookie.session, cookie.token, key)'
    OBVIOUS
  <2>0. PICK s \in Sessions : s = cookie.session
    BY TabTyped
  <2>1. PICK n, j : n = cookie.token /\ j = key'
    OBVIOUS
  <2>2. PICK k : Kept(WebHeld, s, n, k) /\ (j = k \/ k = 0)
    BY <1>1, <2>0, <2>1 DEF CookieSafe
  <2>3. Kept(WebHeld, s, n, j)'
    BY <1>1, <2>2, CalmKeeps
  <2> QED
    BY <1>1, <2>0, <2>1, <2>3 DEF Kept, Exchange, Unrivalled, Stored
<1> QED
  BY <1>1, <1>2, <1>3 DEF CookieSafe

LEMMA SafeReadKey ==
    ASSUME WebInv, WebSafe, OneTab, NEW t \in Tabs, ReadKey(t), webRefusals = 0
    PROVE  CookieSafe(key)' /\ \A u \in Tabs : TabSafe(u)'
<1>1. /\ stage'[t] = "keyed" /\ call'[t].key = key' /\ \A u \in Tabs : u = t
      /\ Calm /\ CookieSafe(key) /\ UNCHANGED <<cookie, webLate>> /\ (key' = key \/ key = 0)
  BY DEF ReadKey, WebInv, WebShape, AdminTypeOK, OneTab, Calm, server, WebSafe
<1>2. \A u \in Tabs : TabSafe(u)'
  BY <1>1 DEF TabSafe
<1>3. WebHeld' \subseteq WebHeld
  BY <1>1 DEF WebHeld
<1>4. cookie # NoCookie => Kept(WebHeld, cookie.session, cookie.token, key)'
  <2> SUFFICES ASSUME cookie # NoCookie PROVE Kept(WebHeld, cookie.session, cookie.token, key)'
    OBVIOUS
  <2>0. PICK s \in Sessions : s = cookie.session
    BY TabTyped
  <2>1. PICK n, k, j : n = cookie.token /\ k = key /\ j = key'
    OBVIOUS
  <2>2. Kept(WebHeld, s, n, k) /\ (j = k \/ k = 0)
    BY <1>1, <2>0, <2>1 DEF CookieSafe
  <2>3. Kept(WebHeld, s, n, j)'
    BY <1>1, <1>3, <2>2, CalmKeeps
  <2> QED
    BY <1>1, <2>0, <2>1, <2>3 DEF Kept, Exchange, Unrivalled, Stored
<1> QED
  BY <1>1, <1>2, <1>4 DEF CookieSafe

LEMMA SafeFetch ==
    ASSUME WebInv, WebSafe, OneTab, NEW t \in Tabs, Fetch(t), webRefusals = 0
    PROVE  CookieSafe(key)' /\ \A u \in Tabs : TabSafe(u)'
<1>1. /\ stage[t] = "keyed" /\ call'[t].cookie = cookie /\ call'[t].key = call[t].key /\ \A u \in Tabs : u = t
      /\ CookieSafe(key) /\ call[t].key = key /\ UNCHANGED <<session, newest, record, cookie, key, webLate>>
  BY DEF Fetch, WebInv, WebShape, AdminTypeOK, OneTab, server, browser, WebSafe, TabSafe
<1>2. CASE cookie = NoCookie
  <2>1. stage'[t] = "served" /\ outcome'[t].outcome = "refused"
    BY <1>2 DEF Fetch, WebInv, WebShape, AdminTypeOK, Reply
  <2> QED
    BY <1>1, <1>2, <2>1 DEF CookieSafe, TabSafe
<1>3. CASE cookie # NoCookie
  <2>1. stage'[t] = "sent"
    BY <1>3 DEF Fetch, WebInv, WebShape, AdminTypeOK
  <2>2. PICK q : q = WebRequest(call'[t])
    OBVIOUS
  <2>3. q.session = cookie.session /\ q.token = cookie.token /\ q.key = key
    BY <1>1, <2>2 DEF WebRequest
  <2>4. WebHeld' \subseteq WebHeld \cup {q}
    BY <1>1, <2>2 DEF WebHeld
  <2>5. Kept(WebHeld, cookie.session, cookie.token, key)
    BY <1>1, <1>3 DEF CookieSafe
  <2>6. Kept(WebHeld, cookie.session, cookie.token, key)'
    BY <1>1, <2>3, <2>4, <2>5 DEF Kept, Exchange, Unrivalled, Stored
  <2>7. Kept(WebHeld, call[t].cookie.session, call[t].cookie.token, key)'
    BY <1>1, <2>6 DEF Kept, Exchange, Unrivalled, Stored
  <2> QED
    BY <1>1, <2>1, <2>6, <2>7 DEF CookieSafe, TabSafe
<1> QED
  BY <1>2, <1>3

LEMMA SafeServed ==
    ASSUME WebInv, WebSafe, OneTab, NEW t \in Tabs, Served(t), webRefusals = 0
    PROVE  CookieSafe(key)' /\ \A u \in Tabs : TabSafe(u)'
<1>1. PICK r \in WebHeld : r = WebRequest(call[t])
  BY DEF Served, WebHeld
<1>2. PICK x : x = ReplyIn(record', r)
  OBVIOUS
<1>3. /\ stage[t] = "sent" /\ stage'[t] = "served" /\ outcome'[t] = x /\ \A u \in Tabs : u = t
      /\ UNCHANGED <<cookie, key, call, webLate>> /\ Refresh(r)
      /\ CookieSafe(key) /\ TabSafe(t)
  BY <1>1, <1>2 DEF Served, WebInv, WebShape, AdminTypeOK, OneTab, browser, WebSafe
<1>4. /\ r.session = call[t].cookie.session /\ r.token = call[t].cookie.token /\ r.key = key
      /\ r.session \in Sessions
  <2>1. r.key = call[t].key /\ call[t].key = key
    BY <1>1, <1>3 DEF WebRequest, TabSafe
  <2> QED
    BY <1>1, <1>3, <2>1, TabTyped DEF WebRequest
<1>5. WebHeld' \subseteq WebHeld
  BY <1>3 DEF WebHeld, WebInv, WebShape, AdminTypeOK
<1>6. \A s \in Sessions : \A n, k : Kept(WebHeld, s, n, k) => Kept(WebHeld, s, n, k)'
  BY <1>3, <1>5, ServedKeeps
<1>7. CookieSafe(key)'
  BY <1>3, <1>6, TabTyped DEF CookieSafe
<1>8. /\ x.outcome = "rotated" => Kept(WebHeld, r.session, x.issued, 0)'
      /\ x.outcome # "rotated" => Kept(WebHeld, r.session, r.token, 0)'
  <2>1. PICK L \in SUBSET Requests : L = WebHeld
    BY WebHeldTyped
  <2>2. r \in L /\ r.sameDevice = TRUE /\ \A q \in L : Issued(q.session, q.token)
    BY <2>1, WebHeldTyped
  <2>3. Kept(L, r.session, r.token, r.key)
    BY <1>3, <1>4, <2>1 DEF TabSafe
  <2>4. IInv /\ RecordsFromHere
    BY DEF WebInv, WebFromHere
  <2>5. /\ x.outcome = "rotated" => Kept(L, r.session, x.issued, 0)'
        /\ x.outcome # "rotated" => Kept(L, r.session, r.token, 0)'
    BY <1>2, <1>3, <2>2, <2>3, <2>4, KeptByAnswer
  <2>6. WebHeld' \subseteq L
    BY <1>5, <2>1
  <2> QED
    BY <2>5, <2>6 DEF Kept, Exchange, Unrivalled, Stored
<1>9. CASE x.outcome = "rotated"
  <2>1. Kept(WebHeld, call[t].cookie.session, outcome[t].issued, 0)'
    BY <1>3, <1>4, <1>8, <1>9 DEF Kept, Exchange, Unrivalled, Stored
  <2>2. TabSafe(t)'
    BY <1>3, <1>9, <2>1 DEF TabSafe
  <2> QED
    BY <1>3, <1>7, <2>2
<1>10. CASE x.outcome # "rotated"
  <2>1. CookieSafe(0)'
    <3>1. CASE cookie = call[t].cookie
      BY <1>3, <1>4, <1>8, <1>10, <3>1 DEF CookieSafe, Kept, Exchange, Unrivalled, Stored
    <3>2. CASE cookie # call[t].cookie
      <4>1. CookieSafe(0)
        BY <1>3, <3>2 DEF TabSafe
      <4> QED
        BY <1>3, <1>6, <4>1, TabTyped DEF CookieSafe
    <3> QED
      BY <3>1, <3>2
  <2>2. TabSafe(t)'
    BY <1>3, <1>10, <2>1 DEF TabSafe
  <2> QED
    BY <1>3, <1>7, <2>2
<1> QED
  BY <1>9, <1>10

LEMMA SafeArrives ==
    ASSUME WebInv, WebSafe, OneTab, NEW t \in Tabs, Arrives(t), webRefusals = 0
    PROVE  CookieSafe(key)' /\ \A u \in Tabs : TabSafe(u)'
<1>1. /\ stage[t] = "served" /\ stage'[t] = "arrived" /\ call[t].key = key /\ \A u \in Tabs : u = t
      /\ Calm /\ UNCHANGED <<key, call, outcome, webLate>> /\ TabSafe(t)
  BY DEF Arrives, WebInv, WebShape, AdminTypeOK, OneTab, Calm, server, WebSafe, TabSafe
<1>2. WebHeld' \subseteq WebHeld
  BY <1>1 DEF WebHeld
<1>3. CookieSafe(0)' /\ CookieSafe(key)'
  <2>1. CASE cookie' = NoCookie
    BY <2>1 DEF CookieSafe
  <2>2. CASE cookie' # NoCookie
    <3>1. Kept(WebHeld, cookie'.session, cookie'.token, 0) /\ cookie'.session \in Sessions
      <4>1. CASE outcome[t].outcome = "rotated"
        BY <1>1, <4>1, TabTyped DEF TabSafe, Arrives
      <4>2. CASE outcome[t].outcome # "rotated"
        <5>1. cookie' = cookie
          BY <4>2 DEF Arrives
        <5> QED
          BY <1>1, <2>2, <4>2, <5>1, TabTyped DEF TabSafe, CookieSafe
      <4> QED
        BY <4>1, <4>2
    <3>2. PICK s \in Sessions : s = cookie'.session
      BY <3>1
    <3>3. PICK n, j : n = cookie'.token /\ j = key
      OBVIOUS
    <3>4. Kept(WebHeld, s, n, 0)
      BY <3>1, <3>2, <3>3
    <3>5. Kept(WebHeld, s, n, 0)' /\ Kept(WebHeld, s, n, j)'
      BY <1>1, <1>2, <3>4, CalmKeeps
    <3> QED
      BY <1>1, <3>2, <3>3, <3>5 DEF CookieSafe, Kept, Exchange, Unrivalled, Stored
  <2> QED
    BY <2>1, <2>2
<1> QED
  BY <1>1, <1>3 DEF TabSafe

LEMMA SafeServedLate ==
    ASSUME WebInv, WebSafe, NEW r \in webLate, WebServedLate(r), webRefusals = 0
    PROVE  CookieSafe(key)' /\ \A t \in Tabs : TabSafe(t)'
<1>1. r \in WebHeld /\ Refresh(r) /\ UNCHANGED <<cookie, key, stage, call, outcome, webLate>>
  BY DEF WebServedLate, WebHeld, browser, tabs
<1>2. WebHeld' \subseteq WebHeld
  BY <1>1 DEF WebHeld
<1>3. \A s \in Sessions : \A n, k : Kept(WebHeld, s, n, k) => Kept(WebHeld, s, n, k)'
  BY <1>1, <1>2, ServedKeeps
<1>4. (CookieSafe(0) => CookieSafe(0)') /\ (CookieSafe(key) => CookieSafe(key)')
  BY <1>1, <1>3, TabTyped DEF CookieSafe, WebInv, WebShape, AdminTypeOK
<1> QED
  BY <1>1, <1>3, <1>4, TabTyped DEF WebSafe, TabSafe

\* A session just opened: nothing in hand is of it.
LEMMA SafeSignedIn ==
    ASSUME WebInv, WebSafe, NEW s \in Sessions, WebSignedIn(s), webRefusals = 0
    PROVE  CookieSafe(key)' /\ \A t \in Tabs : TabSafe(t)'
<1>1. /\ cookie' = [session |-> s, token |-> 1] /\ UNCHANGED <<key, stage, call, outcome, webLate, record>>
      /\ session' = [session EXCEPT ![s] = "ACTIVE"] /\ newest' = [newest EXCEPT ![s] = 1]
      /\ newest[s] = 0 /\ TypeOK
  BY DEF WebSignedIn, SignIn, tabs, WebInv, IInv, Numbered
<1>2. \A n : ~Issued(s, n)
  BY <1>1 DEF Issued, Tokens
<1>3. WebHeld' = WebHeld
  BY <1>1 DEF WebHeld
<1>4. \A r \in WebHeld : r.session # s
  BY <1>2, WebHeldTyped
<1>5. newest'[s] = 1 /\ \A u \in Sessions \ {s} : newest'[u] = newest[u] /\ session'[u] = session[u]
  BY <1>1 DEF TypeOK
<1>6. \A u \in Sessions \ {s} : \A n, k : Kept(WebHeld, u, n, k) => Kept(WebHeld, u, n, k)'
  BY <1>1, <1>3, <1>5 DEF Kept, Exchange, Unrivalled, Stored
<1>7. \A k : Kept(WebHeld, s, 1, k)'
  BY <1>3, <1>4, <1>5 DEF Kept, Unrivalled
<1>8. CookieSafe(0)' /\ CookieSafe(key)'
  <2>1. PICK j : j = key
    OBVIOUS
  <2>2. Kept(WebHeld, s, 1, j)' /\ Kept(WebHeld, s, 1, 0)'
    BY <1>7
  <2>3. cookie'.session = s /\ cookie'.token = 1 /\ key' = j
    BY <1>1, <2>1
  <2> QED
    BY <2>2, <2>3 DEF CookieSafe, Kept, Exchange, Unrivalled, Stored
<1>9. ASSUME NEW t \in Tabs PROVE TabSafe(t)'
  <2>1. call[t].cookie # NoCookie => call[t].cookie.session \in Sessions \ {s}
    BY <1>2, TabTyped DEF WebInv, WebIssued
  <2> QED
    BY <1>1, <1>6, <1>8, <2>1, TabTyped DEF WebSafe, TabSafe
<1> QED
  BY <1>8, <1>9

LEMMA SafeLogout ==
    ASSUME WebInv, WebSafe, WebLogout, webRefusals = 0
    PROVE  CookieSafe(key)' /\ \A t \in Tabs : TabSafe(t)'
<1>1. cookie' = NoCookie /\ UNCHANGED <<key, stage, call, outcome, webLate, record, newest>> /\ cookie.session \in Sessions
  BY DEF WebLogout, Revoke, tabs, WebInv, WebShape, AdminTypeOK
<1>2. WebHeld' \subseteq WebHeld /\ CookieSafe(0)' /\ CookieSafe(key)'
  BY <1>1 DEF WebHeld, CookieSafe
<1>3. Calm
  BY <1>1 DEF WebLogout, Revoke, Calm, WebInv, IInv, TypeOK
<1>4. \A s \in Sessions : \A n, k : Kept(WebHeld, s, n, k) => Kept(WebHeld, s, n, k)'
  BY <1>2, <1>3, CalmKeeps
<1> QED
  BY <1>1, <1>2, <1>4, TabTyped DEF WebSafe, TabSafe

LEMMA WebSafeStep == ASSUME WebInv, WebInv', WebSafe, OneTab, AdminNext PROVE WebSafe'
<1> SUFFICES ASSUME webRefusals' = 0 PROVE CookieSafe(key)' /\ \A t \in Tabs : TabSafe(t)'
  BY DEF WebSafe
<1>0. webRefusals = 0 \/ \E t \in Tabs : WebThrottled(t)
  BY DEF AdminNext, ReadKey, Fetch, Served, Fails, Arrives, Finish, Close, WebServedLate, WebDropped,
         WebSignedIn, WebLogout
<1>1. ASSUME NEW t \in Tabs PROVE ~WebThrottled(t)
  BY DEF WebThrottled, WebInv, WebShape
<1>2. webRefusals = 0
  BY <1>0, <1>1
<1>3. ASSUME NEW t \in Tabs, ReadKey(t) \/ Fetch(t) \/ Served(t) \/ Arrives(t)
      PROVE  CookieSafe(key)' /\ \A u \in Tabs : TabSafe(u)'
  BY <1>2, <1>3, SafeReadKey, SafeFetch, SafeServed, SafeArrives
<1>4. ASSUME NEW t \in Tabs, Fails(t) \/ Close(t) PROVE CookieSafe(key)' /\ \A u \in Tabs : TabSafe(u)'
  <2>1. WebHeld = webLate \cup (IF stage[t] = "sent" THEN {WebRequest(call[t])} ELSE {})
    BY HeldOfTab
  <2>2. stage'[t] = "idle" /\ \A u \in Tabs : u = t
    BY <1>4 DEF Fails, Close, Leave, WebInv, WebShape, AdminTypeOK, OneTab
  <2>3. WebHeld' \subseteq webLate'
    BY <2>2 DEF WebHeld
  <2>4. WebHeld' \subseteq WebHeld
    BY <1>4, <2>1, <2>3 DEF Fails, Close
  <2> QED
    BY <1>2, <1>4, <2>4, SafeLeave DEF Fails, Close, browser
<1>5. ASSUME NEW t \in Tabs, Finish(t) PROVE CookieSafe(key)' /\ \A u \in Tabs : TabSafe(u)'
  <2>1. stage'[t] = "idle" /\ \A u \in Tabs : u = t
    BY <1>5 DEF Finish, Leave, WebInv, WebShape, AdminTypeOK, OneTab
  <2>2. WebHeld' \subseteq WebHeld
    BY <1>5, <2>1 DEF WebHeld, Finish
  <2>3. CookieSafe(0)
    BY <1>2, <1>5 DEF Finish, WebSafe, TabSafe
  <2> QED
    BY <1>2, <1>5, <2>2, <2>3, SafeLeave DEF Finish
<1>6. ASSUME NEW r \in webLate, WebServedLate(r) PROVE CookieSafe(key)' /\ \A t \in Tabs : TabSafe(t)'
  BY <1>2, <1>6, SafeServedLate
<1>7. ASSUME NEW r \in webLate, WebDropped(r) PROVE CookieSafe(key)' /\ \A t \in Tabs : TabSafe(t)'
  <2>1. WebHeld' \subseteq WebHeld /\ UNCHANGED <<cookie, key, stage, call, outcome, record, newest, session>>
    BY <1>7 DEF WebDropped, WebHeld, tabs, browser, server
  <2> QED
    BY <1>2, <2>1, SafeCalm DEF Calm
<1>8. ASSUME NEW s \in Sessions, WebSignedIn(s) PROVE CookieSafe(key)' /\ \A t \in Tabs : TabSafe(t)'
  BY <1>2, <1>8, SafeSignedIn
<1>9. CASE WebLogout
  BY <1>2, <1>9, SafeLogout
<1>10. ASSUME (\E s \in Sessions : Revoke(s) \/ Lapse(s)) \/ WindowPasses, UNCHANGED <<browser, tabs, webLate, webRefusals>>
       PROVE  CookieSafe(key)' /\ \A t \in Tabs : TabSafe(t)'
  <2>1. WebHeld' \subseteq WebHeld /\ UNCHANGED <<cookie, key, stage, call, outcome>>
    BY <1>10 DEF WebHeld, tabs, browser
  <2>2. Calm
    BY <1>10 DEF Calm, Revoke, Lapse, WindowPasses, WebInv, IInv, TypeOK
  <2> QED
    BY <1>2, <2>1, <2>2, SafeCalm
<1> QED
  BY <1>1, <1>3, <1>4, <1>5, <1>6, <1>7, <1>8, <1>9, <1>10 DEF AdminNext

-----------------------------------------------------------------------------
(* The administration web: results *)

LEMMA InitWebInv == AdminInit => WebInv /\ WebSafe
<1> SUFFICES ASSUME AdminInit PROVE WebInv /\ WebSafe
  OBVIOUS
<1>1. IInv /\ WebShape
  BY InitIInv, InitWebShape DEF AdminInit
<1>2. WebIssued /\ WebFromHere
  BY DEF AdminInit, Init, WebIssued, WebFromHere, RecordsFromHere, NoCall
<1>3. WebSafe
  BY DEF AdminInit, WebSafe, CookieSafe, TabSafe
<1> QED
  BY <1>1, <1>2, <1>3 DEF WebInv

LEMMA WebNextInv == WebInv /\ [AdminNext]_webVars => WebInv'
<1>1. ASSUME WebInv, AdminNext PROVE WebInv'
  <2>1. IInv'
    BY <1>1, WebServerStep, NextIInv DEF WebInv
  <2> QED
    BY <1>1, <2>1, WebTypesStep, WebIssuedStep DEF WebInv
<1>2. ASSUME WebInv, UNCHANGED webVars PROVE WebInv'
  <2>1. UNCHANGED <<server, cookie, key, webMinted, stage, call, outcome, webLate, webRefusals>>
    BY <1>2 DEF webVars, browser, tabs
  <2>2. IInv'
    BY <1>2, <2>1, NextIInv DEF WebInv
  <2>3. WebShape'
    BY <1>2, <2>1 DEF WebInv, WebShape, AdminTypeOK
  <2>4. WebIssued' /\ WebFromHere'
    BY <1>2, <2>1 DEF WebInv, WebIssued, WebFromHere, RecordsFromHere, Issued, server
  <2> QED
    BY <2>2, <2>3, <2>4 DEF WebInv
<1> QED
  BY <1>1, <1>2

LEMMA WebNextSafe == OneTab /\ WebInv /\ WebInv' /\ WebSafe /\ [AdminNext]_webVars => WebSafe'
<1>1. ASSUME WebInv, WebSafe, UNCHANGED webVars PROVE WebSafe'
  <2>1. UNCHANGED <<server, cookie, key, stage, call, outcome, webLate, webRefusals>>
    BY <1>1 DEF webVars, browser, tabs
  <2>2. WebHeld' \subseteq WebHeld /\ Calm
    BY <2>1 DEF WebHeld, Calm, server
  <2> QED
    BY <1>1, <2>1, <2>2, SafeCalm DEF WebSafe
<1> QED
  BY <1>1, WebSafeStep

\* Whatever the tabs do, the server sees a client it is made for: every step of theirs is a step
\* of SessionRotation or none (api-client.ts, refresh-cookie.service.ts).
THEOREM AdminSpecRunsOnTheServer == AdminSpec => Spec
<1>1. AdminInit => Init /\ WebInv
  BY InitWebInv DEF AdminInit
<1>2. WebInv /\ [AdminNext]_webVars => [Next]_server
  BY WebServerStep DEF WebInv, webVars
<1> QED
  BY <1>1, <1>2, WebNextInv, PTL DEF AdminSpec, Spec

\* The cookie, the key and the requests under way keep their types (api-client.ts).
THEOREM AdminSpecTypeOK == AdminSpec => []AdminTypeOK
<1>1. WebInv => AdminTypeOK
  BY DEF WebInv, WebShape
<1>2. AdminInit => WebInv
  BY InitWebInv
<1> QED
  BY <1>1, <1>2, WebNextInv, PTL DEF AdminSpec

\* In a browser with one tab, the cookie and the key kept together refresh a live session until the
\* rate limiter has refused a request, whatever is lost, late, closed or reloaded (api-client.ts).
THEOREM AdminSpecCookieKept == ASSUME OneTab PROVE AdminSpec => []CookieKept
<1>1. WebInv /\ WebSafe => CookieKept
  BY DEF WebInv, WebShape, AdminTypeOK, WebSafe, CookieSafe, Kept, Exchange, CookieKept, Keys
<1>2. AdminInit => WebInv /\ WebSafe
  BY InitWebInv
<1>3. WebInv /\ WebSafe /\ [AdminNext]_webVars => (WebInv /\ WebSafe)'
  BY WebNextInv, WebNextSafe
<1> QED
  BY <1>1, <1>2, <1>3, PTL DEF AdminSpec

-----------------------------------------------------------------------------
(* The resident app: types *)

Executions == [stage : Stages, entering : BOOLEAN,
               with : [session : Sessions \cup {"none"}, token : 0..MaxTokens, key : 0..MaxKeys]]

\* An execution has credentials while it asks for their successor and until that is stored.
WellFormed(x) ==
    /\ x \in Executions
    /\ x.stage = "sent" => x.with \in Credentials
    /\ x.stage = "answered" => x.with.session \in Sessions /\ x.with.token \in Tokens
    /\ x.stage \notin {"sent", "answered"} => x.with = NoCredentials
    /\ x.stage = "idle" => x = Idle
    /\ x.stage \in {"begun", "sent"} => x.entering = FALSE

AppShape ==
    /\ ResidentTypeOK
    /\ appMinted \in 0..MaxKeys
    /\ attempt \in [Attempts -> Executions]
    /\ \A a \in Attempts : WellFormed(attempt[a])

LEMMA NoneStored == NoCredentials \notin Credentials /\ NoCredentials.key = 0
BY BoundsPositive DEF NoCredentials, Credentials, Tokens

LEMMA AppRequestTyped ==
    ASSUME NEW c \in Credentials
    PROVE  /\ AppRequest(c) \in Requests /\ AppRequest(c).sameDevice = TRUE
           /\ AppRequest(c).session = c.session /\ AppRequest(c).token = c.token /\ AppRequest(c).key = c.key
BY DEF AppRequest, Requests, Credentials

LEMMA IdleFormed == WellFormed(Idle) /\ Idle.stage = "idle" /\ Idle.entering = FALSE
BY BoundsPositive DEF WellFormed, Executions, Idle, NoCredentials, Stages

\* What a move of the execution makes of it.
Moved(a, stage_, c) == [stage |-> stage_, entering |-> attempt[a].entering, with |-> c]

LEMMA MoveIs ==
    ASSUME AppShape, NEW a \in Attempts, NEW stage_, NEW c, Move(a, stage_, c)
    PROVE  attempt' = [attempt EXCEPT ![a] = Moved(a, stage_, c)]
<1>1. attempt[a] \in Executions /\ attempt \in [Attempts -> Executions]
  BY DEF AppShape
<1> DEFINE Stage == Stages \cup {stage_}
           With == [session : Sessions \cup {"none"}, token : 0..MaxTokens, key : 0..MaxKeys] \cup {c}
<1>2. attempt' \in [Attempts -> [stage : Stage, entering : BOOLEAN, with : With]]
  BY <1>1 DEF Move, Executions
<1>3. attempt'[a].stage = stage_ /\ attempt'[a].with = c /\ attempt'[a].entering = attempt[a].entering
  BY <1>1 DEF Move, Executions
<1>4. \A b \in Attempts \ {a} : attempt'[b] = attempt[b]
  BY <1>1 DEF Move, Executions
<1>5. attempt'[a] = Moved(a, stage_, c)
  BY <1>2, <1>3 DEF Moved
<1> QED
  BY <1>1, <1>2, <1>4, <1>5

\* One execution becomes another.
LEMMA ShapeStays ==
    ASSUME AppShape, NEW a \in Attempts, NEW x, WellFormed(x), attempt' = [attempt EXCEPT ![a] = x],
           ResidentTypeOK', appMinted' \in 0..MaxKeys
    PROVE  AppShape'
<1>1. x \in Executions /\ \A b \in Attempts : WellFormed(attempt[b])
  BY DEF WellFormed, AppShape
<1>2. attempt' \in [Attempts -> Executions] /\ \A b \in Attempts : attempt'[b] = x \/ attempt'[b] = attempt[b]
  BY <1>1 DEF AppShape
<1>3. \A b \in Attempts : WellFormed(attempt'[b])
  BY <1>1, <1>2
<1> QED
  BY <1>2, <1>3 DEF AppShape

LEMMA InitAppShape == ResidentInit => AppShape
<1> SUFFICES ASSUME ResidentInit PROVE AppShape
  OBVIOUS
<1>1. attempt \in [Attempts -> Executions] /\ \A a \in Attempts : attempt[a] = Idle
  BY IdleFormed DEF ResidentInit, WellFormed
<1> QED
  BY <1>1, IdleFormed, BoundsPositive DEF ResidentInit, AppShape, ResidentTypeOK, Stages

\* Every step of the device is a step of the server or none of it.
LEMMA AppServerStep == ASSUME AppShape, ResidentNext PROVE [Next]_server
<1>1. ASSUME NEW a \in Attempts, Answered(a) PROVE Next
  <2>1. attempt[a].with \in Credentials
    BY <1>1 DEF Answered, At, AppShape, WellFormed
  <2> QED
    BY <1>1, <2>1, AppRequestTyped DEF Answered, Next
<1>2. ASSUME NEW a \in Attempts,
             \/ BootTimer(a) \/ Retry(a) \/ Denied(a) \/ AppThrottled(a) \/ ReadStore(a) \/ GiveUp(a) \/ Save(a)
             \/ ProfileLoaded(a) \/ ProfileFails(a) \/ ProfileDenied(a) \/ Resume(a) \/ DeniedAgain(a)
      PROVE  UNCHANGED server
  BY <1>2 DEF BootTimer, Retry, Denied, AppThrottled, ReadStore, GiveUp, Save, ProfileLoaded, ProfileFails,
     ProfileDenied, Resume, DeniedAgain
<1>3. ASSUME NEW r \in appLate, AppServedLate(r) \/ AppDropped(r) PROVE [Next]_server
  BY <1>3 DEF AppServedLate, AppDropped, AppShape, ResidentTypeOK, Next
<1>4. ASSUME NEW a \in Attempts, NEW s \in Sessions, AppSignedIn(a, s) PROVE Next
  BY <1>4 DEF AppSignedIn, Next, Others
<1>5. CASE AppLogout
  <2>1. store.session \in Sessions
    BY <1>5 DEF AppLogout, AppShape, ResidentTypeOK, Credentials
  <2> QED
    BY <1>5, <2>1 DEF AppLogout, Next, Others
<1>6. CASE Outside \/ WindowPasses
  BY <1>6 DEF Outside, Next, Others
<1>7. CASE Restarted
  BY <1>7 DEF Restarted
<1> QED
  BY <1>1, <1>2, <1>3, <1>4, <1>5, <1>6, <1>7 DEF ResidentNext, Runs

\* The types of what is beside the executions.
Beside ==
    /\ store \in Credentials \cup {NoCredentials} /\ appMinted \in 0..MaxKeys
    /\ screen \in {"booting", "recovery-error", "authenticated", "signed-out"}
    /\ handler \in Attempts \cup {"none"} /\ appLate \subseteq Requests

LEMMA BesideOfShape == AppShape => Beside
BY DEF AppShape, ResidentTypeOK, Beside

LEMMA ShapeOfBeside ==
    ASSUME Beside, attempt \in [Attempts -> Executions], \A a \in Attempts : WellFormed(attempt[a])
    PROVE  AppShape
BY DEF Beside, AppShape, ResidentTypeOK, WellFormed, Executions

LEMMA BesideStays ==
    ASSUME AppShape, NEW a \in Attempts, NEW x, WellFormed(x), attempt' = [attempt EXCEPT ![a] = x], Beside'
    PROVE  AppShape'
<1>1. x \in Executions /\ x.stage \in Stages
  BY DEF WellFormed, Executions
<1>2. ResidentTypeOK'
  BY <1>1 DEF Beside, AppShape, ResidentTypeOK
<1> QED
  BY <1>2, ShapeStays DEF Beside

LEMMA AppTypesStep == ASSUME AppShape, IInv, IInv', ResidentNext PROVE AppShape'
<1>0. Beside /\ \A a \in Attempts : WellFormed(attempt[a]) /\ attempt[a] \in Executions
  BY BesideOfShape DEF AppShape, WellFormed
<1>1. ASSUME NEW a \in Attempts, BootTimer(a) \/ Retry(a) \/ Denied(a) PROVE AppShape'
  <2>1. attempt[a] = Idle
    BY <1>0, <1>1 DEF BootTimer, Retry, Denied, At, Quiet, WellFormed
  <2>2. Move(a, "begun", NoCredentials) /\ Beside'
    BY <1>0, <1>1 DEF BootTimer, Retry, Denied, Beside
  <2>3. WellFormed(Moved(a, "begun", NoCredentials))
    BY <2>1, IdleFormed DEF Moved, WellFormed, Executions, Idle, Stages
  <2> QED
    BY <2>2, <2>3, MoveIs, BesideStays
<1>2. ASSUME NEW a \in Attempts, ReadStore(a) PROVE AppShape'
  <2>1. CASE store = NoCredentials
    <3>1. End(a) /\ Beside'
      BY <1>0, <1>2, <2>1 DEF ReadStore, Beside, End
    <3> QED
      BY <3>1, IdleFormed, BesideStays DEF End
  <2>2. CASE store # NoCredentials
    <3>1. Move(a, "sent", store) /\ Beside' /\ store \in Credentials /\ attempt[a].stage = "begun"
      BY <1>0, <1>2, <2>2 DEF ReadStore, Beside, At
    <3>2. WellFormed(Moved(a, "sent", store))
      BY <1>0, <3>1 DEF Moved, WellFormed, Executions, Stages, Credentials, Tokens, Keys
    <3> QED
      BY <3>1, <3>2, MoveIs, BesideStays
  <2> QED
    BY <2>1, <2>2
<1>3. ASSUME NEW a \in Attempts, Answered(a) PROVE AppShape'
  <2>1. PICK c \in Credentials : c = attempt[a].with /\ attempt[a].stage = "sent" /\ attempt[a].entering = FALSE
    BY <1>0, <1>3 DEF Answered, At, WellFormed
  <2>2. PICK r \in Requests : r = AppRequest(c)
    BY AppRequestTyped
  <2>3. PICK x : x = ReplyIn(record', r)
    OBVIOUS
  <2>4. UNCHANGED <<appMinted, appLate>>
    BY <1>3 DEF Answered, bounds
  <2>5. CASE x.outcome = "rotated"
    <3>1. x.issued \in Tokens
      BY <2>3, <2>5, RotatedIsToken
    <3>2. Move(a, "answered", [c EXCEPT !.token = x.issued]) /\ UNCHANGED <<store, screen, handler>>
      <4>1. Move(a, "answered", [attempt[a].with EXCEPT !.token = ReplyIn(record', AppRequest(attempt[a].with)).issued])
        BY <1>3, <2>1, <2>2, <2>3, <2>5 DEF Answered
      <4>2. UNCHANGED <<store, screen, handler>>
        BY <1>3, <2>1, <2>2, <2>3, <2>5 DEF Answered
      <4> QED
        BY <2>1, <2>2, <2>3, <4>1, <4>2
    <3>3. WellFormed(Moved(a, "answered", [c EXCEPT !.token = x.issued]))
      <4>1. PICK d \in Credentials : d = [c EXCEPT !.token = x.issued]
        BY <2>1, <3>1 DEF Credentials
      <4>2. WellFormed(Moved(a, "answered", d))
        BY <1>0, <2>1, BoundsPositive DEF Moved, WellFormed, Executions, Stages, Credentials, Tokens, Keys
      <4> QED
        BY <4>1, <4>2
    <3>4. Beside'
      BY <1>0, <2>4, <3>2 DEF Beside
    <3> QED
      BY <3>2, <3>3, <3>4, MoveIs, BesideStays
  <2>6. CASE x.outcome # "rotated"
    <3>1. End(a) /\ store' \in {store, NoCredentials} /\ screen' \in {"signed-out", "recovery-error"}
      BY <1>3, <2>1, <2>2, <2>3, <2>6 DEF Answered
    <3>2. Beside'
      BY <1>0, <2>4, <3>1 DEF Beside, End
    <3> QED
      BY <3>1, <3>2, IdleFormed, BesideStays DEF End
  <2> QED
    BY <2>5, <2>6
<1>4. ASSUME NEW a \in Attempts, AppThrottled(a) \/ ProfileLoaded(a) \/ ProfileFails(a) \/ DeniedAgain(a) PROVE AppShape'
  <2>1. End(a) /\ Beside'
    BY <1>0, <1>4 DEF AppThrottled, ProfileLoaded, ProfileFails, DeniedAgain, Beside, End, bounds
  <2> QED
    BY <2>1, IdleFormed, BesideStays DEF End
<1>5. ASSUME NEW a \in Attempts, GiveUp(a) PROVE AppShape'
  <2>1. AppRequest(attempt[a].with) \in Requests
    BY <1>0, <1>5, AppRequestTyped DEF GiveUp, At, WellFormed
  <2>2. End(a) /\ Beside'
    BY <1>0, <1>5, <2>1 DEF GiveUp, Beside, End
  <2> QED
    BY <2>2, IdleFormed, BesideStays DEF End
<1>6. ASSUME NEW a \in Attempts, Save(a) PROVE AppShape'
  <2>1. attempt[a].stage = "answered" /\ attempt[a].with.session \in Sessions /\ attempt[a].with.token \in Tokens
    BY <1>0, <1>6 DEF Save, At, WellFormed
  <2>2. appMinted + 1 \in Keys /\ appMinted' = appMinted + 1
    BY <1>0, <1>6, BoundsPositive DEF Save, Beside, Keys
  <2>3. store' \in Credentials
    BY <1>0, <1>6, <2>1, <2>2 DEF Save, Executions, Credentials
  <2>4. Beside' /\ Move(a, "profile", NoCredentials)
    BY <1>0, <1>6, <2>2, <2>3 DEF Save, Beside, Keys
  <2>5. WellFormed(Moved(a, "profile", NoCredentials))
    BY <1>0, BoundsPositive DEF Moved, WellFormed, Executions, Stages, NoCredentials
  <2> QED
    BY <2>4, <2>5, MoveIs, BesideStays
<1>7. ASSUME NEW a \in Attempts, ProfileDenied(a) PROVE AppShape'
  <2>1. Beside' /\ attempt[a].stage = "profile"
    BY <1>0, <1>7 DEF ProfileDenied, Beside, At
  <2>2. WellFormed([attempt[a] EXCEPT !.stage = "joined"])
    BY <1>0, <2>1 DEF WellFormed, Executions, Stages
  <2>3. WellFormed([Idle EXCEPT !.stage = "begun"])
    BY IdleFormed DEF WellFormed, Executions, Stages, Idle
  <2>4. ASSUME NEW b \in Attempts \ {a}, At(b, "idle"),
               attempt' = [attempt EXCEPT ![a].stage = "joined", ![b].stage = "begun"]
        PROVE  AppShape'
    <3>1. attempt[b] = Idle
      BY <1>0, <2>4 DEF At, WellFormed
    <3>2. \A d \in Attempts : attempt'[d] \in {attempt[d], [attempt[a] EXCEPT !.stage = "joined"],
                                               [Idle EXCEPT !.stage = "begun"]}
      BY <2>4, <3>1 DEF AppShape
    <3>3. \A d \in Attempts : WellFormed(attempt'[d])
      BY <1>0, <2>2, <2>3, <3>2
    <3>4. \A d \in Attempts : attempt'[d] \in Executions
      BY <3>3 DEF WellFormed
    <3>5. attempt' \in [Attempts -> Executions]
      BY <2>4, <3>4 DEF AppShape
    <3> QED
      BY <2>1, <3>3, <3>5, ShapeOfBeside DEF Beside, AppShape, ResidentTypeOK, WellFormed, Executions
  <2>5. CASE attempt' = [attempt EXCEPT ![a].stage = "joined"]
    <3>1. attempt' = [attempt EXCEPT ![a] = [attempt[a] EXCEPT !.stage = "joined"]]
      BY <2>5 DEF AppShape
    <3> QED
      BY <2>1, <2>2, <3>1, BesideStays
  <2> QED
    BY <1>7, <2>4, <2>5 DEF ProfileDenied
<1>8. ASSUME NEW a \in Attempts, Resume(a) PROVE AppShape'
  <2>1. Beside' /\ attempt[a].stage = "joined" /\ attempt' = [attempt EXCEPT ![a] = [attempt[a] EXCEPT !.stage = "waiting"]]
    BY <1>0, <1>8 DEF Resume, Beside, At, AppShape
  <2>2. WellFormed([attempt[a] EXCEPT !.stage = "waiting"])
    BY <1>0, <2>1 DEF WellFormed, Executions, Stages
  <2> QED
    BY <2>1, <2>2, BesideStays
<1>9. ASSUME NEW r \in appLate, AppServedLate(r) \/ AppDropped(r) PROVE AppShape'
  <2>1. Beside' /\ UNCHANGED attempt
    BY <1>0, <1>9 DEF AppServedLate, AppDropped, Beside, app
  <2> QED
    BY <1>0, <2>1 DEF AppShape, Beside, ResidentTypeOK
<1>10. ASSUME NEW a \in Attempts, NEW s \in Sessions, AppSignedIn(a, s) PROVE AppShape'
  <2>1. Beside'
    BY <1>0, <1>10 DEF AppSignedIn, Beside
  <2>2. WellFormed([stage |-> "answered", entering |-> TRUE, with |-> [session |-> s, token |-> 1, key |-> 0]])
    BY BoundsPositive DEF WellFormed, Executions, Stages, Tokens
  <2> QED
    BY <1>10, <2>1, <2>2, BesideStays DEF AppSignedIn
<1>11. CASE AppLogout
  <2>1. Beside' /\ UNCHANGED attempt
    BY <1>0, <1>11 DEF AppLogout, Beside
  <2> QED
    BY <1>0, <2>1 DEF AppShape, Beside, ResidentTypeOK
<1>12. CASE Restarted
  <2>1. ASSUME NEW a \in Attempts, At(a, "sent") PROVE AppRequest(attempt[a].with) \in Requests
    BY <1>0, <2>1, AppRequestTyped DEF At, WellFormed
  <2>2. Beside'
    BY <1>0, <1>12, <2>1 DEF Restarted, Beside
  <2>3. attempt' \in [Attempts -> Executions] /\ \A a \in Attempts : attempt'[a] = Idle
    BY <1>12, IdleFormed DEF Restarted, WellFormed
  <2> QED
    BY <2>2, <2>3, IdleFormed DEF AppShape, Beside, ResidentTypeOK, Stages
<1>13. CASE UNCHANGED <<app, appLate, bounds>>
  <2>1. Beside' /\ UNCHANGED attempt
    BY <1>0, <1>13 DEF Beside, app
  <2> QED
    BY <1>0, <2>1 DEF AppShape, Beside, ResidentTypeOK
<1> QED
  BY <1>1, <1>2, <1>3, <1>4, <1>5, <1>6, <1>7, <1>8, <1>9, <1>10, <1>11, <1>12, <1>13 DEF ResidentNext, Runs

-----------------------------------------------------------------------------
(* The resident app: what is in hand *)

\* The execution has credentials; it is at work until its tokens are stored and used.
Carries(a) == attempt[a].stage \in {"sent", "answered"}
Busy(a) == attempt[a].stage \in {"begun", "sent", "answered", "profile"}

\* The requests of the device that the server may serve from now on.
AppHeld == appLate \cup {AppRequest(attempt[a].with) : a \in {b \in Attempts : At(b, "sent")}}

\* Every token in hand was issued and every request was sent by this device.
AppIssued ==
    /\ store # NoCredentials => Issued(store.session, store.token)
    /\ \A a \in Attempts : Carries(a) => Issued(attempt[a].with.session, attempt[a].with.token)
    /\ \A r \in AppHeld : Issued(r.session, r.token) /\ r.sameDevice = TRUE
    /\ RecordsFromHere

\* A key generated is new to the device and to the server.
AppMints ==
    /\ store # NoCredentials => store.key <= appMinted
    /\ \A r \in AppHeld : r.key <= appMinted
    /\ \A s \in Sessions : \A k \in Keys : record[s][k] # NoRecord => k <= appMinted

AppInv == IInv /\ AppShape /\ AppIssued /\ AppMints

\* What held of the server, at most less of it does.
Fading == Calm /\ \A s \in Sessions : Usable(s)' => Usable(s)

\* A step that puts nothing into the device's hands.
NothingNew ==
    /\ store' \in {store, NoCredentials} /\ appMinted' = appMinted
    /\ \A b \in Attempts : Carries(b)' => attempt'[b] = attempt[b]
    /\ AppHeld' \subseteq AppHeld

LEMMA AppHeldTyped == ASSUME AppShape PROVE AppHeld \in SUBSET Requests
<1>1. ASSUME NEW a \in Attempts, At(a, "sent") PROVE AppRequest(attempt[a].with) \in Requests
  BY <1>1, AppRequestTyped DEF At, AppShape, WellFormed
<1> QED
  BY <1>1 DEF AppHeld, AppShape, ResidentTypeOK

\* A request under way.
LEMMA SentIsHeld ==
    ASSUME AppShape, NEW a \in Attempts, At(a, "sent")
    PROVE  /\ AppRequest(attempt[a].with) \in AppHeld /\ attempt[a].with \in Credentials
           /\ AppRequest(attempt[a].with) \in Requests
BY AppRequestTyped DEF AppHeld, At, AppShape, WellFormed

\* One execution changes: of the requests held its own may go.
LEMMA HeldWithout ==
    ASSUME AppShape, NEW a \in Attempts, \A b \in Attempts \ {a} : attempt'[b] = attempt[b], ~At(a, "sent")',
           appLate' \subseteq AppHeld
    PROVE  AppHeld' \subseteq AppHeld
<1> SUFFICES ASSUME NEW r \in AppHeld', r \notin appLate' PROVE r \in AppHeld
  OBVIOUS
<1>1. PICK b \in Attempts : attempt'[b].stage = "sent" /\ r = AppRequest(attempt'[b].with)
  BY DEF AppHeld, At
<1>2. b # a
  BY <1>1 DEF At
<1> QED
  BY <1>1, <1>2 DEF AppHeld, At

\* An execution that ends.
LEMMA EndIs ==
    ASSUME AppShape, NEW a \in Attempts, End(a)
    PROVE  attempt'[a] = Idle /\ \A b \in Attempts \ {a} : attempt'[b] = attempt[b]
BY DEF End, AppShape

LEMMA EndNothingNew ==
    ASSUME AppShape, NEW a \in Attempts, End(a), store' \in {store, NoCredentials}, appMinted' = appMinted,
           appLate' = appLate \/ (At(a, "sent") /\ appLate' = appLate \cup {AppRequest(attempt[a].with)})
    PROVE  NothingNew
<1>1. attempt'[a] = Idle /\ \A b \in Attempts \ {a} : attempt'[b] = attempt[b]
  BY EndIs
<1>2. ~Carries(a)' /\ ~At(a, "sent")'
  BY <1>1 DEF Carries, At, Idle
<1>3. appLate' \subseteq AppHeld
  BY SentIsHeld DEF AppHeld
<1>4. AppHeld' \subseteq AppHeld
  BY <1>1, <1>2, <1>3, HeldWithout
<1> QED
  BY <1>1, <1>2, <1>4 DEF NothingNew

LEMMA MoveNothingNew ==
    ASSUME AppShape, NEW a \in Attempts, \A b \in Attempts \ {a} : attempt'[b] = attempt[b], ~Carries(a)',
           UNCHANGED <<store, appMinted, appLate>>
    PROVE  NothingNew
<1>1. ~At(a, "sent")' /\ appLate' \subseteq AppHeld
  BY DEF At, Carries, AppHeld
<1>2. AppHeld' \subseteq AppHeld
  BY <1>1, HeldWithout
<1> QED
  BY <1>2 DEF NothingNew

LEMMA StillFading == ASSUME UNCHANGED server PROVE Fading
BY DEF server, Fading, Calm, Usable

\* The steps that put nothing into the device's hands.
LEMMA AppQuiet ==
    ASSUME AppShape, IInv, NEW a \in Attempts,
           \/ BootTimer(a) \/ Retry(a) \/ Denied(a) \/ AppThrottled(a) \/ GiveUp(a)
           \/ ProfileLoaded(a) \/ ProfileFails(a) \/ ProfileDenied(a) \/ Resume(a) \/ DeniedAgain(a)
           \/ ReadStore(a) /\ store = NoCredentials
    PROVE  NothingNew /\ Fading
<1>1. CASE BootTimer(a) \/ Retry(a) \/ Denied(a)
  <2>1. Move(a, "begun", NoCredentials) /\ UNCHANGED <<server, store, appMinted, appLate>>
    BY <1>1 DEF BootTimer, Retry, Denied
  <2>2. attempt'[a].stage = "begun" /\ \A b \in Attempts \ {a} : attempt'[b] = attempt[b]
    BY <2>1, MoveIs DEF Moved, AppShape
  <2> QED
    BY <2>1, <2>2, MoveNothingNew, StillFading DEF Carries
<1>2. CASE \/ AppThrottled(a) \/ GiveUp(a) \/ ProfileLoaded(a) \/ ProfileFails(a) \/ DeniedAgain(a)
           \/ ReadStore(a) /\ store = NoCredentials
  <2>1. /\ End(a) /\ UNCHANGED server /\ store' \in {store, NoCredentials} /\ appMinted' = appMinted
        /\ appLate' = appLate \/ (At(a, "sent") /\ appLate' = appLate \cup {AppRequest(attempt[a].with)})
    BY <1>2 DEF AppThrottled, GiveUp, ProfileLoaded, ProfileFails, DeniedAgain, ReadStore
  <2> QED
    BY <2>1, EndNothingNew, StillFading
<1>3. CASE Resume(a)
  <2>1. attempt'[a].stage = "waiting" /\ \A b \in Attempts \ {a} : attempt'[b] = attempt[b]
    BY <1>3 DEF Resume, AppShape, Executions
  <2> QED
    BY <1>3, <2>1, MoveNothingNew, StillFading DEF Carries, Resume
<1>4. CASE ProfileDenied(a)
  <2>1. UNCHANGED <<server, store, appMinted, appLate>>
    BY <1>4 DEF ProfileDenied
  <2>2. \A d \in Attempts : Carries(d)' => attempt'[d] = attempt[d]
    BY <1>4 DEF ProfileDenied, Carries, AppShape, Executions
  <2>3. AppHeld' \subseteq AppHeld
    <3> SUFFICES ASSUME NEW r \in AppHeld', r \notin appLate' PROVE r \in AppHeld
      BY <2>1 DEF AppHeld
    <3>1. PICK d \in Attempts : attempt'[d].stage = "sent" /\ r = AppRequest(attempt'[d].with)
      BY DEF AppHeld, At
    <3> QED
      BY <2>2, <3>1 DEF AppHeld, At, Carries
  <2> QED
    BY <2>1, <2>2, <2>3, StillFading DEF NothingNew
<1> QED
  BY <1>1, <1>2, <1>3, <1>4

LEMMA OthersQuiet ==
    ASSUME AppShape, IInv,
           \/ AppLogout \/ Restarted \/ \E r \in appLate : AppDropped(r)
           \/ (Outside \/ WindowPasses) /\ UNCHANGED <<app, appLate, bounds>>
    PROVE  NothingNew /\ Fading
<1>1. CASE AppLogout
  <2>1. store' = NoCredentials /\ UNCHANGED <<appMinted, attempt, appLate>> /\ store.session \in Sessions
    BY <1>1 DEF AppLogout, AppShape, ResidentTypeOK, Credentials
  <2>2. Fading
    BY <1>1, <2>1 DEF AppLogout, Revoke, Fading, Calm, Usable, IInv, TypeOK, server
  <2>3. AppHeld' \subseteq AppHeld
    BY <2>1 DEF AppHeld, At
  <2> QED
    BY <2>1, <2>2, <2>3 DEF NothingNew
<1>2. CASE Restarted
  <2>1. /\ UNCHANGED <<server, store, appMinted>> /\ \A a \in Attempts : attempt'[a] = Idle
        /\ appLate' = AppHeld
    BY <1>2 DEF Restarted, AppHeld
  <2>2. \A a \in Attempts : ~Carries(a)' /\ ~At(a, "sent")'
    BY <2>1 DEF Carries, At, Idle
  <2>3. AppHeld' \subseteq AppHeld
    BY <2>1, <2>2 DEF AppHeld
  <2> QED
    BY <2>1, <2>2, <2>3, StillFading DEF NothingNew
<1>3. CASE \E r \in appLate : AppDropped(r)
  <2>1. UNCHANGED <<server, app>> /\ appLate' \subseteq appLate
    BY <1>3 DEF AppDropped
  <2>2. AppHeld' \subseteq AppHeld
    BY <2>1 DEF AppHeld, At, app
  <2> QED
    BY <2>1, <2>2, StillFading DEF NothingNew, app
<1>4. CASE (Outside \/ WindowPasses) /\ UNCHANGED <<app, appLate, bounds>>
  <2>1. AppHeld' \subseteq AppHeld /\ UNCHANGED <<store, appMinted, attempt>>
    BY <1>4 DEF AppHeld, At, app
  <2>2. Fading
    <3>1. ASSUME NEW s \in Sessions, Revoke(s) \/ Lapse(s) PROVE Fading
      BY <3>1 DEF Revoke, Lapse, Fading, Calm, Usable, IInv, TypeOK
    <3>2. CASE WindowPasses
      BY <3>2 DEF WindowPasses, Fading, Calm, Usable
    <3> QED
      BY <1>4, <3>1, <3>2 DEF Outside
  <2> QED
    BY <2>1, <2>2 DEF NothingNew
<1> QED
  BY <1>1, <1>2, <1>3, <1>4

\* The steps that do put something into the device's hands: the stored credentials are read,
LEMMA ReadStoreIs ==
    ASSUME AppShape, NEW a \in Attempts, ReadStore(a), store # NoCredentials
    PROVE  /\ At(a, "begun") /\ attempt'[a] = [stage |-> "sent", entering |-> FALSE, with |-> store]
           /\ \A b \in Attempts \ {a} : attempt'[b] = attempt[b]
           /\ AppHeld' \subseteq AppHeld \cup {AppRequest(store)}
           /\ store \in Credentials /\ UNCHANGED <<server, store, appMinted, screen, handler, appLate>>
<1>1. At(a, "begun") /\ Move(a, "sent", store) /\ UNCHANGED <<server, store, appMinted, screen, handler, appLate>>
  BY DEF ReadStore
<1>2. attempt[a].entering = FALSE /\ store \in Credentials
  BY <1>1 DEF At, AppShape, WellFormed, ResidentTypeOK
<1>3. attempt' = [attempt EXCEPT ![a] = [stage |-> "sent", entering |-> FALSE, with |-> store]]
  BY <1>1, <1>2, MoveIs DEF Moved
<1>4. /\ attempt'[a] = [stage |-> "sent", entering |-> FALSE, with |-> store]
      /\ \A b \in Attempts \ {a} : attempt'[b] = attempt[b]
  BY <1>3 DEF AppShape
<1>5. AppHeld' \subseteq AppHeld \cup {AppRequest(store)}
  <2> SUFFICES ASSUME NEW r \in AppHeld', r \notin appLate PROVE r \in AppHeld \/ r = AppRequest(store)
    BY <1>1 DEF AppHeld
  <2>1. PICK b \in Attempts : attempt'[b].stage = "sent" /\ r = AppRequest(attempt'[b].with)
    BY <1>1 DEF AppHeld, At
  <2> QED
    BY <1>4, <2>1 DEF AppHeld, At
<1> QED
  BY <1>1, <1>2, <1>4, <1>5

\* a request is answered,
LEMMA AnsweredIs ==
    ASSUME AppShape, NEW a \in Attempts, Answered(a), NEW r, r = AppRequest(attempt[a].with)
    PROVE  /\ At(a, "sent") /\ attempt[a].with \in Credentials /\ attempt[a].entering = FALSE
           /\ r \in Requests /\ r \in AppHeld /\ r.sameDevice = TRUE /\ Refresh(r)
           /\ r.session = attempt[a].with.session /\ r.token = attempt[a].with.token /\ r.key = attempt[a].with.key
           /\ appMinted' = appMinted /\ appLate' = appLate
<1>1. At(a, "sent") /\ attempt[a].with \in Credentials /\ attempt[a].entering = FALSE
  BY DEF Answered, At, AppShape, WellFormed
<1> QED
  BY <1>1, AppRequestTyped, SentIsHeld DEF Answered

\* by a token
LEMMA AnswerIs ==
    ASSUME AppShape, NEW a \in Attempts, Answered(a), NEW x, x = ReplyIn(record', AppRequest(attempt[a].with)),
           x.outcome = "rotated"
    PROVE  /\ attempt'[a].stage = "answered" /\ attempt'[a].entering = FALSE
           /\ attempt'[a].with.session = attempt[a].with.session /\ attempt'[a].with.token = x.issued
           /\ store' = store /\ screen' = screen /\ \A b \in Attempts \ {a} : attempt'[b] = attempt[b]
<1>1. PICK d : d = [attempt[a].with EXCEPT !.token = x.issued]
  OBVIOUS
<1>2. store' = store /\ screen' = screen /\ Move(a, "answered", d)
  <2>1. Move(a, "answered", [attempt[a].with EXCEPT !.token = ReplyIn(record', AppRequest(attempt[a].with)).issued])
    BY DEF Answered
  <2>2. UNCHANGED <<store, screen>>
    BY DEF Answered
  <2> QED
    BY <1>1, <2>1, <2>2
<1>3. attempt[a].with \in Credentials /\ attempt[a].entering = FALSE
  BY DEF Answered, At, AppShape, WellFormed
<1>4. attempt' = [attempt EXCEPT ![a] = [stage |-> "answered", entering |-> FALSE, with |-> d]]
  BY <1>2, <1>3, MoveIs DEF Moved
<1>5. d.session = attempt[a].with.session /\ d.token = x.issued
  BY <1>1, <1>3 DEF Credentials
<1> QED
  BY <1>2, <1>4, <1>5 DEF AppShape

\* or by a refusal,
LEMMA RefusalIs ==
    ASSUME AppShape, NEW a \in Attempts, Answered(a), NEW x, x = ReplyIn(record', AppRequest(attempt[a].with)),
           x.outcome # "rotated"
    PROVE  /\ attempt'[a] = Idle /\ \A b \in Attempts \ {a} : attempt'[b] = attempt[b]
           /\ \/ store' = NoCredentials /\ screen' = "signed-out"
              \/ store' = store /\ screen' = "recovery-error"
<1>1. End(a) /\ \/ store' = NoCredentials /\ screen' = "signed-out"
                \/ store' = store /\ screen' = "recovery-error"
  BY DEF Answered
<1> QED
  BY <1>1, EndIs

LEMMA AnsweredHeld == ASSUME AppShape, NEW a \in Attempts, Answered(a) PROVE AppHeld' \subseteq AppHeld
<1>1. PICK x : x = ReplyIn(record', AppRequest(attempt[a].with))
  OBVIOUS
<1>2. ~At(a, "sent")' /\ \A b \in Attempts \ {a} : attempt'[b] = attempt[b]
  <2>1. CASE x.outcome = "rotated"
    BY <1>1, <2>1, AnswerIs DEF At
  <2>2. CASE x.outcome # "rotated"
    BY <1>1, <2>2, RefusalIs DEF At, Idle
  <2> QED
    BY <2>1, <2>2
<1>3. appLate' \subseteq AppHeld
  BY DEF Answered, AppHeld
<1> QED
  BY <1>2, <1>3, HeldWithout

\* the successor is stored,
LEMMA SaveIs ==
    ASSUME AppShape, NEW a \in Attempts, Save(a)
    PROVE  /\ At(a, "answered") /\ store' \in Credentials /\ store'.session = attempt[a].with.session
           /\ store'.token = attempt[a].with.token /\ store'.key = appMinted + 1
           /\ attempt'[a].stage = "profile" /\ \A b \in Attempts \ {a} : attempt'[b] = attempt[b]
           /\ AppHeld' \subseteq AppHeld
           /\ appMinted' = appMinted + 1 /\ UNCHANGED <<server, screen, handler, appLate>>
<1>1. /\ At(a, "answered") /\ appMinted < MaxKeys /\ appMinted' = appMinted + 1
      /\ store' = [attempt[a].with EXCEPT !.key = appMinted + 1] /\ Move(a, "profile", NoCredentials)
      /\ UNCHANGED <<server, screen, handler, appLate>>
  BY DEF Save
<1>2. attempt[a] \in Executions /\ attempt[a].with.session \in Sessions /\ attempt[a].with.token \in Tokens
  BY <1>1 DEF At, AppShape, WellFormed
<1>3. appMinted + 1 \in Keys
  BY <1>1, BoundsPositive DEF AppShape, Keys
<1>4. /\ store' \in Credentials /\ store'.session = attempt[a].with.session
      /\ store'.token = attempt[a].with.token /\ store'.key = appMinted + 1
  BY <1>1, <1>2, <1>3 DEF Executions, Credentials
<1>5. attempt' = [attempt EXCEPT ![a] = Moved(a, "profile", NoCredentials)]
  BY <1>1, MoveIs
<1>6. attempt'[a].stage = "profile" /\ \A b \in Attempts \ {a} : attempt'[b] = attempt[b]
  BY <1>5 DEF Moved, AppShape
<1>7. AppHeld' \subseteq AppHeld
  BY <1>1, <1>6, HeldWithout DEF At, AppHeld
<1> QED
  BY <1>1, <1>4, <1>6, <1>7

\* a session is opened, which nothing in hand is of, or a late request is served.
LEMMA SignedInIs ==
    ASSUME AppShape, IInv, NEW a \in Attempts, NEW s \in Sessions, AppSignedIn(a, s)
    PROVE  /\ screen = "signed-out" /\ Quiet /\ UNCHANGED <<store, appMinted, screen, handler, appLate, record>>
           /\ attempt'[a].stage = "answered" /\ attempt'[a].entering = TRUE
           /\ attempt'[a].with.session = s /\ attempt'[a].with.token = 1
           /\ \A b \in Attempts \ {a} : attempt'[b] = attempt[b]
           /\ AppHeld' \subseteq AppHeld
           /\ newest[s] = 0 /\ newest'[s] = 1
           /\ \A u \in Sessions \ {s} : newest'[u] = newest[u] /\ session'[u] = session[u] /\ (Usable(u)' => Usable(u))
<1>1. /\ screen = "signed-out" /\ Quiet /\ UNCHANGED <<store, appMinted, screen, handler, appLate>> /\ SignIn(s)
      /\ attempt' = [attempt EXCEPT ![a] = [stage |-> "answered", entering |-> TRUE,
                                           with |-> [session |-> s, token |-> 1, key |-> 0]]]
  BY DEF AppSignedIn
<1>2. /\ attempt'[a].stage = "answered" /\ attempt'[a].entering = TRUE
      /\ attempt'[a].with.session = s /\ attempt'[a].with.token = 1
      /\ \A b \in Attempts \ {a} : attempt'[b] = attempt[b]
  BY <1>1 DEF AppShape
<1>3. AppHeld' \subseteq AppHeld
  BY <1>1, <1>2, HeldWithout DEF At, AppHeld
<1>4. /\ record' = record /\ newest[s] = 0 /\ newest'[s] = 1
      /\ \A u \in Sessions \ {s} : newest'[u] = newest[u] /\ session'[u] = session[u] /\ (Usable(u)' => Usable(u))
  BY <1>1 DEF SignIn, IInv, TypeOK, Numbered, Usable
<1> QED
  BY <1>1, <1>2, <1>3, <1>4

LEMMA ServedLateIs ==
    ASSUME AppShape, NEW r \in appLate, AppServedLate(r)
    PROVE  r \in Requests /\ r \in AppHeld /\ Refresh(r) /\ UNCHANGED <<app, appLate>> /\ AppHeld' \subseteq AppHeld
BY DEF AppServedLate, AppShape, ResidentTypeOK, AppHeld, At, app

\* A step puts nothing into the device's hands or is one of these.
LEMMA AppKinds ==
    ASSUME AppShape, IInv, ResidentNext
    PROVE  \/ NothingNew /\ Fading
           \/ \E a \in Attempts : \/ ReadStore(a) /\ store # NoCredentials
                                  \/ Answered(a) \/ Save(a) \/ \E s \in Sessions : AppSignedIn(a, s)
           \/ \E r \in appLate : AppServedLate(r)
<1>1. ASSUME NEW a \in Attempts,
             \/ BootTimer(a) \/ Retry(a) \/ Denied(a) \/ AppThrottled(a) \/ GiveUp(a)
             \/ ProfileLoaded(a) \/ ProfileFails(a) \/ ProfileDenied(a) \/ Resume(a) \/ DeniedAgain(a)
             \/ ReadStore(a) /\ store = NoCredentials
      PROVE  NothingNew /\ Fading
  BY <1>1, AppQuiet
<1>2. CASE \/ AppLogout \/ Restarted \/ \E r \in appLate : AppDropped(r)
           \/ (Outside \/ WindowPasses) /\ UNCHANGED <<app, appLate, bounds>>
  BY <1>2, OthersQuiet
<1> QED
  BY <1>1, <1>2 DEF ResidentNext, Runs

LEMMA AppIssuedStep == ASSUME AppInv, IInv', AppShape', ResidentNext PROVE AppIssued' /\ AppMints'
<1>0. /\ AppShape /\ IInv /\ TypeOK /\ AppIssued /\ AppMints /\ [Next]_server /\ appMinted \in Nat
      /\ \A s, n : Issued(s, n) => Issued(s, n)'
  BY AppServerStep, IssuedStays DEF AppInv, IInv, AppShape
<1>1. CASE NothingNew /\ Fading
  BY <1>0, <1>1 DEF NothingNew, Fading, Calm, Carries, AppIssued, AppMints, RecordsFromHere
<1>2. ASSUME NEW a \in Attempts, ReadStore(a), store # NoCredentials PROVE AppIssued' /\ AppMints'
  <2>1. PICK q : q = AppRequest(store)
    OBVIOUS
  <2>2. Issued(q.session, q.token) /\ q.sameDevice = TRUE /\ q.key <= appMinted
    BY <1>0, <1>2, <2>1, ReadStoreIs, AppRequestTyped DEF AppIssued, AppMints
  <2>3. AppHeld' \subseteq AppHeld \cup {q} /\ UNCHANGED <<store, appMinted, record>>
    BY <1>0, <1>2, <2>1, ReadStoreIs DEF server
  <2>4. \A b \in Attempts : Carries(b)' => (Carries(b) /\ attempt'[b] = attempt[b]) \/ attempt'[b].with = store
    BY <1>0, <1>2, ReadStoreIs DEF Carries
  <2> QED
    BY <1>0, <1>2, <2>2, <2>3, <2>4 DEF AppIssued, AppMints, RecordsFromHere
<1>3. ASSUME NEW a \in Attempts, Answered(a) PROVE AppIssued' /\ AppMints'
  <2>1. PICK r : r = AppRequest(attempt[a].with)
    OBVIOUS
  <2>2. PICK x : x = ReplyIn(record', r)
    OBVIOUS
  <2>3. /\ r \in Requests /\ r \in AppHeld /\ r.sameDevice = TRUE /\ Refresh(r) /\ appMinted' = appMinted
        /\ r.session = attempt[a].with.session /\ AppHeld' \subseteq AppHeld
    BY <1>0, <1>3, <2>1, AnsweredIs, AnsweredHeld
  <2>4. RecordsFromHere'
    BY <1>0, <2>3, ServedFromHere DEF AppIssued
  <2>5. \A s \in Sessions : \A k \in Keys : record'[s][k] # NoRecord => k <= appMinted
    BY <1>0, <2>3, RefreshRecords DEF AppMints
  <2>6. CASE x.outcome = "rotated"
    <3>1. /\ attempt'[a].with.session = r.session /\ attempt'[a].with.token = x.issued /\ store' = store
          /\ \A b \in Attempts \ {a} : attempt'[b] = attempt[b]
      BY <1>0, <1>3, <2>1, <2>2, <2>3, <2>6, AnswerIs
    <3>2. Issued(r.session, x.issued)'
      BY <2>2, <2>3, <2>6, AnswerIssued
    <3> QED
      BY <1>0, <2>3, <2>4, <2>5, <3>1, <3>2 DEF AppIssued, AppMints, Carries
  <2>7. CASE x.outcome # "rotated"
    <3>1. attempt'[a] = Idle /\ store' \in {store, NoCredentials} /\ \A b \in Attempts \ {a} : attempt'[b] = attempt[b]
      BY <1>0, <1>3, <2>1, <2>2, <2>7, RefusalIs
    <3> QED
      BY <1>0, <2>3, <2>4, <2>5, <3>1 DEF AppIssued, AppMints, Carries, Idle
  <2> QED
    BY <2>6, <2>7
<1>4. ASSUME NEW a \in Attempts, Save(a) PROVE AppIssued' /\ AppMints'
  <2>1. /\ Carries(a) /\ store'.session = attempt[a].with.session /\ store'.token = attempt[a].with.token
        /\ store'.key = appMinted + 1 /\ appMinted' = appMinted + 1 /\ AppHeld' \subseteq AppHeld /\ record' = record
    BY <1>0, <1>4, SaveIs DEF Carries, At, server
  <2>2. \A b \in Attempts : Carries(b)' => Carries(b) /\ attempt'[b] = attempt[b]
    BY <1>0, <1>4, SaveIs DEF Carries
  <2>3. \A r \in AppHeld : r.key \in Nat
    BY <1>0, AppHeldTyped DEF Requests, Keys
  <2>4. AppMints'
    BY <1>0, <2>1, <2>3 DEF AppMints, Keys
  <2> QED
    BY <1>0, <2>1, <2>2, <2>4 DEF AppIssued, RecordsFromHere
<1>5. ASSUME NEW a \in Attempts, NEW s \in Sessions, AppSignedIn(a, s) PROVE AppIssued' /\ AppMints'
  <2>1. /\ UNCHANGED <<store, appMinted, record>> /\ AppHeld' \subseteq AppHeld /\ newest'[s] = 1
        /\ attempt'[a].with.session = s /\ attempt'[a].with.token = 1
        /\ \A b \in Attempts \ {a} : attempt'[b] = attempt[b]
    BY <1>0, <1>5, SignedInIs
  <2>2. Issued(s, 1)'
    BY <2>1, BoundsPositive DEF Issued, Tokens
  <2> QED
    BY <1>0, <2>1, <2>2 DEF AppIssued, AppMints, RecordsFromHere, Carries
<1>6. ASSUME NEW r \in appLate, AppServedLate(r) PROVE AppIssued' /\ AppMints'
  <2>1. r \in Requests /\ r \in AppHeld /\ Refresh(r) /\ UNCHANGED <<app, appLate>> /\ AppHeld' \subseteq AppHeld
    BY <1>0, <1>6, ServedLateIs
  <2>2. RecordsFromHere'
    BY <1>0, <2>1, ServedFromHere DEF AppIssued
  <2>3. \A s \in Sessions : \A k \in Keys : record'[s][k] # NoRecord => k <= appMinted
    BY <1>0, <2>1, RefreshRecords DEF AppMints
  <2> QED
    BY <1>0, <2>1, <2>2, <2>3 DEF AppIssued, AppMints, app, Carries
<1> QED
  BY <1>0, <1>1, <1>2, <1>3, <1>4, <1>5, <1>6, AppKinds

-----------------------------------------------------------------------------
(* The resident app: executions that overlap *)

InHand(s) ==
    \/ store # NoCredentials /\ store.session = s
    \/ \E a \in Attempts : Carries(a) /\ attempt[a].with.session = s

\* Two executions are at work only if what is in hand can no longer be refreshed: while it can,
\* a 401 comes to one execution at a time, and so does Retry.
OneAtWork ==
    \A a, b \in Attempts : a # b /\ Busy(a) /\ Busy(b) => \A s \in Sessions : InHand(s) => ~Usable(s)

\* An execution refreshes the session stored; a sign-in is alone.
OfOneSession ==
    \A a \in Attempts : Carries(a) =>
        /\ screen = "authenticated" => store # NoCredentials
        /\ IF attempt[a].entering
           THEN screen = "signed-out" /\ \A b \in Attempts \ {a} : At(b, "idle")
           ELSE \A s : InHand(s) => s = attempt[a].with.session

LEMMA RefreshFades ==
    ASSUME IInv, NEW r \in Requests, Refresh(r), NEW s \in Sessions, Usable(s)' PROVE Usable(s)
BY RefreshOfLive DEF Usable

\* Apart from a sign-in no step puts another session into the device's hands,
LEMMA HandFades ==
    ASSUME AppShape, NEW s, InHand(s)',
           \/ NothingNew
           \/ \E a \in Attempts : (ReadStore(a) /\ store # NoCredentials) \/ Answered(a) \/ Save(a)
           \/ \E r \in appLate : AppServedLate(r)
    PROVE  InHand(s)
<1>1. CASE NothingNew
  BY <1>1 DEF NothingNew, InHand, Carries
<1>2. ASSUME NEW a \in Attempts, ReadStore(a), store # NoCredentials PROVE InHand(s)
  BY <1>2, ReadStoreIs DEF InHand, Carries
<1>3. ASSUME NEW a \in Attempts, Answered(a) PROVE InHand(s)
  <2>1. PICK x : x = ReplyIn(record', AppRequest(attempt[a].with))
    OBVIOUS
  <2>2. Carries(a)
    BY <1>3 DEF Answered, At, Carries
  <2>3. CASE x.outcome = "rotated"
    <3>1. /\ attempt'[a].with.session = attempt[a].with.session /\ store' = store
          /\ \A b \in Attempts \ {a} : attempt'[b] = attempt[b]
      BY <1>3, <2>1, <2>3, AnswerIs
    <3> QED
      BY <2>2, <3>1 DEF InHand, Carries
  <2>4. CASE x.outcome # "rotated"
    <3>1. attempt'[a] = Idle /\ store' \in {store, NoCredentials} /\ \A b \in Attempts \ {a} : attempt'[b] = attempt[b]
      BY <1>3, <2>1, <2>4, RefusalIs
    <3> QED
      BY <3>1 DEF InHand, Carries, Idle
  <2> QED
    BY <2>3, <2>4
<1>4. ASSUME NEW a \in Attempts, Save(a) PROVE InHand(s)
  <2>1. /\ Carries(a) /\ store'.session = attempt[a].with.session /\ attempt'[a].stage = "profile"
        /\ \A b \in Attempts \ {a} : attempt'[b] = attempt[b]
    BY <1>4, SaveIs DEF Carries, At
  <2> QED
    BY <2>1 DEF InHand, Carries
<1>5. ASSUME NEW r \in appLate, AppServedLate(r) PROVE InHand(s)
  BY <1>5 DEF AppServedLate, app, InHand, Carries
<1> QED
  BY <1>1, <1>2, <1>3, <1>4, <1>5

\* nor, apart from what starts refreshSession, another execution to work.
LEMMA WorkFades ==
    ASSUME OneAtWork, \A b \in Attempts : Busy(b)' => Busy(b), \A s : InHand(s)' => InHand(s),
           \A s \in Sessions : Usable(s)' => Usable(s)
    PROVE  OneAtWork'
BY DEF OneAtWork

LEMMA OneAtWorkStep == ASSUME AppInv, OneAtWork, OfOneSession, ~Impatient, ResidentNext PROVE OneAtWork'
<1>0. AppShape /\ IInv
  BY DEF AppInv
<1> DEFINE Fades == \A s \in Sessions : Usable(s)' => Usable(s)
<1>1. ASSUME NEW a \in Attempts, BootTimer(a) \/ Retry(a) \/ Denied(a) PROVE OneAtWork'
  <2>1. NothingNew /\ Fading /\ \A s : InHand(s)' => InHand(s)
    BY <1>0, <1>1, AppQuiet, HandFades
  <2>2. \A b \in Attempts \ {a} : attempt'[b] = attempt[b]
    BY <1>1 DEF BootTimer, Retry, Denied, Move, AppShape, AppInv
  <2>3. CASE Quiet
    <3>1. \A b \in Attempts \ {a} : ~Busy(b)'
      BY <2>2, <2>3 DEF Quiet, At, Busy
    <3> QED
      BY <3>1 DEF OneAtWork
  <2>4. CASE ~Quiet
    <3>1. screen = "authenticated" /\ ~Live
      BY <1>1, <2>4 DEF BootTimer, Retry, Denied
    <3>2. ASSUME NEW s \in Sessions, InHand(s) PROVE ~Usable(s)
      <4>1. CASE store # NoCredentials /\ store.session = s
        BY <3>1, <4>1 DEF Live
      <4>2. ASSUME NEW c \in Attempts, Carries(c), attempt[c].with.session = s PROVE ~Usable(s)
        <5>1. store # NoCredentials /\ ~attempt[c].entering
          BY <3>1, <4>2 DEF OfOneSession
        <5>2. store.session = s
          BY <4>2, <5>1 DEF OfOneSession, InHand
        <5> QED
          BY <3>1, <5>1, <5>2 DEF Live
      <4> QED
        BY <3>2, <4>1, <4>2 DEF InHand
    <3> QED
      BY <2>1, <3>2 DEF OneAtWork, Fading
  <2> QED
    BY <2>3, <2>4
<1>2. ASSUME NEW a \in Attempts, ProfileDenied(a) PROVE OneAtWork'
  <2>1. NothingNew /\ Fading /\ \A s : InHand(s)' => InHand(s)
    BY <1>0, <1>2, AppQuiet, HandFades
  <2>2. At(a, "profile") /\ Busy(a)
    BY <1>2 DEF ProfileDenied, At, Busy
  <2>3. ASSUME NEW b \in Attempts \ {a}, attempt' = [attempt EXCEPT ![a].stage = "joined", ![b].stage = "begun"]
        PROVE  OneAtWork'
    <3>1. /\ attempt'[a].stage = "joined" /\ attempt'[b].stage = "begun"
          /\ \A c \in Attempts \ {a, b} : attempt'[c] = attempt[c]
      BY <1>0, <2>3 DEF AppShape, Executions
    <3>2. ~Busy(a)' /\ \A c \in Attempts \ {a, b} : Busy(c)' => Busy(c)
      BY <3>1 DEF Busy
    <3> QED
      BY <2>1, <2>2, <3>2 DEF OneAtWork, Fading
  <2>4. CASE attempt' = [attempt EXCEPT ![a].stage = "joined"]
    <3>1. \A c \in Attempts : Busy(c)' => Busy(c)
      BY <1>0, <2>4 DEF Busy, AppShape, Executions
    <3> QED
      BY <2>1, <3>1, WorkFades DEF Fading
  <2> QED
    BY <1>2, <2>3, <2>4 DEF ProfileDenied
<1>3. ASSUME NEW a \in Attempts,
             \/ AppThrottled(a) \/ GiveUp(a) \/ ProfileLoaded(a) \/ ProfileFails(a) \/ DeniedAgain(a) \/ Resume(a)
             \/ ReadStore(a) /\ store = NoCredentials
      PROVE  OneAtWork'
  <2>1. NothingNew /\ Fading /\ \A s : InHand(s)' => InHand(s)
    BY <1>0, <1>3, AppQuiet, HandFades
  <2>2. \A b \in Attempts : Busy(b)' => Busy(b)
    <3>1. CASE Resume(a)
      BY <1>0, <3>1 DEF Resume, Busy, AppShape, Executions
    <3>2. CASE ~Resume(a)
      <4>1. End(a)
        BY <1>3, <3>2 DEF AppThrottled, GiveUp, ProfileLoaded, ProfileFails, DeniedAgain, ReadStore
      <4> QED
        BY <1>0, <4>1, EndIs DEF Busy, Idle
    <3> QED
      BY <3>1, <3>2
  <2> QED
    BY <2>1, <2>2, WorkFades DEF Fading
<1>4. CASE \/ AppLogout \/ Restarted \/ \E r \in appLate : AppDropped(r)
           \/ (Outside \/ WindowPasses) /\ UNCHANGED <<app, appLate, bounds>>
  <2>1. NothingNew /\ Fading /\ \A s : InHand(s)' => InHand(s)
    BY <1>0, <1>4, OthersQuiet, HandFades
  <2>2. \A b \in Attempts : Busy(b)' => Busy(b)
    BY <1>4 DEF AppLogout, Restarted, AppDropped, app, Busy, Idle
  <2> QED
    BY <2>1, <2>2, WorkFades DEF Fading
<1>5. ASSUME NEW a \in Attempts, ReadStore(a), store # NoCredentials PROVE OneAtWork'
  <2>1. \A s : InHand(s)' => InHand(s)
    BY <1>0, <1>5, HandFades
  <2>2. \A b \in Attempts : Busy(b)' => Busy(b)
    BY <1>0, <1>5, ReadStoreIs DEF Busy, At
  <2>3. Fades
    BY <1>0, <1>5, ReadStoreIs DEF server, Usable
  <2> QED
    BY <2>1, <2>2, <2>3, WorkFades
<1>6. ASSUME NEW a \in Attempts, Answered(a) PROVE OneAtWork'
  <2>1. \A s : InHand(s)' => InHand(s)
    BY <1>0, <1>6, HandFades
  <2>2. PICK x : x = ReplyIn(record', AppRequest(attempt[a].with))
    OBVIOUS
  <2>3. \A b \in Attempts : Busy(b)' => Busy(b)
    <3>1. Busy(a)
      BY <1>6 DEF Answered, At, Busy
    <3>2. CASE x.outcome = "rotated"
      BY <1>0, <1>6, <2>2, <3>1, <3>2, AnswerIs DEF Busy
    <3>3. CASE x.outcome # "rotated"
      BY <1>0, <1>6, <2>2, <3>1, <3>3, RefusalIs DEF Busy
    <3> QED
      BY <3>2, <3>3
  <2>4. Fades
    <3>1. PICK r \in Requests : Refresh(r)
      BY <1>0, <1>6, AnsweredIs
    <3> QED
      BY <1>0, <3>1, RefreshFades
  <2> QED
    BY <2>1, <2>3, <2>4, WorkFades
<1>7. ASSUME NEW a \in Attempts, Save(a) PROVE OneAtWork'
  <2>1. \A s : InHand(s)' => InHand(s)
    BY <1>0, <1>7, HandFades
  <2>2. \A b \in Attempts : Busy(b)' => Busy(b)
    BY <1>0, <1>7, SaveIs DEF Busy, At
  <2>3. Fades
    BY <1>0, <1>7, SaveIs DEF server, Usable
  <2> QED
    BY <2>1, <2>2, <2>3, WorkFades
<1>8. ASSUME NEW a \in Attempts, NEW s \in Sessions, AppSignedIn(a, s) PROVE OneAtWork'
  <2>1. Quiet /\ \A b \in Attempts \ {a} : attempt'[b] = attempt[b]
    BY <1>0, <1>8, SignedInIs
  <2>2. \A b \in Attempts \ {a} : ~Busy(b)'
    BY <2>1 DEF Quiet, At, Busy
  <2> QED
    BY <2>2 DEF OneAtWork
<1>9. ASSUME NEW r \in appLate, AppServedLate(r) PROVE OneAtWork'
  <2>1. r \in Requests /\ Refresh(r) /\ UNCHANGED app /\ \A s : InHand(s)' => InHand(s)
    BY <1>0, <1>9, ServedLateIs, HandFades
  <2>2. Fades /\ \A b \in Attempts : Busy(b)' => Busy(b)
    BY <1>0, <2>1, RefreshFades DEF app, Busy
  <2> QED
    BY <2>1, <2>2, WorkFades
<1> QED
  BY <1>1, <1>2, <1>3, <1>4, <1>5, <1>6, <1>7, <1>8, <1>9 DEF ResidentNext, Runs

\* A step that leaves no sign-in under way.
LEMMA OneSessionFades ==
    ASSUME OfOneSession, \A b \in Attempts : Carries(b)' => attempt'[b] = attempt[b] /\ ~attempt[b].entering,
           \A s : InHand(s)' => InHand(s),
           \A b \in Attempts : Carries(b) /\ screen' = "authenticated" => store' # NoCredentials
    PROVE  OfOneSession'
<1> SUFFICES ASSUME NEW b \in Attempts, Carries(b)'
             PROVE  /\ screen' = "authenticated" => store' # NoCredentials
                    /\ ~attempt'[b].entering /\ \A s : InHand(s)' => s = attempt'[b].with.session
  BY DEF OfOneSession
<1>1. Carries(b) /\ attempt'[b] = attempt[b] /\ ~attempt[b].entering
  BY DEF Carries
<1> QED
  BY <1>1 DEF OfOneSession

LEMMA OfOneSessionStep == ASSUME AppInv, OfOneSession, ResidentNext PROVE OfOneSession'
<1>0. AppShape /\ IInv
  BY DEF AppInv
<1>1. ASSUME NEW a \in Attempts,
             \/ BootTimer(a) \/ Retry(a) \/ Denied(a) \/ AppThrottled(a) \/ GiveUp(a)
             \/ ProfileLoaded(a) \/ ProfileFails(a) \/ ProfileDenied(a) \/ Resume(a) \/ DeniedAgain(a)
             \/ ReadStore(a) /\ store = NoCredentials
      PROVE  OfOneSession'
  <2>1. NothingNew /\ \A s : InHand(s)' => InHand(s)
    BY <1>0, <1>1, AppQuiet, HandFades
  <2>2. screen # "signed-out" \/ ~At(a, "idle")
    BY <1>1 DEF BootTimer, Retry, Denied, AppThrottled, GiveUp, ProfileLoaded, ProfileFails, ProfileDenied, Resume,
       DeniedAgain, ReadStore, At
  <2>3. attempt'[a] # attempt[a] \/ ~Carries(a)
    <3>1. CASE BootTimer(a) \/ Retry(a) \/ Denied(a) \/ ProfileLoaded(a) \/ ProfileFails(a) \/ ProfileDenied(a)
               \/ Resume(a) \/ DeniedAgain(a) \/ ReadStore(a)
      BY <3>1 DEF BootTimer, Retry, Denied, ProfileLoaded, ProfileFails, ProfileDenied, Resume, DeniedAgain, ReadStore,
         At, Quiet, Carries
    <3>2. CASE AppThrottled(a) \/ GiveUp(a)
      <4>1. At(a, "sent") /\ attempt'[a] = Idle
        BY <1>0, <3>2, EndIs DEF AppThrottled, GiveUp
      <4> QED
        BY <4>1 DEF At, Idle
    <3> QED
      BY <1>1, <3>1, <3>2
  <2>4. \A b \in Attempts : Carries(b)' => attempt'[b] = attempt[b] /\ ~attempt[b].entering
    <3> SUFFICES ASSUME NEW b \in Attempts, Carries(b)' PROVE attempt'[b] = attempt[b] /\ ~attempt[b].entering
      OBVIOUS
    <3>1. attempt'[b] = attempt[b] /\ Carries(b)
      BY <2>1 DEF NothingNew, Carries
    <3>2. b # a
      BY <2>3, <3>1
    <3> QED
      BY <2>2, <3>1, <3>2 DEF OfOneSession
  <2>5. \A b \in Attempts : Carries(b) /\ screen' = "authenticated" => store' # NoCredentials
    BY <1>1 DEF BootTimer, Retry, Denied, AppThrottled, GiveUp, ProfileLoaded, ProfileFails, ProfileDenied, Resume,
       DeniedAgain, ReadStore, OfOneSession, Live
  <2> QED
    BY <2>1, <2>4, <2>5, OneSessionFades
<1>2. CASE AppLogout
  <2>1. NothingNew /\ \A s : InHand(s)' => InHand(s)
    BY <1>0, <1>2, OthersQuiet, HandFades
  <2>2. screen = "authenticated" /\ screen' = "signed-out"
    BY <1>2 DEF AppLogout
  <2>3. \A b \in Attempts : Carries(b)' => attempt'[b] = attempt[b] /\ ~attempt[b].entering
    BY <2>1, <2>2 DEF NothingNew, Carries, OfOneSession
  <2> QED
    BY <2>1, <2>2, <2>3, OneSessionFades
<1>3. CASE Restarted
  BY <1>3 DEF Restarted, OfOneSession, Carries, Idle
<1>4. CASE UNCHANGED app
  BY <1>4 DEF app, OfOneSession, InHand, Carries, At
<1>5. ASSUME NEW a \in Attempts, ReadStore(a), store # NoCredentials PROVE OfOneSession'
  <2>1. /\ At(a, "begun") /\ attempt'[a] = [stage |-> "sent", entering |-> FALSE, with |-> store]
        /\ \A b \in Attempts \ {a} : attempt'[b] = attempt[b]
        /\ UNCHANGED <<store, screen>>
    BY <1>0, <1>5, ReadStoreIs
  <2>2. \A s : InHand(s)' => InHand(s)
    BY <1>0, <1>5, HandFades
  <2>3. \A b \in Attempts : Carries(b) => ~attempt[b].entering /\ attempt[b].with.session = store.session
    BY <1>5, <2>1 DEF OfOneSession, InHand, At, Carries
  <2>4. \A s : InHand(s) => s = store.session
    BY <2>3 DEF InHand
  <2>5. \A b \in Attempts : Carries(b)' => ~attempt'[b].entering /\ attempt'[b].with.session = store.session
    BY <2>1, <2>3 DEF Carries
  <2> QED
    BY <1>5, <2>1, <2>2, <2>4, <2>5 DEF OfOneSession
<1>6. ASSUME NEW a \in Attempts, Answered(a) PROVE OfOneSession'
  <2>1. \A s : InHand(s)' => InHand(s)
    BY <1>0, <1>6, HandFades
  <2>2. At(a, "sent") /\ Carries(a) /\ attempt[a].entering = FALSE
    BY <1>0, <1>6, AnsweredIs DEF At, Carries
  <2>3. \A b \in Attempts : Carries(b) => ~attempt[b].entering /\ attempt[b].with.session = attempt[a].with.session
    BY <2>2 DEF OfOneSession, InHand, At, Carries
  <2>4. \A s : InHand(s) => s = attempt[a].with.session
    BY <2>2 DEF OfOneSession
  <2>5. PICK x : x = ReplyIn(record', AppRequest(attempt[a].with))
    OBVIOUS
  <2>6. CASE x.outcome = "rotated"
    <3>1. /\ attempt'[a].entering = FALSE /\ attempt'[a].with.session = attempt[a].with.session
          /\ store' = store /\ screen' = screen /\ \A b \in Attempts \ {a} : attempt'[b] = attempt[b]
      BY <1>0, <1>6, <2>5, <2>6, AnswerIs
    <3>2. \A b \in Attempts : Carries(b)' => ~attempt'[b].entering /\ attempt'[b].with.session = attempt[a].with.session
      BY <2>3, <3>1 DEF Carries
    <3>3. screen = "authenticated" => store # NoCredentials
      BY <2>2 DEF OfOneSession
    <3> QED
      BY <2>1, <2>4, <3>1, <3>2, <3>3 DEF OfOneSession
  <2>7. CASE x.outcome # "rotated"
    <3>1. /\ attempt'[a] = Idle /\ screen' # "authenticated" /\ \A b \in Attempts \ {a} : attempt'[b] = attempt[b]
      BY <1>0, <1>6, <2>5, <2>7, RefusalIs
    <3>2. \A b \in Attempts : Carries(b)' => ~attempt'[b].entering /\ attempt'[b].with.session = attempt[a].with.session
      BY <2>3, <3>1 DEF Carries, Idle
    <3> QED
      BY <2>1, <2>4, <3>1, <3>2 DEF OfOneSession
  <2> QED
    BY <2>6, <2>7
<1>7. ASSUME NEW a \in Attempts, Save(a) PROVE OfOneSession'
  <2>1. \A s : InHand(s)' => InHand(s)
    BY <1>0, <1>7, HandFades
  <2>2. /\ At(a, "answered") /\ store' # NoCredentials /\ attempt'[a].stage = "profile"
        /\ \A b \in Attempts \ {a} : attempt'[b] = attempt[b]
    BY <1>0, <1>7, SaveIs, NoneStored
  <2>3. \A b \in Attempts : Carries(b)' => attempt'[b] = attempt[b] /\ ~attempt[b].entering
    BY <2>2 DEF Carries, At, OfOneSession
  <2> QED
    BY <2>1, <2>2, <2>3, OneSessionFades
<1>8. ASSUME NEW a \in Attempts, NEW s \in Sessions, AppSignedIn(a, s) PROVE OfOneSession'
  <2>1. /\ screen' = "signed-out" /\ Quiet /\ attempt'[a].entering = TRUE
        /\ \A b \in Attempts \ {a} : attempt'[b] = attempt[b]
    BY <1>0, <1>8, SignedInIs
  <2>2. \A b \in Attempts \ {a} : At(b, "idle")' /\ ~Carries(b)'
    BY <2>1 DEF Quiet, At, Carries
  <2> QED
    BY <2>1, <2>2 DEF OfOneSession
<1>9. ASSUME NEW r \in appLate, AppServedLate(r) \/ AppDropped(r) PROVE UNCHANGED app
  BY <1>9 DEF AppServedLate, AppDropped
<1> QED
  BY <1>1, <1>2, <1>3, <1>4, <1>5, <1>6, <1>7, <1>8, <1>9 DEF ResidentNext, Runs

-----------------------------------------------------------------------------
(* The resident app: token and key *)

\* Nothing was exchanged under the key.
Unused(s, k) == k \in Keys => record[s][k].outcome \in {"none", "blocked"}

\* The token and the key carry a live session on, or a refusal is stored under the key; while the
\* session can be refreshed, nothing that may be served comes between.
Lasting(L, s, n, k) ==
    /\ session[s] = "ACTIVE" => (n = newest[s] /\ Unused(s, k)) \/ Exchange(s, n, k)
    /\ Usable(s) => Kept(L, s, n, k)

\* Nothing is exchanged, and nothing more may be served.
LEMMA LastingStays ==
    ASSUME NEW L \in SUBSET Requests, NEW M, M \subseteq L, NEW s \in Sessions, NEW n, NEW k, NEW j, Lasting(L, s, n, k),
           j = k \/ (k = 0 /\ Unused(s, j)),
           newest'[s] = newest[s], record'[s] = record[s], session'[s] = "ACTIVE" => session[s] = "ACTIVE",
           Usable(s)' => Usable(s)
    PROVE  Lasting(M, s, n, j)'
<1>1. session'[s] = "ACTIVE" => (n = newest'[s] /\ Unused(s, j)') \/ Exchange(s, n, j)'
  BY DEF Lasting, Unused, Exchange, Keys
<1>2. ASSUME Usable(s)' PROVE Kept(M, s, n, j)'
  <2>1. Kept(L, s, n, k)
    BY <1>2 DEF Lasting
  <2> QED
    BY <2>1, KeptStays
<1> QED
  BY <1>1, <1>2 DEF Lasting

\* A request is served.
LEMMA LastingServed ==
    ASSUME IInv, NEW L \in SUBSET Requests, \A q \in L : Issued(q.session, q.token), NEW r \in L, Refresh(r),
           NEW s \in Sessions, NEW n, NEW k, Lasting(L, s, n, k)
    PROVE  Lasting(L, s, n, k)'
<1>0. r \in Requests /\ r.session \in Sessions /\ r.key \in Keys /\ TypeOK
  BY DEF Requests, IInv
<1>1. ASSUME Usable(s)' PROVE Kept(L, s, n, k)'
  <2>1. Kept(L, s, n, k)
    BY <1>0, <1>1, RefreshFades DEF Lasting
  <2> QED
    BY <2>1, KeptServed
<1>2. ASSUME session'[s] = "ACTIVE" PROVE (n = newest'[s] /\ Unused(s, k)') \/ Exchange(s, n, k)'
  <2>1. session[s] = "ACTIVE"
    BY <1>0, <1>2, RefreshOfLive
  <2>2. (n = newest[s] /\ Unused(s, k)) \/ Exchange(s, n, k)
    BY <2>1 DEF Lasting
  <2>3. \A j \in Keys : s # r.session \/ j # r.key \/ ~Fresh(r) => record'[s][j] = record[s][j]
    BY <1>0, RefreshRecords
  <2>4. CASE newest'[s] = newest[s] /\ \A j \in Keys : record'[s][j] = record[s][j]
    BY <2>2, <2>4 DEF Unused, Exchange
  <2>5. CASE s = r.session /\ Fresh(r) /\ newest' = newest /\ record'[s][r.key].outcome = "blocked"
    <3>1. record[s][r.key].outcome = "none"
      BY <2>5 DEF Fresh, Stored, NoRecord
    <3> QED
      BY <2>2, <2>3, <2>5, <3>1 DEF Unused, Exchange
  <2>6. CASE /\ s = r.session /\ Fresh(r) /\ Usable(s) /\ r.token = newest[s] /\ newest'[s] = newest[s] + 1
             /\ record'[s][r.key].outcome = "rotated" /\ record'[s][r.key].issued = newest'[s]
    <3>1. r.token = n /\ r.key = k
      BY <2>1, <2>6 DEF Lasting, Kept, Unrivalled, Fresh
    <3>2. record'[s][r.key].token = r.token
      BY <1>0, <2>6, RefreshRecords
    <3> QED
      BY <1>0, <2>6, <3>1, <3>2 DEF Exchange
  <2>7. CASE s # r.session
    <3>1. newest'[s] = newest[s]
      BY <1>0, <2>7, RefreshOfLive
    <3> QED
      BY <2>3, <2>4, <2>7, <3>1
  <2>8. CASE s = r.session /\ ~Fresh(r) /\ newest' = newest
    BY <2>3, <2>4, <2>8
  <2>9. s = r.session => \/ ~Fresh(r) /\ newest' = newest
                         \/ Fresh(r) /\ newest' = newest /\ record'[s][r.key].outcome = "blocked"
                         \/ /\ Fresh(r) /\ Usable(s) /\ r.token = newest[s] /\ newest'[s] = newest[s] + 1
                            /\ record'[s][r.key].outcome = "rotated" /\ record'[s][r.key].issued = newest'[s]
    BY <1>0, <1>2, RefreshOfLive
  <2> QED
    BY <2>5, <2>6, <2>7, <2>8, <2>9
<1> QED
  BY <1>1, <1>2 DEF Lasting

\* The token it is answered needs no key yet.
LEMMA LastingAnswer ==
    ASSUME IInv, RecordsFromHere, NEW L \in SUBSET Requests, \A q \in L : Issued(q.session, q.token),
           NEW r \in L, r.sameDevice = TRUE, Refresh(r), Lasting(L, r.session, r.token, r.key),
           NEW x, x = ReplyIn(record', r), x.outcome = "rotated"
    PROVE  Lasting(L, r.session, x.issued, 0)'
<1> DEFINE s == r.session
<1>0. r \in Requests /\ s \in Sessions /\ r.key \in Keys /\ TypeOK
  BY DEF Requests, IInv
<1>1. ASSUME Usable(s)' PROVE Kept(L, s, x.issued, 0)'
  <2>1. Kept(L, s, r.token, r.key)
    BY <1>0, <1>1, RefreshFades DEF Lasting
  <2> QED
    BY <2>1, KeptByAnswer
<1>2. ASSUME session'[s] = "ACTIVE" PROVE x.issued = newest'[s]
  <2>1. session[s] = "ACTIVE"
    BY <1>0, <1>2, RefreshOfLive
  <2>2. (r.token = newest[s] /\ Unused(s, r.key)) \/ Exchange(s, r.token, r.key)
    BY <2>1 DEF Lasting
  <2>3. record'[s][r.key].outcome = "rotated" /\ x.issued = record'[s][r.key].issued
    BY DEF ReplyIn, Reply
  <2>4. CASE ~Fresh(r) /\ newest' = newest
    <3>1. record' = record
      BY <1>0, <2>4, RefreshRecords
    <3> QED
      BY <1>0, <2>2, <2>3, <2>4, <3>1 DEF Unused, Exchange
  <2>5. CASE record'[s][r.key].outcome = "rotated" /\ record'[s][r.key].issued = newest'[s]
    BY <2>3, <2>5
  <2> QED
    BY <1>0, <1>2, <2>3, <2>4, <2>5, RefreshOfLive
<1>3. 0 \notin Keys
  BY DEF Keys
<1> QED
  BY <1>1, <1>2, <1>3 DEF Lasting, Unused

\* What is stored and what is under way lasts, and what was answered does once it has a key.
StoreLasts == store # NoCredentials => Lasting(AppHeld, store.session, store.token, store.key)

WithLasts(a) ==
    /\ At(a, "sent") => Lasting(AppHeld, attempt[a].with.session, attempt[a].with.token, attempt[a].with.key)
    /\ At(a, "answered") => Lasting(AppHeld, attempt[a].with.session, attempt[a].with.token, 0)

AppKept == StoreLasts /\ \A a \in Attempts : WithLasts(a)

\* Of the sessions concerned, what carried them on still does.
AllLast(S) == \A s \in S : \A n, k : Lasting(AppHeld, s, n, k) => Lasting(AppHeld, s, n, k)'

LEMMA FadingLasts == ASSUME AppShape, Fading, AppHeld' \subseteq AppHeld PROVE AllLast(Sessions)
<1> SUFFICES ASSUME NEW s \in Sessions, NEW n, NEW k, Lasting(AppHeld, s, n, k) PROVE Lasting(AppHeld, s, n, k)'
  BY DEF AllLast
<1>1. PICK L, M : L \in SUBSET Requests /\ L = AppHeld /\ M = AppHeld'
  BY AppHeldTyped
<1>2. Lasting(L, s, n, k) /\ M \subseteq L
  BY <1>1
<1>3. /\ newest'[s] = newest[s] /\ record'[s] = record[s]
      /\ (session'[s] = "ACTIVE" => session[s] = "ACTIVE") /\ (Usable(s)' => Usable(s))
  BY DEF Fading, Calm
<1>4. Lasting(M, s, n, k)'
  BY <1>1, <1>2, <1>3, LastingStays
<1> QED
  BY <1>1, <1>4 DEF Lasting, Unused, Exchange, Kept, Unrivalled, Stored

LEMMA ServedLasts ==
    ASSUME AppInv, NEW r \in AppHeld, Refresh(r), AppHeld' \subseteq AppHeld PROVE AllLast(Sessions)
<1> SUFFICES ASSUME NEW s \in Sessions, NEW n, NEW k, Lasting(AppHeld, s, n, k) PROVE Lasting(AppHeld, s, n, k)'
  BY DEF AllLast
<1>1. PICK L, M : L \in SUBSET Requests /\ L = AppHeld /\ M = AppHeld'
  BY AppHeldTyped DEF AppInv
<1>2. Lasting(L, s, n, k) /\ M \subseteq L /\ IInv /\ r \in L /\ \A q \in L : Issued(q.session, q.token)
  BY <1>1 DEF AppInv, AppIssued
<1>3. Lasting(L, s, n, k)'
  BY <1>1, <1>2, LastingServed
<1> QED
  BY <1>1, <1>2, <1>3 DEF Lasting, Unused, Exchange, Kept, Unrivalled, Stored

\* What stays in the device's hands lasts.
LEMMA StoreStays ==
    ASSUME AppShape, AppKept, NEW S, AllLast(S), store' \in {store, NoCredentials},
           store # NoCredentials => store.session \in S
    PROVE  StoreLasts'
<1>1. CASE store' = NoCredentials
  BY <1>1 DEF StoreLasts
<1>2. CASE store' = store /\ store # NoCredentials
  <2>1. PICK s, n, k : s = store.session /\ n = store.token /\ k = store.key
    OBVIOUS
  <2>2. s \in S /\ Lasting(AppHeld, s, n, k)
    BY <1>2, <2>1 DEF AppKept, StoreLasts
  <2>3. Lasting(AppHeld, s, n, k)'
    BY <2>2 DEF AllLast
  <2> QED
    BY <1>2, <2>1, <2>3 DEF StoreLasts, Lasting, Unused, Exchange, Kept, Unrivalled, Stored
<1> QED
  BY <1>1, <1>2

LEMMA WithStays ==
    ASSUME AppShape, AppKept, NEW S, AllLast(S), NEW a \in Attempts, attempt'[a] = attempt[a],
           Carries(a) => attempt[a].with.session \in S
    PROVE  WithLasts(a)'
<1> SUFFICES ASSUME NEW k, (At(a, "sent")' /\ k = attempt'[a].with.key) \/ (At(a, "answered")' /\ k = 0)
             PROVE  Lasting(AppHeld, attempt[a].with.session, attempt[a].with.token, k)'
  BY DEF WithLasts
<1>1. PICK s, n : s = attempt[a].with.session /\ n = attempt[a].with.token
  OBVIOUS
<1>2. s \in S /\ Lasting(AppHeld, s, n, k)
  BY <1>1 DEF AppKept, WithLasts, At, Carries
<1>3. Lasting(AppHeld, s, n, k)'
  BY <1>2 DEF AllLast
<1>4. s = attempt'[a].with.session /\ n = attempt'[a].with.token
  BY <1>1
<1> QED
  BY <1>3, <1>4 DEF Lasting, Unused, Exchange, Kept, Unrivalled, Stored

\* The sessions in the device's hands are the server's.
LEMMA SessionsTyped ==
    ASSUME AppShape
    PROVE  /\ store # NoCredentials => store.session \in Sessions
           /\ \A a \in Attempts : Carries(a) => attempt[a].with.session \in Sessions
BY DEF AppShape, ResidentTypeOK, WellFormed, Credentials, Carries

LEMMA KeptAlone ==
    ASSUME AppShape, AppKept, AllLast(Sessions), store' \in {store, NoCredentials},
           \A b \in Attempts : Carries(b)' => attempt'[b] = attempt[b]
    PROVE  AppKept'
<1>1. StoreLasts'
  BY StoreStays, SessionsTyped
<1>2. ASSUME NEW b \in Attempts PROVE WithLasts(b)'
  <2>1. CASE attempt'[b] = attempt[b]
    BY <2>1, WithStays, SessionsTyped
  <2>2. CASE ~Carries(b)'
    BY <2>2 DEF WithLasts, Carries, At
  <2> QED
    BY <2>1, <2>2
<1> QED
  BY <1>1, <1>2 DEF AppKept

LEMMA KeptRead ==
    ASSUME AppInv, AppKept, OneAtWork, NEW a \in Attempts, ReadStore(a), store # NoCredentials PROVE AppKept'
<1>0. AppShape
  BY DEF AppInv
<1>1. PICK q : q = AppRequest(store)
  OBVIOUS
<1>2. /\ q.session = store.session /\ q.token = store.token /\ q.key = store.key /\ store.session \in Sessions
      /\ AppHeld' \subseteq AppHeld \cup {q} /\ UNCHANGED <<server, store>>
      /\ attempt'[a] = [stage |-> "sent", entering |-> FALSE, with |-> store] /\ Busy(a)
      /\ \A b \in Attempts \ {a} : attempt'[b] = attempt[b]
  BY <1>0, <1>1, ReadStoreIs, SessionsTyped, AppRequestTyped DEF Busy, At
<1>3. StoreLasts'
  <2>1. Lasting(AppHeld, store.session, store.token, store.key)
    BY DEF AppKept, StoreLasts
  <2>2. Lasting(AppHeld, store.session, store.token, store.key)'
    BY <1>2, <2>1 DEF Lasting, Unused, Exchange, Kept, Unrivalled, Stored, server, Usable
  <2> QED
    BY <2>2 DEF StoreLasts
<1>4. WithLasts(a)'
  <2>1. attempt'[a].with = store' /\ attempt'[a].stage = "sent" /\ store' # NoCredentials
    BY <1>2
  <2> QED
    BY <1>3, <2>1 DEF WithLasts, StoreLasts, At, Lasting, Unused, Exchange, Kept, Unrivalled, Stored
<1>5. ASSUME NEW b \in Attempts \ {a}, NEW k,
             (At(b, "sent")' /\ k = attempt'[b].with.key) \/ (At(b, "answered")' /\ k = 0)
      PROVE  Lasting(AppHeld, attempt[b].with.session, attempt[b].with.token, k)'
  <2>1. PICK s \in Sessions : s = attempt[b].with.session
    BY <1>0, <1>2, <1>5, SessionsTyped DEF At, Carries
  <2>2. PICK n : n = attempt[b].with.token
    OBVIOUS
  <2>3. Lasting(AppHeld, s, n, k) /\ Busy(b) /\ InHand(s)
    BY <1>2, <1>5, <2>1, <2>2 DEF AppKept, WithLasts, At, Busy, InHand, Carries
  <2>4. ~Usable(s)
    BY <1>2, <2>3 DEF OneAtWork
  <2>5. Lasting(AppHeld, s, n, k)'
    BY <1>2, <2>3, <2>4 DEF Lasting, Unused, Exchange, server, Usable
  <2>6. s = attempt'[b].with.session /\ n = attempt'[b].with.token
    BY <1>2, <2>1, <2>2
  <2> QED
    BY <2>5, <2>6 DEF Lasting, Unused, Exchange, Kept, Unrivalled, Stored
<1>6. ASSUME NEW b \in Attempts \ {a} PROVE WithLasts(b)'
  BY <1>5 DEF WithLasts
<1> QED
  BY <1>3, <1>4, <1>6 DEF AppKept

LEMMA KeptAnswered == ASSUME AppInv, IInv', AppKept, NEW a \in Attempts, Answered(a) PROVE AppKept'
<1>0. AppShape /\ IInv /\ RecordsFromHere
  BY DEF AppInv, AppIssued
<1>1. PICK r : r = AppRequest(attempt[a].with)
  OBVIOUS
<1>2. PICK x : x = ReplyIn(record', r)
  OBVIOUS
<1>3. /\ r \in AppHeld /\ r \in Requests /\ Refresh(r) /\ r.sameDevice = TRUE /\ AppHeld' \subseteq AppHeld
      /\ r.session = attempt[a].with.session /\ r.token = attempt[a].with.token /\ r.key = attempt[a].with.key
      /\ At(a, "sent")
  BY <1>0, <1>1, AnsweredIs, AnsweredHeld
<1>4. AllLast(Sessions)
  BY <1>3, ServedLasts
<1>5. CASE x.outcome # "rotated"
  <2>1. attempt'[a] = Idle /\ store' \in {store, NoCredentials} /\ \A b \in Attempts \ {a} : attempt'[b] = attempt[b]
    BY <1>0, <1>1, <1>2, <1>5, RefusalIs
  <2>2. \A b \in Attempts : Carries(b)' => attempt'[b] = attempt[b]
    BY <2>1 DEF Carries, Idle
  <2> QED
    BY <1>0, <1>4, <2>1, <2>2, KeptAlone
<1>6. CASE x.outcome = "rotated"
  <2>1. /\ attempt'[a].stage = "answered" /\ attempt'[a].with.session = r.session /\ attempt'[a].with.token = x.issued
        /\ store' = store /\ \A b \in Attempts \ {a} : attempt'[b] = attempt[b]
    BY <1>0, <1>1, <1>2, <1>3, <1>6, AnswerIs
  <2>2. StoreLasts'
    BY <1>0, <1>4, <2>1, StoreStays, SessionsTyped
  <2>3. ASSUME NEW b \in Attempts \ {a} PROVE WithLasts(b)'
    <3>1. attempt'[b] = attempt[b]
      BY <2>1
    <3> QED
      BY <1>0, <1>4, <3>1, WithStays, SessionsTyped
  <2>4. PICK L, M : L \in SUBSET Requests /\ L = AppHeld /\ M = AppHeld'
    BY <1>0, AppHeldTyped
  <2>5. Lasting(L, r.session, r.token, r.key) /\ r \in L /\ M \subseteq L /\ \A q \in L : Issued(q.session, q.token)
    BY <1>3, <2>4 DEF AppKept, WithLasts, AppInv, AppIssued
  <2>6. Lasting(L, r.session, x.issued, 0)'
    BY <2>4, <1>0, <1>2, <1>3, <1>6, <2>5, LastingAnswer
  <2>7. Lasting(AppHeld, r.session, x.issued, 0)'
    BY <2>4, <2>5, <2>6 DEF Lasting, Unused, Exchange, Kept, Unrivalled, Stored
  <2>8. WithLasts(a)'
    BY <2>1, <2>7 DEF WithLasts, At, Lasting, Unused, Exchange, Kept, Unrivalled, Stored
  <2> QED
    BY <2>2, <2>3, <2>8 DEF AppKept
<1> QED
  BY <1>5, <1>6

LEMMA KeptSave == ASSUME AppInv, AppKept, NEW a \in Attempts, Save(a) PROVE AppKept'
<1>0. AppShape
  BY DEF AppInv
<1>1. /\ At(a, "answered") /\ store' \in Credentials /\ store'.session = attempt[a].with.session
      /\ store'.token = attempt[a].with.token /\ store'.key = appMinted + 1 /\ attempt'[a].stage = "profile"
      /\ \A b \in Attempts \ {a} : attempt'[b] = attempt[b]
      /\ AppHeld' \subseteq AppHeld /\ UNCHANGED server
  BY <1>0, SaveIs
<1>2. AllLast(Sessions)
  BY <1>0, <1>1, FadingLasts, StillFading
<1>3. PICK s \in Sessions : s = attempt[a].with.session
  BY <1>0, <1>1, SessionsTyped DEF At, Carries
<1>4. PICK n, j : n = attempt[a].with.token /\ j = appMinted + 1
  OBVIOUS
<1>5. PICK L, M : L \in SUBSET Requests /\ L = AppHeld /\ M = AppHeld'
  BY <1>0, AppHeldTyped
<1>6. Lasting(L, s, n, 0) /\ M \subseteq L
  BY <1>1, <1>3, <1>4, <1>5 DEF AppKept, WithLasts
<1>7. Unused(s, j)
  <2>1. appMinted \in Nat
    BY <1>0 DEF AppShape
  <2>2. j \in Keys => record[s][j] = NoRecord
    BY <1>4, <2>1 DEF AppInv, AppMints
  <2> QED
    BY <2>2 DEF Unused, NoRecord
<1>8. Lasting(M, s, n, j)'
  <2>1. /\ newest'[s] = newest[s] /\ record'[s] = record[s]
        /\ (session'[s] = "ACTIVE" => session[s] = "ACTIVE") /\ (Usable(s)' => Usable(s))
    BY <1>1 DEF server, Usable
  <2> QED
    BY <1>5, <1>6, <1>7, <2>1, LastingStays
<1>9. StoreLasts'
  <2>1. store'.session = s /\ store'.token = n /\ store'.key = j
    BY <1>1, <1>3, <1>4
  <2> QED
    BY <1>5, <1>8, <2>1 DEF StoreLasts, Lasting, Unused, Exchange, Kept, Unrivalled, Stored
<1>10. ASSUME NEW b \in Attempts PROVE WithLasts(b)'
  <2>1. CASE b = a
    BY <1>1, <2>1 DEF WithLasts, At
  <2>2. CASE b # a
    <3>1. attempt'[b] = attempt[b]
      BY <1>1, <2>2
    <3> QED
      BY <1>0, <1>2, <3>1, WithStays, SessionsTyped
  <2> QED
    BY <2>1, <2>2
<1> QED
  BY <1>9, <1>10 DEF AppKept

LEMMA KeptSignedIn ==
    ASSUME AppInv, AppKept, NEW a \in Attempts, NEW s \in Sessions, AppSignedIn(a, s) PROVE AppKept'
<1>0. AppShape /\ IInv
  BY DEF AppInv
<1>1. /\ Quiet /\ UNCHANGED <<store, record>> /\ attempt'[a].stage = "answered"
      /\ attempt'[a].with.session = s /\ attempt'[a].with.token = 1
      /\ \A b \in Attempts \ {a} : attempt'[b] = attempt[b]
      /\ AppHeld' \subseteq AppHeld /\ newest[s] = 0 /\ newest'[s] = 1
      /\ \A u \in Sessions \ {s} : newest'[u] = newest[u] /\ session'[u] = session[u] /\ (Usable(u)' => Usable(u))
  BY <1>0, SignedInIs
<1>2. \A n : ~Issued(s, n)
  BY <1>1 DEF Issued, Tokens
<1>3. AllLast(Sessions \ {s})
  <2> SUFFICES ASSUME NEW u \in Sessions \ {s}, NEW n, NEW k, Lasting(AppHeld, u, n, k) PROVE Lasting(AppHeld, u, n, k)'
    BY DEF AllLast
  <2>1. PICK L, M : L \in SUBSET Requests /\ L = AppHeld /\ M = AppHeld'
    BY <1>0, AppHeldTyped
  <2>2. Lasting(L, u, n, k) /\ M \subseteq L
    BY <1>1, <2>1
  <2>3. /\ newest'[u] = newest[u] /\ record'[u] = record[u]
        /\ (session'[u] = "ACTIVE" => session[u] = "ACTIVE") /\ (Usable(u)' => Usable(u))
    BY <1>1
  <2>4. Lasting(M, u, n, k)'
    BY <2>1, <2>2, <2>3, LastingStays
  <2> QED
    BY <2>1, <2>4 DEF Lasting, Unused, Exchange, Kept, Unrivalled, Stored
<1>4. StoreLasts'
  <2>1. store # NoCredentials => store.session \in Sessions \ {s}
    BY <1>0, <1>2, SessionsTyped DEF AppInv, AppIssued
  <2> QED
    BY <1>0, <1>1, <1>3, <2>1, StoreStays
<1>5. WithLasts(a)'
  <2>1. Lasting(AppHeld, s, 1, 0)'
    <3>1. \A r \in AppHeld : r.session # s
      BY <1>2 DEF AppInv, AppIssued
    <3> QED
      BY <1>1, <3>1 DEF Lasting, Unused, Kept, Unrivalled, Keys
  <2> QED
    BY <1>1, <2>1 DEF WithLasts, At, Lasting, Unused, Exchange, Kept, Unrivalled, Stored
<1>6. ASSUME NEW b \in Attempts \ {a} PROVE WithLasts(b)'
  BY <1>1 DEF Quiet, At, WithLasts
<1> QED
  BY <1>4, <1>5, <1>6 DEF AppKept

LEMMA AppKeptStep == ASSUME AppInv, IInv', AppKept, OneAtWork, ResidentNext PROVE AppKept'
<1>0. AppShape /\ IInv
  BY DEF AppInv
<1>1. CASE NothingNew /\ Fading
  BY <1>0, <1>1, FadingLasts, KeptAlone DEF NothingNew
<1>2. ASSUME NEW r \in appLate, AppServedLate(r) PROVE AppKept'
  <2>1. r \in AppHeld /\ Refresh(r) /\ UNCHANGED app /\ AppHeld' \subseteq AppHeld
    BY <1>0, <1>2, ServedLateIs
  <2>2. AllLast(Sessions)
    BY <2>1, ServedLasts
  <2> QED
    BY <1>0, <2>1, <2>2, KeptAlone DEF app
<1> QED
  BY <1>0, <1>1, <1>2, AppKinds, KeptRead, KeptAnswered, KeptSave, KeptSignedIn

-----------------------------------------------------------------------------
(* The resident app: results *)

LEMMA InitAppInv == ResidentInit => AppInv /\ OneAtWork /\ OfOneSession /\ AppKept
<1> SUFFICES ASSUME ResidentInit PROVE AppInv /\ OneAtWork /\ OfOneSession /\ AppKept
  OBVIOUS
<1>1. IInv /\ AppShape
  BY InitIInv, InitAppShape DEF ResidentInit
<1>2. /\ \A a \in Attempts : attempt[a].stage = "idle"
      /\ store = NoCredentials /\ appLate = {}
  BY DEF ResidentInit, Idle
<1>3. AppIssued /\ AppMints
  BY <1>2 DEF ResidentInit, Init, AppIssued, AppMints, RecordsFromHere, Carries, At, AppHeld
<1>4. OneAtWork /\ OfOneSession /\ AppKept
  BY <1>2 DEF OneAtWork, OfOneSession, AppKept, StoreLasts, WithLasts, Busy, Carries, At
<1> QED
  BY <1>1, <1>3, <1>4 DEF AppInv

LEMMA AppNextInv == AppInv /\ [ResidentNext]_residentVars => AppInv'
<1>1. ASSUME AppInv, ResidentNext PROVE AppInv'
  <2>1. IInv'
    BY <1>1, AppServerStep, NextIInv DEF AppInv
  <2>2. AppShape'
    BY <1>1, <2>1, AppTypesStep DEF AppInv
  <2> QED
    BY <1>1, <2>1, <2>2, AppIssuedStep DEF AppInv
<1>2. ASSUME AppInv, UNCHANGED residentVars PROVE AppInv'
  <2>1. UNCHANGED <<server, store, appMinted, screen, attempt, handler, appLate>>
    BY <1>2 DEF residentVars, app
  <2>2. IInv'
    BY <1>2, <2>1, NextIInv DEF AppInv
  <2>3. AppShape'
    BY <1>2, <2>1 DEF AppInv, AppShape, ResidentTypeOK
  <2>4. AppIssued' /\ AppMints'
    BY <1>2, <2>1 DEF AppInv, AppIssued, AppMints, RecordsFromHere, Issued, server, Carries, At, AppHeld
  <2> QED
    BY <2>2, <2>3, <2>4 DEF AppInv
<1> QED
  BY <1>1, <1>2

LEMMA AppNextKept ==
    ASSUME ~Impatient, AppInv, AppInv', OneAtWork, OfOneSession, AppKept, [ResidentNext]_residentVars
    PROVE  OneAtWork' /\ OfOneSession' /\ AppKept'
<1>1. CASE ResidentNext
  BY <1>1, OneAtWorkStep, OfOneSessionStep, AppKeptStep DEF AppInv
<1>2. CASE UNCHANGED residentVars
  <2>1. UNCHANGED <<server, store, appMinted, screen, attempt, handler, appLate>>
    BY <1>2 DEF residentVars, app
  <2>2. NothingNew /\ Fading
    BY <2>1, StillFading DEF NothingNew, AppHeld, At
  <2>3. AppKept'
    BY <2>2, FadingLasts, KeptAlone DEF NothingNew, AppInv
  <2> QED
    BY <2>1, <2>3 DEF OneAtWork, OfOneSession, InHand, Busy, Carries, At, Usable, server
<1> QED
  BY <1>1, <1>2

\* Whatever starts refreshSession, and however often, every step of the device is a step of
\* SessionRotation or none (AuthProvider.tsx, api.ts).
THEOREM ResidentSpecRunsOnTheServer == ResidentSpec => Spec
<1>1. ResidentInit => Init /\ AppInv
  BY InitAppInv DEF ResidentInit
<1>2. AppInv /\ [ResidentNext]_residentVars => [Next]_server
  BY AppServerStep DEF AppInv, residentVars
<1> QED
  BY <1>1, <1>2, AppNextInv, PTL DEF ResidentSpec, Spec

\* The store, the screen and the executions of refreshSession keep their types (AuthProvider.tsx).
THEOREM ResidentSpecTypeOK == ResidentSpec => []ResidentTypeOK
<1>1. AppInv => ResidentTypeOK
  BY DEF AppInv, AppShape
<1>2. ResidentInit => AppInv
  BY InitAppInv
<1> QED
  BY <1>1, <1>2, AppNextInv, PTL DEF ResidentSpec

\* While Retry is not tapped during an attempt, what the device has stored refreshes a live session,
\* or a refusal for too many failures is stored under its key, whatever is lost, late, refused or
\* killed (AuthProvider.tsx, storage.ts).
THEOREM ResidentSpecSessionKept == ASSUME ~Impatient PROVE ResidentSpec => []SessionKept
<1> DEFINE Inv == AppInv /\ OneAtWork /\ OfOneSession /\ AppKept
<1>1. Inv => SessionKept
  <2> SUFFICES ASSUME Inv, store # NoCredentials, session[store.session] = "ACTIVE"
               PROVE  CarriesOn(store) \/ Blocked(store)
    BY DEF SessionKept
  <2>1. store \in Credentials /\ IInv /\ TypeOK
    BY DEF AppInv, AppShape, ResidentTypeOK, IInv
  <2>2. store.session \in Sessions /\ store.key \in Keys
    BY <2>1 DEF Credentials
  <2>3. record[store.session][store.key] \in Records \cup {NoRecord}
    BY <2>1, <2>2 DEF TypeOK
  <2>4. record[store.session][store.key].outcome = "none" => record[store.session][store.key] = NoRecord
    BY <2>3 DEF Records
  <2>5. \/ store.token = newest[store.session] /\ Unused(store.session, store.key)
        \/ Exchange(store.session, store.token, store.key)
    BY DEF AppKept, StoreLasts, Lasting
  <2> QED
    BY <2>2, <2>4, <2>5 DEF CarriesOn, Blocked, Unused, Exchange
<1>2. ResidentInit => Inv
  BY InitAppInv
<1>3. Inv /\ [ResidentNext]_residentVars => Inv'
  BY AppNextInv, AppNextKept
<1> QED
  BY <1>1, <1>2, <1>3, PTL DEF ResidentSpec
=============================================================================
