------------------------------ MODULE AdminTabs ------------------------------
(***************************************************************************)
(* The administration web as the client of SessionRotation                 *)
(* (apps/admin-web/src/lib/api-client.ts, refresh-cookie.service.ts of the *)
(* API).  The refresh token is an HttpOnly cookie the browser stores when  *)
(* an answer arrives and sends by itself; the idempotency key is in        *)
(* localStorage.  Both belong to all tabs, while each tab only knows its   *)
(* own refresh, and may be closed or reloaded at any moment.               *)
(***************************************************************************)
EXTENDS SessionRotation

CONSTANTS Tabs,           \* tabs of the browser
          MaxWebRefusals  \* bound: requests the rate limiter refuses

NoCookie == [session |-> "none", token |-> 0]
NoCall == [key |-> 0, cookie |-> NoCookie]

VARIABLES cookie,    \* __Host-mb_refresh of the browser
          key,       \* manglam.admin.refresh-idempotency.v1 (0: no such item)
          webMinted, \* keys generated so far
          stage,     \* where refreshAccessToken of each tab is
          call,      \* the key it read and the cookie sent with it
          outcome,   \* the answer on its way or read
          webLate,   \* requests of closed tabs the server may still see
          webRefusals

browser == <<cookie, key, webMinted>>
tabs == <<stage, call, outcome>>
webVars == <<server, browser, tabs, webLate, webRefusals>>

NoReply == [outcome |-> "none", issued |-> 0]
WebRequest(c) == [session |-> c.cookie.session, token |-> c.cookie.token,
                  key |-> c.key, sameDevice |-> TRUE]

AdminInit ==
    /\ Init
    /\ cookie = NoCookie /\ key = 0 /\ webMinted = 0
    /\ stage = [t \in Tabs |-> "idle"]
    /\ call = [t \in Tabs |-> NoCall]
    /\ outcome = [t \in Tabs |-> NoReply]
    /\ webLate = {} /\ webRefusals = 0

Leave(t) ==
    /\ stage' = [stage EXCEPT ![t] = "idle"]
    /\ call' = [call EXCEPT ![t] = NoCall]
    /\ outcome' = [outcome EXCEPT ![t] = NoReply]

-----------------------------------------------------------------------------
(* refreshAccessToken *)

\* Mutant: every refresh generates its key.
ReadKeyAnew(t) ==
    /\ stage[t] = "idle"
    /\ webMinted < MaxKeys
    /\ key' = webMinted + 1 /\ webMinted' = webMinted + 1
    /\ call' = [call EXCEPT ![t].key = key']
    /\ stage' = [stage EXCEPT ![t] = "keyed"]
    /\ UNCHANGED <<server, cookie, outcome, webLate, webRefusals>>

\* getRefreshIdempotencyKey: the key in localStorage, or a new one put there.
ReadKey(t) ==
    /\ stage[t] = "idle"
    /\ IF key = 0
       THEN webMinted < MaxKeys /\ key' = webMinted + 1 /\ webMinted' = webMinted + 1
       ELSE UNCHANGED <<key, webMinted>>
    /\ call' = [call EXCEPT ![t].key = key']
    /\ stage' = [stage EXCEPT ![t] = "keyed"]
    /\ UNCHANGED <<server, cookie, outcome, webLate, webRefusals>>

\* fetch: the browser adds the cookie it has by now.
Fetch(t) ==
    /\ stage[t] = "keyed"
    /\ call' = [call EXCEPT ![t].cookie = cookie]
    /\ IF cookie = NoCookie
       THEN /\ outcome' = [outcome EXCEPT ![t] = Reply("refused", 0)]
            /\ stage' = [stage EXCEPT ![t] = "served"]
       ELSE stage' = [stage EXCEPT ![t] = "sent"] /\ UNCHANGED outcome
    /\ UNCHANGED <<server, browser, webLate, webRefusals>>

Served(t) ==
    LET r == WebRequest(call[t]) IN
    /\ stage[t] = "sent"
    /\ Refresh(r)
    /\ outcome' = [outcome EXCEPT ![t] = ReplyIn(record', r)]
    /\ stage' = [stage EXCEPT ![t] = "served"]
    /\ UNCHANGED <<browser, call, webLate, webRefusals>>

\* The rate limiter's 429.
WebThrottled(t) ==
    /\ stage[t] = "sent" /\ webRefusals < MaxWebRefusals
    /\ webRefusals' = webRefusals + 1
    /\ outcome' = [outcome EXCEPT ![t] = Reply("throttled", 0)]
    /\ stage' = [stage EXCEPT ![t] = "served"]
    /\ UNCHANGED <<server, browser, call, webLate>>

\* A 5xx or no connection, before or after the server has acted: the key stays.
Fails(t) ==
    /\ stage[t] \in {"sent", "served"}
    /\ webLate' = IF stage[t] = "sent" THEN webLate \cup {WebRequest(call[t])} ELSE webLate
    /\ Leave(t)
    /\ UNCHANGED <<server, browser, webRefusals>>

\* The answer arrives: the browser stores the cookie it sets,
Arrives(t) ==
    /\ stage[t] = "served"
    /\ cookie' = IF outcome[t].outcome = "rotated"
                 THEN [session |-> call[t].cookie.session, token |-> outcome[t].issued]
                 ELSE cookie
    /\ stage' = [stage EXCEPT ![t] = "arrived"]
    /\ UNCHANGED <<server, key, webMinted, call, outcome, webLate, webRefusals>>

\* then the tab reads it: a token or any 4xx removes the key.
Finish(t) ==
    /\ stage[t] = "arrived"
    /\ key' = 0
    /\ Leave(t)
    /\ UNCHANGED <<server, cookie, webMinted, webLate, webRefusals>>

\* The tab is closed or reloaded in the middle; what it has sent may be served.
Close(t) ==
    /\ stage[t] # "idle"
    /\ webLate' = IF stage[t] = "sent" THEN webLate \cup {WebRequest(call[t])} ELSE webLate
    /\ Leave(t)
    /\ UNCHANGED <<server, browser, webRefusals>>

WebServedLate(r) == r \in webLate /\ Refresh(r) /\ UNCHANGED <<browser, tabs, webLate, webRefusals>>
WebDropped(r) ==
    r \in webLate /\ webLate' = webLate \ {r} /\ UNCHANGED <<server, browser, tabs, webRefusals>>

\* signInAdmin: a session and its cookie; the key is left as it is.
WebSignedIn(s) ==
    /\ SignIn(s)
    /\ cookie' = [session |-> s, token |-> 1]
    /\ UNCHANGED <<key, webMinted, tabs, webLate, webRefusals>>

\* logoutSession: the session is revoked and the cookie cleared.
WebLogout ==
    /\ cookie # NoCookie
    /\ Revoke(cookie.session)
    /\ cookie' = NoCookie
    /\ UNCHANGED <<key, webMinted, tabs, webLate, webRefusals>>

AdminNext ==
    \/ \E t \in Tabs :
          \/ ReadKey(t) \/ Fetch(t) \/ Served(t) \/ WebThrottled(t) \/ Fails(t)
          \/ Arrives(t) \/ Finish(t) \/ Close(t)
    \/ \E r \in webLate : WebServedLate(r) \/ WebDropped(r)
    \/ \E s \in Sessions : WebSignedIn(s)
    \/ WebLogout
    \/ /\ \/ \E s \in Sessions : Revoke(s) \/ Lapse(s)
          \/ WindowPasses
       /\ UNCHANGED <<browser, tabs, webLate, webRefusals>>

AdminSpec == AdminInit /\ [][AdminNext]_webVars

-----------------------------------------------------------------------------
(* Properties *)

\* Types of the browser's state (api-client.ts).
AdminTypeOK ==
    /\ cookie \in [session : Sessions, token : Tokens] \cup {NoCookie}
    /\ key \in 0..MaxKeys /\ webMinted \in 0..MaxKeys
    /\ stage \in [Tabs -> {"idle", "keyed", "sent", "served", "arrived"}]
    /\ webLate \subseteq Requests

\* A session the server keeps can be refreshed with the cookie the browser has:
\* it is the current token, or the exchange of it is stored under the key kept
\* (api-client.ts: a lost answer keeps the key, an answer read removes it), as
\* long as the rate limiter has refused nothing: its 429 removes the key too.
CookieKept ==
    webRefusals = 0 /\ cookie # NoCookie /\ session[cookie.session] = "ACTIVE" =>
        \/ cookie.token = newest[cookie.session]
        \/ /\ key # 0
           /\ LET stored == record[cookie.session][key] IN
                 /\ stored.outcome = "rotated" /\ stored.token = cookie.token
                 /\ stored.issued = newest[cookie.session]

\* "A failed cleanup is harmless; the server will replay the recorded refresh
\* response" (api-client.ts): a key left behind is never answered as one of
\* another request.
LeftKeyIsReplayed == \A t \in Tabs : outcome[t].outcome # "reused"
=============================================================================
