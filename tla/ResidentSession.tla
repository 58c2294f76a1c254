--------------------------- MODULE ResidentSession ---------------------------
(***************************************************************************)
(* The resident app as the client of SessionRotation                       *)
(* (apps/resident-app/src: providers/AuthProvider.tsx, lib/api.ts,         *)
(* lib/storage.ts).  refreshSession reads the stored credentials, asks for *)
(* their successor, stores it under a new key and then loads the profile.  *)
(* It is run by the start of the app, by the Retry button and, one at a    *)
(* time, by requests answered 401, which wait for it.  The profile itself  *)
(* is loaded by such a request.                                            *)
(***************************************************************************)
EXTENDS SessionRotation

CONSTANTS Attempts,     \* executions of refreshSession that may overlap
          Impatient,    \* BOOLEAN: Retry may be tapped while an attempt runs
          MaxAppRefusals,  \* bound: requests the rate limiter refuses
          MaxKills,     \* bound: deaths of the process
          MaxHiccups    \* bound: 401s given although the session is live

NoCredentials == [session |-> "none", token |-> 0, key |-> 0]
Idle == [stage |-> "idle", with |-> NoCredentials, entering |-> FALSE]

VARIABLES store,     \* SecureStore: the token and the key it goes under
          appMinted, \* idempotency keys generated so far
          screen,    \* status of AuthProvider
          attempt,   \* where each execution is, with which credentials, and whether
                     \* it is a sign-in rather than a refresh
          handler,   \* the execution that refreshPromise holds, or "none"
          appLate,   \* requests given up on that may still reach the server
          appRefusals, kills, hiccups

app == <<store, appMinted, screen, attempt, handler>>
bounds == <<appRefusals, kills, hiccups>>
residentVars == <<server, app, appLate, bounds>>

Credentials == [session : Sessions, token : Tokens, key : Keys]
Stages == {"idle", "begun", "sent", "answered", "profile", "joined", "waiting"}
AppRequest(c) == [session |-> c.session, token |-> c.token, key |-> c.key, sameDevice |-> TRUE]
At(a, stage) == attempt[a].stage = stage
\* The access token in memory is of the session stored: one comes with the other.
Live == store # NoCredentials /\ Usable(store.session)
Quiet == \A a \in Attempts : At(a, "idle")

ResidentInit ==
    /\ Init
    /\ store = NoCredentials /\ appMinted = 0
    /\ screen = "signed-out"
    /\ attempt = [a \in Attempts |-> Idle]
    /\ handler = "none"
    /\ appLate = {}
    /\ appRefusals = 0 /\ kills = 0 /\ hiccups = 0

Move(a, stage, credentials) ==
    attempt' = [attempt EXCEPT ![a].stage = stage, ![a].with = credentials]

\* An execution ends; if it was refreshPromise, that is null again.
End(a) ==
    /\ attempt' = [attempt EXCEPT ![a] = Idle]
    /\ handler' = IF handler = a THEN "none" ELSE handler

-----------------------------------------------------------------------------
(* What starts refreshSession *)

\* The timer of the provider, once the app has started.
BootTimer(a) ==
    /\ screen = "booting" /\ Quiet
    /\ Move(a, "begun", NoCredentials)
    /\ UNCHANGED <<server, store, appMinted, screen, handler, appLate, bounds>>

\* The Retry button of the recovery screen, which nothing disables.
Retry(a) ==
    /\ screen = "recovery-error" /\ At(a, "idle")
    /\ Impatient \/ Quiet
    /\ Move(a, "begun", NoCredentials)
    /\ UNCHANGED <<server, store, appMinted, screen, handler, appLate, bounds>>

\* A request answered 401 when the access token has run out (ten minutes after a
\* rotation, when no attempt is left) or the session is no longer usable.
Denied(a) ==
    /\ screen = "authenticated" /\ At(a, "idle") /\ handler = "none"
    /\ Quiet \/ ~Live
    /\ handler' = a
    /\ Move(a, "begun", NoCredentials)
    /\ UNCHANGED <<server, store, appMinted, screen, appLate, bounds>>

-----------------------------------------------------------------------------
(* refreshSession *)

\* Mutant: without a token the state is left as it is.
ReadStoreQuiet(a) ==
    /\ At(a, "begun")
    /\ IF store = NoCredentials
       THEN End(a)
       ELSE Move(a, "sent", store) /\ UNCHANGED handler
    /\ UNCHANGED <<server, store, appMinted, screen, appLate, bounds>>

\* The token and the key stored, or none: signed out.
ReadStore(a) ==
    /\ At(a, "begun")
    /\ IF store = NoCredentials
       THEN End(a) /\ screen' = "signed-out"
       ELSE Move(a, "sent", store) /\ UNCHANGED <<screen, handler>>
    /\ UNCHANGED <<server, store, appMinted, appLate, bounds>>

\* The handler runs and its answer arrives: a token, a 401, or another refusal,
\* after which the credentials stay as they are, key included.
Answered(a) ==
    LET c == attempt[a].with IN
    /\ At(a, "sent")
    /\ Refresh(AppRequest(c))
    /\ LET reply == ReplyIn(record', AppRequest(c)) IN
       CASE reply.outcome = "rotated" ->
              /\ Move(a, "answered", [c EXCEPT !.token = reply.issued])
              /\ UNCHANGED <<store, screen, handler>>
         [] reply.outcome = "refused" ->
              End(a) /\ store' = NoCredentials /\ screen' = "signed-out"
         [] OTHER -> End(a) /\ screen' = "recovery-error" /\ UNCHANGED store
    /\ UNCHANGED <<appMinted, appLate, bounds>>

\* The rate limiter's 429.
AppThrottled(a) ==
    /\ At(a, "sent") /\ appRefusals < MaxAppRefusals
    /\ appRefusals' = appRefusals + 1
    /\ End(a) /\ screen' = "recovery-error"
    /\ UNCHANGED <<server, store, appMinted, appLate, kills, hiccups>>

\* A 5xx, no connection, or 15 s without an answer.
GiveUp(a) ==
    /\ At(a, "sent")
    /\ End(a) /\ screen' = "recovery-error"
    /\ appLate' = appLate \cup {AppRequest(attempt[a].with)}
    /\ UNCHANGED <<server, store, appMinted, bounds>>

AppServedLate(r) == r \in appLate /\ Refresh(r) /\ UNCHANGED <<app, appLate, bounds>>
AppDropped(r) == r \in appLate /\ appLate' = appLate \ {r} /\ UNCHANGED <<server, app, bounds>>

\* Mutant: the key is kept for the new token.
SaveTokenOnly(a) ==
    LET c == attempt[a].with IN
    /\ At(a, "answered")
    /\ appMinted < MaxKeys
    /\ appMinted' = IF c.key = 0 THEN appMinted + 1 ELSE appMinted
    /\ store' = IF c.key = 0 THEN [c EXCEPT !.key = appMinted + 1] ELSE c
    /\ Move(a, "profile", NoCredentials)
    /\ UNCHANGED <<server, screen, handler, appLate, bounds>>

\* commitSession: setRefreshToken, whatever the store holds by now.
Save(a) ==
    /\ At(a, "answered")
    /\ appMinted < MaxKeys
    /\ appMinted' = appMinted + 1
    /\ store' = [attempt[a].with EXCEPT !.key = appMinted + 1]
    /\ Move(a, "profile", NoCredentials)
    /\ UNCHANGED <<server, screen, handler, appLate, bounds>>

\* commitSession: the profile is loaded.
ProfileLoaded(a) ==
    /\ At(a, "profile") \/ At(a, "waiting")
    /\ Live
    /\ End(a) /\ screen' = "authenticated"
    /\ UNCHANGED <<server, store, appMinted, appLate, bounds>>

\* Otherwise only refreshSession, not a sign-in, has a screen for it.
ProfileFails(a) ==
    /\ At(a, "profile") \/ At(a, "waiting")
    /\ End(a)
    /\ screen' = IF attempt[a].entering THEN screen ELSE "recovery-error"
    /\ UNCHANGED <<server, store, appMinted, appLate, bounds>>

\* A 401 while the profile is loaded: the session has ended meanwhile, or the
\* guard of the API could not load the identity.
ProfileDenied(a) ==
    /\ At(a, "profile")
    /\ IF Live
       THEN hiccups < MaxHiccups /\ hiccups' = hiccups + 1
       ELSE UNCHANGED hiccups
    /\ \/ /\ handler = "none"
          /\ \E b \in Attempts \ {a} :
                /\ At(b, "idle")
                /\ handler' = b
                /\ attempt' = [attempt EXCEPT ![a].stage = "joined", ![b].stage = "begun"]
       \/ /\ handler # "none"
          /\ attempt' = [attempt EXCEPT ![a].stage = "joined"]
          /\ UNCHANGED handler
    /\ UNCHANGED <<server, store, appMinted, screen, appLate, appRefusals, kills>>

\* refreshPromise is settled: the request goes out again, without a retry.
Resume(a) ==
    /\ At(a, "joined") /\ handler = "none"
    /\ attempt' = [attempt EXCEPT ![a].stage = "waiting"]
    /\ UNCHANGED <<server, store, appMinted, screen, handler, appLate, bounds>>

\* Its second 401 signs the resident out.
DeniedAgain(a) ==
    /\ At(a, "waiting") /\ ~Live
    /\ End(a) /\ store' = NoCredentials /\ screen' = "signed-out"
    /\ UNCHANGED <<server, appMinted, appLate, bounds>>

-----------------------------------------------------------------------------
(* Sign-in, sign-out, the process *)

\* verifyOtp or unlockPin: the session is given, commitSession follows.
AppSignedIn(a, s) ==
    /\ screen = "signed-out" /\ Quiet
    /\ SignIn(s)
    /\ attempt' = [attempt EXCEPT ![a] =
                     [stage |-> "answered", entering |-> TRUE,
                      with |-> [session |-> s, token |-> 1, key |-> 0]]]
    /\ UNCHANGED <<store, appMinted, screen, handler, appLate, bounds>>

AppLogout ==
    /\ screen = "authenticated" /\ store # NoCredentials
    /\ Revoke(store.session) \/ UNCHANGED server
    /\ store' = NoCredentials /\ screen' = "signed-out"
    /\ UNCHANGED <<appMinted, attempt, handler, appLate, bounds>>

\* The process dies and the app is started again.
Restarted ==
    /\ kills < MaxKills
    /\ kills' = kills + 1
    /\ screen' = "booting"
    /\ attempt' = [a \in Attempts |-> Idle] /\ handler' = "none"
    /\ appLate' = appLate \cup
                     {AppRequest(attempt[a].with) : a \in {b \in Attempts : At(b, "sent")}}
    /\ UNCHANGED <<server, store, appMinted, appRefusals, hiccups>>

Runs(a) ==
    \/ ReadStore(a) \/ Answered(a) \/ GiveUp(a) \/ Save(a)
    \/ ProfileLoaded(a) \/ ProfileFails(a) \/ ProfileDenied(a) \/ Resume(a) \/ DeniedAgain(a)

Outside == \E s \in Sessions : Revoke(s) \/ Lapse(s)

ResidentNext ==
    \/ \E a \in Attempts :
          \/ BootTimer(a) \/ Retry(a) \/ Denied(a) \/ AppThrottled(a) \/ Runs(a)
          \/ \E s \in Sessions : AppSignedIn(a, s)
    \/ \E r \in appLate : AppServedLate(r) \/ AppDropped(r)
    \/ AppLogout \/ Restarted
    \/ (Outside \/ WindowPasses) /\ UNCHANGED <<app, appLate, bounds>>

ResidentSpec == ResidentInit /\ [][ResidentNext]_residentVars

\* The timer fires; every await of an attempt settles, for each request is
\* aborted after 15 s and the store answers.
Fairness == \A a \in Attempts : WF_residentVars(BootTimer(a)) /\ WF_residentVars(Runs(a))

LiveSpec == ResidentSpec /\ Fairness

-----------------------------------------------------------------------------
(* Properties *)

\* Types of the app's variables (AuthProvider.tsx, storage.ts).
ResidentTypeOK ==
    /\ store \in Credentials \cup {NoCredentials}
    /\ screen \in {"booting", "recovery-error", "authenticated", "signed-out"}
    /\ \A a \in Attempts : attempt[a].stage \in Stages
    /\ handler \in Attempts \cup {"none"}
    /\ appLate \subseteq Requests

CarriesOn(c) ==
    LET stored == record[c.session][c.key] IN
    \/ c.token = newest[c.session] /\ stored = NoRecord
    \/ /\ stored.outcome = "rotated" /\ stored.token = c.token
       /\ stored.issued = newest[c.session]

\* A refusal for too many failures is stored under the key, which then carries nothing on.
Blocked(c) == record[c.session][c.key].outcome = "blocked"

\* A session the server keeps can be refreshed with what the device has stored,
\* whatever was lost, delayed, refused or killed (AuthProvider.tsx, storage.ts),
\* unless the limit on failures was met with it (credential-attempt.service.ts):
\* the key stays with the token until its successor is stored.
SessionKept ==
    store # NoCredentials /\ session[store.session] = "ACTIVE" => CarriesOn(store) \/ Blocked(store)

\* The recovery screen says "Your saved session could not be verified. Nothing
\* was changed on this device" (resident app _layout.tsx): while it is shown, a
\* session the server keeps is still carried by what is stored.
RecoveryLosesNothing == screen = "recovery-error" => SessionKept

\* The start of the app never stays on "Restoring secure session", unless the
\* API's guard has denied a live session (AuthProvider.tsx, api.ts): then a
\* second denial makes the refresh wait for itself, as RefreshEnds shows.
BootEnds == screen = "booting" ~> screen # "booting" \/ hiccups > 0

\* "Every routed screen or actionable panel implements ... session-expiry
\* behavior" (SCREEN_INVENTORY.md): a request that is refreshing the session
\* comes to an end, whatever the server has to say of it.
RefreshEnds ==
    \A a \in Attempts :
        handler = a /\ screen = "authenticated" ~> handler # a \/ screen # "authenticated"
=============================================================================
