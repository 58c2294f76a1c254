------------------------------ MODULE GuardShift ------------------------------
(***************************************************************************)
(* The guard app as the client of SessionRotation (apps/guard-app/src:     *)
(* rotateTokens of api/client.ts, auth/session-context.tsx,                *)
(* auth/storage.ts).  The refresh token and the idempotency key it is to   *)
(* be presented under are stored together; a copy in memory is what        *)
(* requests are built from.  One await is one step: requests are aborted   *)
(* after 20 s and may still reach the server, answers are lost, the app is *)
(* killed between any two steps.  Sign-in, sign-out and one rotation       *)
(* interleave.                                                             *)
(***************************************************************************)
EXTENDS SessionRotation

CONSTANT MaxRefusals  \* bound: requests the rate limiter refuses before the handler

ASSUME RefusalsBounded == MaxRefusals \in Nat

NoCredentials == [session |-> "none", token |-> 0, key |-> 0]
NoReply == [outcome |-> "none", issued |-> 0]

VARIABLES store,      \* SecureStore: credentials, the key beside the token
          memory,     \* refreshTokenRef and refreshIdempotencyKeyRef
          running,    \* the process is alive and has loaded its credentials
          minted,     \* idempotency keys generated so far
          rotation,   \* where rotateTokens is
          call,       \* the credentials it presents
          reply,      \* the answer it has
          shift,      \* where signIn or signOut is
          granted,    \* the session signIn was given
          late,       \* requests given up on that may still reach the server
          refusals,   \* requests the rate limiter refused
          mixed       \* history: a renewed key was put beside the token of another shift

app == <<store, memory, running, minted, rotation, call, reply, shift, granted>>
past == <<refusals, mixed>>
vars == <<server, app, late, past>>

Credentials == [session : Sessions, token : Tokens, key : Keys]
Request(c) == [session |-> c.session, token |-> c.token, key |-> c.key, sameDevice |-> TRUE]

GuardInit ==
    /\ Init
    /\ store = NoCredentials /\ memory = NoCredentials
    /\ running = TRUE
    /\ minted = 0
    /\ rotation = "idle" /\ call = NoCredentials /\ reply = NoReply
    /\ shift = "idle" /\ granted = NoCredentials
    /\ late = {}
    /\ refusals = 0 /\ mixed = FALSE

\* Mutant: a key in use stays with the device.
WithSameKey(s, n) ==
    [session |-> s, token |-> n, key |-> IF store.key = 0 THEN minted + 1 ELSE store.key]

\* newRefreshCredentials: the token with a key never used before.
WithNewKey(s, n) == [session |-> s, token |-> n, key |-> minted + 1]
Mint == minted < MaxKeys /\ minted' = minted + 1

RotationEnds == rotation' = "idle" /\ call' = NoCredentials /\ reply' = NoReply
ShiftStands == shift' = "idle" /\ granted' = NoCredentials

-----------------------------------------------------------------------------
(* rotateTokens, one at a time *)

StartRotation ==
    /\ running /\ rotation = "idle" /\ memory # NoCredentials
    /\ rotation' = "sent" /\ call' = memory
    /\ UNCHANGED <<server, store, memory, running, minted, reply, shift, granted, late, past>>

\* The handler runs and its answer arrives.
Answered ==
    /\ rotation = "sent"
    /\ Refresh(Request(call)) /\ reply' = ReplyIn(record', Request(call))
    /\ rotation' = "answered"
    /\ UNCHANGED <<store, memory, running, minted, call, shift, granted, late, past>>

\* The global ThrottlerGuard answers 429 before the handler.
Throttled ==
    /\ rotation = "sent" /\ refusals < MaxRefusals
    /\ refusals' = refusals + 1
    /\ reply' = Reply("throttled", 0)
    /\ rotation' = "answered"
    /\ UNCHANGED <<server, store, memory, running, minted, call, shift, granted, late, mixed>>

\* Mutant: a request without an answer retires its key.
GiveUpRetires ==
    /\ rotation = "sent"
    /\ Mint
    /\ store' = WithNewKey(call.session, call.token)
    /\ memory' = store'
    /\ RotationEnds
    /\ late' = late \cup {Request(call)}
    /\ UNCHANGED <<server, running, shift, granted, past>>

\* A 5xx, no connection, or 20 s without an answer: the credentials stay.
GiveUp ==
    /\ rotation = "sent"
    /\ RotationEnds
    /\ late' = late \cup {Request(call)}
    /\ UNCHANGED <<server, store, memory, running, minted, shift, granted, past>>

\* The request aborted is served after all; nobody reads the answer.
ServedLate(r) ==
    /\ r \in late
    /\ Refresh(r)
    /\ UNCHANGED <<app, late, past>>

Dropped(r) ==
    /\ late' = late \ {r}
    /\ r \in late
    /\ UNCHANGED <<server, app, past>>

\* onTokensRotated: first the store,
SaveRotated ==
    /\ rotation = "answered" /\ reply.outcome = "rotated"
    /\ Mint
    /\ store' = WithNewKey(call.session, reply.issued)
    /\ call' = store'
    /\ rotation' = "saved"
    /\ UNCHANGED <<server, memory, running, reply, shift, granted, late, past>>

\* then the references.
AdoptRotated ==
    /\ rotation = "saved"
    /\ memory' = call
    /\ RotationEnds
    /\ UNCHANGED <<server, store, running, minted, shift, granted, late, past>>

\* 401: onSessionExpired forgets the references, then clears the store.
Expired ==
    /\ rotation = "answered" /\ reply.outcome = "refused"
    /\ memory' = NoCredentials
    /\ rotation' = "clearing"
    /\ UNCHANGED <<server, store, running, minted, call, reply, shift, granted, late, past>>

ClearExpired ==
    /\ rotation = "clearing"
    /\ store' = NoCredentials
    /\ RotationEnds
    /\ UNCHANGED <<server, memory, running, minted, shift, granted, late, past>>

\* Any other 4xx: onRefreshRejected reads the store; if it has the token presented,
RenewalStarts ==
    /\ rotation = "answered" /\ reply.outcome \in {"blocked", "reused", "throttled"}
    /\ IF store.session = call.session /\ store.token = call.token
       THEN rotation' = "renewing" /\ UNCHANGED <<call, reply>>
       ELSE RotationEnds
    /\ UNCHANGED <<server, store, memory, running, minted, shift, granted, late, past>>

\* it is written back with a new key, whatever the store has by now,
RenewKey ==
    /\ rotation = "renewing"
    /\ Mint
    /\ store' = WithNewKey(call.session, call.token)
    /\ call' = store'
    /\ rotation' = "renewed"
    /\ UNCHANGED <<server, memory, running, reply, shift, granted, late, past>>

\* and the reference to the key follows, but not the one to the token, which may be
\* of another shift by now.
AdoptKey ==
    /\ rotation = "renewed"
    /\ memory' = IF memory = NoCredentials THEN memory ELSE [memory EXCEPT !.key = call.key]
    /\ mixed' = (mixed \/ (memory # NoCredentials /\ memory.session # call.session))
    /\ RotationEnds
    /\ UNCHANGED <<server, store, running, minted, shift, granted, late, refusals>>

-----------------------------------------------------------------------------
(* Sign-in, sign-out, the process *)

\* The server opens a session and the answer arrives.
SignInAnswered(s) ==
    /\ running /\ shift = "idle" /\ memory = NoCredentials
    /\ SignIn(s)
    /\ granted' = [NoCredentials EXCEPT !.session = s, !.token = 1]
    /\ shift' = "granted"
    /\ UNCHANGED <<store, memory, running, minted, rotation, call, reply, late, past>>

\* establishSession: the store, then the references.
SaveShift ==
    /\ shift = "granted"
    /\ Mint
    /\ store' = WithNewKey(granted.session, granted.token)
    /\ granted' = store'
    /\ shift' = "saved"
    /\ UNCHANGED <<server, memory, running, rotation, call, reply, late, past>>

AdoptShift ==
    /\ shift = "saved"
    /\ memory' = granted
    /\ ShiftStands
    /\ UNCHANGED <<server, store, running, minted, rotation, call, reply, late, past>>

\* expireSession by signOut, by a sign-in whose guardContext fails, or by a second
\* 401: the session is revoked or not, and either way the references are
\* forgotten, then the store cleared.
SignOut ==
    /\ running /\ shift = "idle" /\ memory # NoCredentials
    /\ \/ Revoke(memory.session)
       \/ UNCHANGED server
    /\ memory' = NoCredentials
    /\ shift' = "clearing"
    /\ UNCHANGED <<store, running, minted, rotation, call, reply, granted, late, past>>

ClearShift ==
    /\ shift = "clearing"
    /\ store' = NoCredentials
    /\ ShiftStands
    /\ UNCHANGED <<server, memory, running, minted, rotation, call, reply, late, past>>

\* The process is killed; what it has sent may still be served.
Killed ==
    /\ running
    /\ running' = FALSE
    /\ memory' = NoCredentials
    /\ RotationEnds /\ ShiftStands
    /\ late' = IF rotation = "sent" THEN late \cup {Request(call)} ELSE late
    /\ UNCHANGED <<server, store, minted, past>>

\* boot: the references are loaded from the store; credentials without the
\* metadata of the shift, saved after them, are cleared.
Boot ==
    /\ ~running
    /\ running' = TRUE
    /\ \/ memory' = store /\ UNCHANGED store
       \/ store' = NoCredentials /\ UNCHANGED memory
    /\ UNCHANGED <<server, minted, rotation, call, reply, shift, granted, late, past>>

GuardNext ==
    \/ StartRotation \/ Answered \/ Throttled \/ GiveUp
    \/ \E r \in late : ServedLate(r) \/ Dropped(r)
    \/ SaveRotated \/ AdoptRotated \/ Expired \/ ClearExpired
    \/ RenewalStarts \/ RenewKey \/ AdoptKey
    \/ \E s \in Sessions : SignInAnswered(s)
    \/ SaveShift \/ AdoptShift \/ SignOut \/ ClearShift
    \/ Killed \/ Boot
    \/ /\ \/ \E s \in Sessions : Revoke(s) \/ Lapse(s)
          \/ Bar \/ WindowPasses
       /\ UNCHANGED <<app, late, past>>

GuardSpec == GuardInit /\ [][GuardNext]_vars

-----------------------------------------------------------------------------
(* Properties *)

\* Types of the app's variables (session-context.tsx, storage.ts).
GuardTypeOK ==
    /\ TypeOK
    /\ store \in Credentials \cup {NoCredentials}
    /\ memory \in Credentials \cup {NoCredentials}
    /\ running \in BOOLEAN
    /\ minted \in 0..MaxKeys
    /\ rotation \in {"idle", "sent", "answered", "saved", "clearing", "renewing",
                     "renewed"}
    /\ shift \in {"idle", "granted", "saved", "clearing"}
    /\ late \subseteq Requests
    /\ refusals \in 0..MaxRefusals /\ mixed \in BOOLEAN

\* The credentials still carry their session on: their token is the current one,
\* under a key the server does not know for another request or has refused
\* without ending the session; or the answer that holds the current token is
\* stored under their key.
CarriesOn(c) ==
    LET stored == record[c.session][c.key] IN
    \/ c.token = newest[c.session] /\ (stored = NoRecord \/ stored.outcome = "blocked")
    \/ /\ stored.outcome = "rotated" /\ stored.token = c.token
       /\ stored.issued = newest[c.session]

\* "Its refresh credential and pending idempotency key remain secure on this
\* device" (guard app login.tsx): as long as the server keeps the session, what
\* the device has stored of it still works, whatever was lost or killed.
CredentialRemains ==
    store # NoCredentials /\ session[store.session] = "ACTIVE" => CarriesOn(store)

\* Nothing has yet happened that is known to spoil the credentials: a 429 of the
\* rate limiter, which retires a key the server may have stored an answer under, or
\* the key renewed for one shift beside the token of another.
Unspoilt == refusals = 0 /\ ~mixed

\* Until then the credential remains (session-context.tsx, storage.ts).
ShiftKept == Unspoilt => CredentialRemains

\* No loss, crash or delay makes the app present a token it has spent: only a
\* session that was revoked, or has lapsed, or whose device is barred, is refused.
NeverItsOwnReplay ==
    [][\A s \in Sessions :
        Unspoilt /\ session[s] = "ACTIVE" => session'[s] # "COMPROMISED"]_vars

\* A key is never presented with two tokens, so the server never answers 409
\* IDEMPOTENCY_KEY_REUSED: token and key are replaced together (storage.ts).
Presentable ==
    late \cup {Request(c) : c \in {store, memory, call} \ {NoCredentials}}
KeyForOneToken ==
    /\ \A q, r \in Presentable :
           q.session = r.session /\ q.key = r.key => q.token = r.token
    /\ \A r \in Presentable :
           Stored(r) = NoRecord \/ Stored(r).token = r.token
    /\ reply.outcome # "reused"
=============================================================================
