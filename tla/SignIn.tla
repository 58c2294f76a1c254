------------------------------- MODULE SignIn -------------------------------
(***************************************************************************)
(* The sign-ins of one person from several requests at once: OTP           *)
(* (auth.service.ts), resident PIN (resident-pin.service.ts), guard PIN    *)
(* with device enrollment (guard-auth.service.ts) or administrator         *)
(* password with TOTP (admin-auth.service.ts, mfa-verifier.ts, with the    *)
(* script provision-admin.ts that replaces both), with the attempt limits  *)
(* of credential-attempt.service.ts.                                       *)
(*                                                                         *)
(* A request looks the credential up and verifies it outside the           *)
(* transaction that decides, so what it verified may have changed.  The    *)
(* transaction reads the snapshot of its first statement; as each one      *)
(* ends in the audit chain (module Journal), PostgreSQL aborts it when     *)
(* another committed since.  The advisory lock of attempts.allowed does    *)
(* not help: it is taken after the snapshot.  Replays are Journal's.       *)
(***************************************************************************)
EXTENDS Naturals, Sequences, FiniteSets

CONSTANTS Calls,           \* requests under way
          SubjectLimit,    \* failures allowed in the window (5 in the code)
          OtpMaxAttempts,  \* guesses per challenge (5)
          MaxChallenges,   \* challenges the phone may request in the window (3)
          MaxStep          \* bound: TOTP periods that pass

ASSUME LimitsNatural ==
    /\ SubjectLimit \in Nat /\ OtpMaxAttempts \in Nat \ {0}
    /\ MaxChallenges \in Nat /\ MaxStep \in Nat \ {0}

Methods == {"otp", "pin", "guard", "admin"}
NoSession == [verified |-> 0, stored |-> 0, device |-> "NONE", factor |-> TRUE]
Resting == [stage |-> "idle"]

VARIABLES method,     \* the sign-in this behaviour is about: each has limits of its own
          account,    \* what the decisions read and write (see SignInInit)
          totpUsed,   \* last_used_time_step of the ACTIVE row of mfa_credentials
          clock,      \* the TOTP period
          call,       \* what each request verified, and its snapshot
          judged,     \* history: guesses judged wrong in the window, per counter
          granted,    \* history: sessions opened by a challenge, TOTP step or token
          session     \* history: on what the last session was opened

signInVars == <<method, account, totpUsed, clock, call, judged, granted, session>>

Counters == {"secret", "totp"}
Proofs == [kind : {"otp"}, n : 1..MaxChallenges]
              \cup [kind : {"totp"}, n : 1..MaxStep + 1, secret : {1, 2}]
              \cup [kind : {"token"}, n : {1}]

\* An administrator is provisioned, with the authenticator confirmed before
\* the first period here, or is a row the script has not met yet, which
\* signIn serves with the password alone.
SignInInit ==
    /\ method \in Methods
    /\ \E enabled \in BOOLEAN :
         /\ enabled => method = "admin"
         /\ account = [challenges |-> <<>>,
                       failures |-> [k \in Counters |-> 0],  \* FAILURE and BLOCKED in the window
                       credential |-> 1,                     \* pinHash or passwordHash, by version
                       mfaEnabled |-> enabled,
                       device |-> "NONE",                    \* devices and guard_devices status
                       token |-> "NONE"]                     \* enrollment_token_digest
    /\ totpUsed = 0 /\ clock = 1
    /\ call = [c \in Calls |-> Resting]
    /\ judged = [k \in Counters |-> 0]
    /\ granted = [p \in Proofs |-> 0]
    /\ session = NoSession

history == <<judged, granted, session>>

\* Mutant: REPEATABLE READ, where nothing watches what a transaction has read.
DoomedNever(d) == FALSE

\* Another transaction commits while this one is open.
Doomed(d) == TRUE

\* COMMIT of c's transaction (of none of the calls, if c is none of them).
Committed(c) ==
    [d \in Calls |-> IF d = c THEN Resting
                     ELSE IF call[d].stage = "open" /\ Doomed(d) THEN [stage |-> "doomed"]
                     ELSE call[d]]

OtherCommits == call' = Committed("none") /\ UNCHANGED <<method, totpUsed, clock, history>>

-----------------------------------------------------------------------------
(* Around the sign-ins *)

\* requestOtp: within the phone's limits, the pending challenge is superseded
\* and a new one created.
RequestOtp ==
    /\ method = "otp" /\ Len(account.challenges) < MaxChallenges
    /\ account' = [account EXCEPT !.challenges =
         Append([i \in DOMAIN @ |-> IF @[i].status = "PENDING"
                                    THEN [@[i] EXCEPT !.status = "SUPERSEDED"] ELSE @[i]],
                [status |-> "PENDING", attempts |-> 0, lapsed |-> FALSE])]
    /\ OtherCommits

\* expires_at of a challenge passes.
ChallengeLapses ==
    /\ \E i \in DOMAIN account.challenges :
         ~account.challenges[i].lapsed /\ account' = [account EXCEPT !.challenges[i].lapsed = TRUE]
    /\ UNCHANGED <<method, totpUsed, clock, call, history>>

\* setPin by a recently authenticated session; one change, here and in
\* provision, is enough for a stale reader (bound).
ChangeCredential ==
    /\ method \in {"pin", "guard"} /\ account.credential = 1
    /\ account' = [account EXCEPT !.credential = 2]
    /\ OtherCommits

\* provision-admin.ts, one transaction: the password is replaced, the second
\* factor enabled, the TOTP credential revoked for a new one.  The period its
\* code was confirmed in, before the transaction, counts as used; secret and
\* password have one version.
provision ==
    /\ method = "admin" /\ account.credential = 1
    /\ account' = [account EXCEPT !.credential = 2, !.mfaEnabled = TRUE]
    /\ \E n \in 0..clock + 1 : totpUsed' = n
    /\ call' = Committed("none")
    /\ UNCHANGED <<method, clock, history>>

\* An enrollment token is stored with the pending guard device (nothing under
\* src/ issues it; completeEnrollment says what it must look like).
IssueToken ==
    /\ account.device = "PENDING" /\ granted[[kind |-> "token", n |-> 1]] = 0
    /\ account' = [account EXCEPT !.token = "ISSUED"]
    /\ OtherCommits

\* enrollment_expires_at passes.
TokenLapses ==
    /\ account.token = "ISSUED"
    /\ account' = [account EXCEPT !.token = "NONE"]
    /\ UNCHANGED <<method, totpUsed, clock, call, history>>

\* The device is reported lost or revoked (or turns out to be another user's).
DeviceLost ==
    /\ account.device \in {"PENDING", "ACTIVE"}
    /\ account' = [account EXCEPT !.device = "LOST"]
    /\ OtherCommits

Tick ==
    /\ method = "admin" /\ clock < MaxStep
    /\ clock' = clock + 1
    /\ UNCHANGED <<method, account, totpUsed, call, history>>

\* The attempts leave the window of 15 minutes.
AttemptsLapse ==
    /\ \E k \in Counters : account.failures[k] # 0
    /\ \A c \in Calls : call[c].stage = "idle"
    /\ account' = [account EXCEPT !.failures = [k \in Counters |-> 0]]
    /\ judged' = [k \in Counters |-> 0]
    /\ UNCHANGED <<method, totpUsed, clock, call, granted, session>>

-----------------------------------------------------------------------------
(* A sign-in *)

\* The candidate is read and the secret verified against it.  An OTP is judged
\* inside the transaction, but its request names the challenge.
Attempt(c) ==
    /\ call[c].stage = "idle"
    /\ \E right, tokenShown \in BOOLEAN, n \in 0..MaxChallenges :
         /\ IF method = "otp" THEN n \in DOMAIN account.challenges ELSE n = 0
         /\ tokenShown => method = "guard"
         /\ call' = [call EXCEPT ![c] =
              [stage |-> "read", right |-> right, target |-> n, tokenShown |-> tokenShown,
               credential |-> account.credential, step |-> 0,
               mfa |-> IF method = "admin" /\ right /\ account.mfaEnabled THEN "required" ELSE "none",
               view |-> <<>>]]
    /\ UNCHANGED <<method, account, totpUsed, clock, history>>

\* Mutant: the step of the code is checked but not used up.
ConsumedNot(n) == totpUsed

Consumed(n) == n

\* MfaVerifierService.verify, a transaction of its own: a code of the present
\* period or a neighbour, later than the last one used, is used up.
VerifyTotp(c) ==
    /\ call[c].stage = "read" /\ call[c].mfa = "required"
    /\ \/ \E n \in {clock - 1, clock, clock + 1} :
            /\ n > totpUsed
            /\ totpUsed' = Consumed(n)
            /\ call' = [call EXCEPT ![c].mfa = "verified", ![c].step = n]
       \/ /\ \E r \in {"missing", "invalid"} : call' = [call EXCEPT ![c].mfa = r]
          /\ UNCHANGED totpUsed
    /\ UNCHANGED <<method, account, clock, history>>

\* The transaction's first statement takes its snapshot.
Open(c) ==
    /\ call[c].stage = "read" /\ call[c].mfa # "required"
    /\ call' = [call EXCEPT ![c].stage = "open", ![c].view = account]
    /\ UNCHANGED <<method, account, totpUsed, clock, history>>

\* attempts.record of FAILURE or BLOCKED; the count matters up to the limit.
Counted(base, k) == [base EXCEPT !.failures[k] = IF @ < SubjectLimit THEN @ + 1 ELSE @]

Ends(c, newDb) == account' = newDb /\ call' = Committed(c) /\ UNCHANGED <<method, totpUsed, clock>>

\* A guess is refused with a verdict, or without one.
Wrong(c, newDb, k) ==
    /\ Ends(c, Counted(newDb, k))
    /\ judged' = [judged EXCEPT ![k] = IF @ <= SubjectLimit THEN @ + 1 ELSE @]
    /\ UNCHANGED <<granted, session>>

Refused(c, newDb) == Ends(c, newDb) /\ UNCHANGED history

\* createWithinTransaction.
OpenSession(c, newDb, proofs) ==
    /\ Ends(c, newDb)
    /\ granted' = [p \in Proofs |->
         IF p \in proofs /\ granted[p] < 2 THEN granted[p] + 1 ELSE granted[p]]
    /\ session' = [verified |-> call[c].credential, stored |-> account.credential,
                   device |-> newDb.device, factor |-> account.mfaEnabled => call[c].mfa = "verified"]
    /\ UNCHANGED judged

Blocked(c, k) == call[c].view.failures[k] >= SubjectLimit

\* attempts.allowed refuses: recorded as BLOCKED, which counts like a failure.
CommitBlocked(c) == Blocked(c, "secret") /\ Refused(c, Counted(account, "secret"))

\* verifyOtp: only the newest challenge, then verifyOtpChallenge: used, expired,
\* out of attempts, wrong, right.  A right code of a member of staff or of an
\* unknown person is spent and refused.
CommitOtp(c) ==
    LET n == call[c].target
        seen == call[c].view.challenges[n]
        newest == n = Len(call[c].view.challenges)
        lapsed == account.challenges[n].lapsed  \* expires_at against the clock, not the snapshot
        marked(st, tried) == [account EXCEPT !.challenges[n].status = st,
                                             !.challenges[n].attempts = seen.attempts + tried]
    IN
    /\ method = "otp"
    /\ \/ /\ ~newest \/ seen.status = "VERIFIED"
          /\ Refused(c, Counted(account, "secret"))
       \/ /\ newest /\ seen.status # "VERIFIED" /\ lapsed
          /\ Refused(c, Counted(marked("EXPIRED", 0), "secret"))
       \/ /\ newest /\ seen.status # "VERIFIED" /\ ~lapsed
          /\ seen.attempts >= OtpMaxAttempts
          /\ Refused(c, Counted(marked("LOCKED", 0), "secret"))
       \/ /\ newest /\ seen.status # "VERIFIED" /\ ~lapsed
          /\ seen.attempts < OtpMaxAttempts
          /\ IF call[c].right
             THEN \/ OpenSession(c, marked("VERIFIED", 1), {[kind |-> "otp", n |-> n]})
                  \/ Refused(c, Counted(marked("VERIFIED", 1), "secret"))
             ELSE Wrong(c, marked(IF seen.attempts + 1 = OtpMaxAttempts
                                  THEN "LOCKED" ELSE seen.status, 1), "secret")

\* Mutant: the hash that was verified is not compared again.
CurrentAnyway(c) == call[c].right

\* The secret was right and the hash it was verified against is still stored.
Current(c) == call[c].right /\ call[c].credential = call[c].view.credential

CommitPin(c) ==
    /\ method = "pin"
    /\ IF Current(c) THEN OpenSession(c, account, {}) ELSE Wrong(c, account, "secret")

\* The guard's PIN, then the device: lost; enrolling with a token (whose expiry
\* updateMany compares again); not enrolled, and made PENDING; active.
CommitGuard(c) ==
    LET seen == call[c].view IN
    /\ method = "guard"
    /\ \/ (~Current(c) \/ seen.device = "LOST") /\ Wrong(c, account, "secret")
       \/ /\ Current(c) /\ seen.device # "LOST" /\ call[c].tokenShown
          /\ IF seen.device = "PENDING" /\ account.token = "ISSUED"
             THEN OpenSession(c, [account EXCEPT !.device = "ACTIVE", !.token = "NONE"],
                              {[kind |-> "token", n |-> 1]})
             ELSE Wrong(c, account, "secret")
       \/ /\ Current(c) /\ seen.device \in {"NONE", "PENDING"} /\ ~call[c].tokenShown
          /\ Refused(c, [account EXCEPT !.device = "PENDING"])
       \/ /\ Current(c) /\ seen.device = "ACTIVE" /\ ~call[c].tokenShown
          /\ OpenSession(c, account, {})

\* The administrator's password, then the second factor as it is enabled now;
\* a request that was not asked for it has brought a code or not.
CommitAdmin(c) ==
    LET seen == call[c].view IN
    /\ method = "admin"
    /\ \/ ~Current(c) /\ Wrong(c, account, "secret")
       \/ Current(c) /\ ~seen.mfaEnabled /\ OpenSession(c, account, {})
       \/ Current(c) /\ seen.mfaEnabled /\ call[c].mfa \in {"missing", "none"} /\ Refused(c, account)
       \/ /\ Current(c) /\ seen.mfaEnabled /\ call[c].mfa # "missing"
          /\ \/ Blocked(c, "totp") /\ Refused(c, Counted(account, "totp"))
             \/ /\ ~Blocked(c, "totp") /\ call[c].mfa = "verified"
                /\ OpenSession(c, account, {[kind |-> "totp", n |-> call[c].step,
                                              secret |-> call[c].credential]})
             \/ ~Blocked(c, "totp") /\ call[c].mfa # "verified" /\ Wrong(c, account, "totp")

DecideSignIn(c) ==
    /\ call[c].stage = "open"
    /\ \/ CommitBlocked(c)
       \/ ~Blocked(c, "secret") /\ (CommitOtp(c) \/ CommitPin(c) \/ CommitGuard(c) \/ CommitAdmin(c))

\* A doomed transaction fails, any may: the client sees an error and no verdict
\* and nothing is recorded - but a TOTP step stays used.
Aborts(c) ==
    /\ call[c].stage # "idle"
    /\ call' = [call EXCEPT ![c] = Resting]
    /\ UNCHANGED <<method, account, totpUsed, clock, history>>

SignInNext ==
    \/ RequestOtp \/ ChallengeLapses \/ ChangeCredential \/ provision
    \/ IssueToken \/ TokenLapses \/ DeviceLost \/ Tick \/ AttemptsLapse
    \/ \E c \in Calls : Attempt(c) \/ VerifyTotp(c) \/ Open(c) \/ DecideSignIn(c) \/ Aborts(c)

SignInSpec == SignInInit /\ [][SignInNext]_signInVars

-----------------------------------------------------------------------------
(* Properties *)

SignInTypeOK ==
    /\ account.device \in {"NONE", "PENDING", "ACTIVE", "LOST"}
    /\ account.failures \in [Counters -> 0..SubjectLimit]
    /\ totpUsed \in 0..(MaxStep + 1)
    /\ \A i \in DOMAIN account.challenges :
         account.challenges[i].status \in {"PENDING", "VERIFIED", "SUPERSEDED", "LOCKED", "EXPIRED"}
    /\ \A c \in Calls : call[c].stage \in {"idle", "read", "open", "doomed"}

\* Overlapping guesses are not judged beyond the limits: no more than
\* SubjectLimit wrong ones in a window, no more than OtpMaxAttempts per
\* challenge (credential-attempt.service.ts, verifyOtpChallenge).
GuessesBounded ==
    /\ \A k \in Counters : judged[k] <= SubjectLimit
    /\ \A i \in DOMAIN account.challenges : account.challenges[i].attempts <= OtpMaxAttempts

\* A challenge, a TOTP step (of one secret), an enrollment token opens one
\* session at most, whatever overlaps, aborts, is replaced or is sent again.
ProofsSpentOnce == \A p \in Proofs : granted[p] <= 1

\* A session is opened on the credential stored when it is opened, not on the
\* one the request verified; with the second factor if it is enabled by then;
\* a guard's on an active device.
SessionOnLiveCredential ==
    session # NoSession =>
      /\ session.verified = session.stored
      /\ session.factor
      /\ method = "guard" => session.device = "ACTIVE"
=============================================================================
