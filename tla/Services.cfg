CONSTANTS
    Requests = {q1, q2}
    Keys = {k1, k2, note}
    Bodies = {b1, b2}
    Relaxed = {note}
    MaxSends = 3
    Calls = {c1, c2}
    SubjectLimit = 2
    OtpMaxAttempts = 1
    MaxChallenges = 2
    MaxStep = 2
    Events = {e1}
    Workers = {w1, w2}
    MaxAttempts = 2
    BatchSize = 1
    Admins = {a1, a2}
    Payments = {p1, p2}
    Charges = {d1, d2}
    Flats = {f1, f2}
    References = {r1, r2}
    Total = 2
    MaxAmount = 2
    Memberships = {m1, m2}
    Users = {u1}
    Notices = {n1}
    MaxDecisions = 4
    Roles = {clerk}
    MaxChanges = 4
    MaxEvents = 6
    Files = {upload}
    Scanners = {s1, s2, s3}
SPECIFICATION ServicesSpec
CHECK_DEADLOCK FALSE
INVARIANTS OneEffectPerKey GuessesBounded ProofsSpentOnce SessionOnLiveCredential LedgerBalances RosterConsistent TrailsAgree OneStory FilesSafe
PROPERTIES VerdictStands LateOutcomeHarmless
