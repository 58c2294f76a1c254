CONSTANTS
    Events = {e1, e2}
    Workers = {w1, w2}
    MaxAttempts = 2
    BatchSize = 2
SPECIFICATION FairSpec
CHECK_DEADLOCK FALSE
INVARIANTS LedgerAgrees AttemptsNotShared PublishedWasHandled
PROPERTIES SettledForever EventuallySettled ImplementsPromise
