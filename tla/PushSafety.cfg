CONSTANTS
    Events = {e1, e2}
    Workers = {w1, w2}
    Deliveries = {d1}
    MaxAttempts = 2
    BatchSize = 1
SPECIFICATION PushSpec
SYMMETRY Interchangeable
CHECK_DEADLOCK FALSE
INVARIANT SendsBounded
PROPERTIES TerminalOutcomesStand RunsOnTheOutbox
