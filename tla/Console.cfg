CONSTANTS
    Lists = {"users", "family", "events"}
    Ids = {1, 2, 3}
    MaxAt = 2
    Ticks = 2
    Limit = 1
    MaxPages = 5
    ShownScreens <- Screens
    FlatOf <- RequesterFlats
    Assignments <- RequesterRoles
    Gates = {"g1"}
    RequestKeys <- SomeRoutes
    MaxEdits = 2
    Submitted <- SomeCalls
    MaxKept = 1
    MaxTries = 3
SPECIFICATION ConsoleRunSpec
CHECK_DEADLOCK FALSE
INVARIANTS RegularWalkComplete DecisionsGrounded RetriesTakeEffectOnce
PROPERTY RefusalsExplained
