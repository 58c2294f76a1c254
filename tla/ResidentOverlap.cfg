CONSTANTS
    Sessions = {s1}
    Attempts = {a1, a2, a3}
    Impatient = TRUE
    MaxTokens = 3
    MaxKeys = 4
    SubjectLimit = 5
    OriginLimit = 30
    MaxAppRefusals = 0
    MaxKills = 0
    MaxHiccups = 0
SPECIFICATION ResidentSpec
CHECK_DEADLOCK FALSE
SYMMETRY Interchangeable
INVARIANT RecoveryLosesNothing
