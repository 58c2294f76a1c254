CONSTANTS
    Sessions = {s1}
    Attempts = {a1, a2}
    Impatient = FALSE
    MaxTokens = 3
    MaxKeys = 3
    SubjectLimit = 5
    OriginLimit = 30
    MaxAppRefusals = 0
    MaxKills = 0
    MaxHiccups = 0
SPECIFICATION LiveSpec
CHECK_DEADLOCK FALSE
PROPERTY RefreshEnds
