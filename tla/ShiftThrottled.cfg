CONSTANTS
    Sessions = {s1}
    MaxTokens = 3
    MaxKeys = 4
    SubjectLimit = 5
    OriginLimit = 30
    MaxRefusals = 1
SPECIFICATION GuardSpec
CHECK_DEADLOCK FALSE
INVARIANT CredentialRemains
