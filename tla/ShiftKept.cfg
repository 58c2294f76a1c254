CONSTANTS
    Sessions = {s1, s2}
    MaxTokens = 3
    MaxKeys = 3
    SubjectLimit = 5
    OriginLimit = 1
    MaxRefusals = 1
SPECIFICATION GuardSpec
CHECK_DEADLOCK FALSE
SYMMETRY Interchangeable
INVARIANTS ShiftKept KeyForOneToken
