CONSTANTS
    Sessions = {s1}
    Attempts = {a1, a2}
    Tabs = {t1}
    MaxTokens = 3
    MaxKeys = 4
    SubjectLimit = 2
    OriginLimit = 3
    MaxAppRefusals = 1
    MaxWebRefusals = 1
    Impatient = FALSE
    MaxKills = 2
    MaxHiccups = 1
    MaxDue = 2
    BatchSize = 2
SPECIFICATION ClientsSpec
CHECK_DEADLOCK FALSE
INVARIANTS OneCurrentToken AnswerRecoverable ExchangedOnce SessionKept CookieKept
PROPERTIES EndsForGood BootEnds StopComesToRest WakesServed
