CONSTANTS
    Events = {e1}
    Workers = {w1}
    MaxAttempts = 2
    BatchSize = 1
    Kinds = {"otp.deliver", "notice.published"}
SPECIFICATION KindSpec
CHECK_DEADLOCK FALSE
PROPERTY EventuallyServed
