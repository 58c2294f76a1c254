CONSTANTS
    Requests = {q1, q2}
    Keys = {k1, note}
    Bodies = {b1}
    Relaxed = {note}
    MaxSends = 1
SPECIFICATION JournalSpec
CHECK_DEADLOCK FALSE
INVARIANT AuditChainUnbroken
