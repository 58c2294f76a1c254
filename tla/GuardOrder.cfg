CONSTANTS
    Mutations = {m1, m2}
    Gates = {g1}
    ClaimLimit = 2
    Contested = {}
    Datable = {}
    Tapped = {m1, m2}
SPECIFICATION Spec
CHECK_DEADLOCK FALSE
SYMMETRY Interchangeable
INVARIANTS SyncedIsApplied AppliedInOrder NumbersNotReused
