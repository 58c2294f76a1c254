CONSTANTS
    Mutations = {m1, m2}
    Gates = {g1, g2}
    ClaimLimit = 1
    Contested = {}
    Datable = {}
    Tapped = {}
SPECIFICATION Spec
CHECK_DEADLOCK FALSE
SYMMETRY Interchangeable
INVARIANT NoneLeftSyncing
