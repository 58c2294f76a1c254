CONSTANTS
    Mutations = {m1}
    Gates = {g1}
    ClaimLimit = 1
    Contested = {}
    Datable = {}
    Tapped = {}
SPECIFICATION FairSpec
CHECK_DEADLOCK FALSE
PROPERTY EventuallyDecided
