CONSTANTS
    Mutations = {m1}
    Gates = {g1}
    ClaimLimit = 1
    Contested = {m1}
    Datable = {m1}
    Tapped = {}
SPECIFICATION FairSpec
CHECK_DEADLOCK FALSE
PROPERTY DecidedWhileLeased
