CONSTANTS
    Admins = {a1}
    Roles = {clerk}
    MaxChanges = 6
SPECIFICATION CaseworkSpec
INVARIANT OnlyDeclaredSteps
