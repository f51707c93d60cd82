\* One shell; every bound is explained in README.md.
SPECIFICATION Spec
CONSTANTS
    a = a
    b = b
    admin = admin
    reader = reader
    ADMIN = ADMIN
    MaxNodes = 4
    MaxValues = 2
    Segments = {admin, reader, ADMIN}
    Fold <- MCFold
    None = None
    Ids = {a, b}
    Cached = {a}
    Roles = {admin, reader}
    RolesOf <- MCRolesOf
    Offered <- MCValues
    Lines <- MCLines
    Settings <- MCSettings
    DefaultTimeRemaining = 1
    Hour = 1
    Half = 4
    MinDuration = 1
    MaxDuration = 2
    SessionLife = 1
    MaxTime = 2
INVARIANTS
    PrintedHaveRole
