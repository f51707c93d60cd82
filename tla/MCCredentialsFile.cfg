\* Two commands, two profiles.
SPECIFICATION Spec
CHECK_DEADLOCK FALSE
SYMMETRY MCSymmetry
CONSTANTS
    x = x
    y = y
    a = a
    b = b
    Procs = {x, y}
    Profiles = {a, b}
    Lines <- MCLines
    Old = Old
    Lost = Lost
    None = None
    Torn = Torn
INVARIANTS
    TypeOK
    KeysBelongTogether
    ZeroMeansSaved
PROPERTIES
    OtherProfilesKept
    AtomicWhenAlone
