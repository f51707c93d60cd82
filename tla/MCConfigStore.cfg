\* Three commands, any of which may run at the same time.
SPECIFICATION Spec
CHECK_DEADLOCK FALSE
SYMMETRY MCSymmetry
CONSTANTS
    x = x
    y = y
    z = z
    Old = Old
    Unset = Unset
    Absent = Absent
    Empty = Empty
    Torn = Torn
    Error = Error
    Procs = {x, y, z}
INVARIANTS
    TypeOK
    LostOnlyToOverlap
PROPERTIES
    UnreadableForGood
    AtomicWhenAlone
