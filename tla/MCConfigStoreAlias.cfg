SPECIFICATION Spec
CHECK_DEADLOCK FALSE
CONSTANTS
    x = x
    y = y
    z = z
    Old = Old
    Unset = Unset
    Absent = Absent
    Empty = Empty
    Torn = Torn
    Error = Error
    Procs = {x, y}
INVARIANT AliasSticks
