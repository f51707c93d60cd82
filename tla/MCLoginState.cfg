SPECIFICATION Spec
CHECK_DEADLOCK FALSE
SYMMETRY MCSymmetry
CONSTANTS
    a = a
    b = b
    r1 = r1
    r2 = r2
    p1 = p1
    p2 = p2
    None = None
    Logins = {a, b}
    Conns = {r1, r2}
    CallbackPorts <- MCPorts
    Contested = {p2}
INVARIANT OnlyOwnStateIsExchanged
