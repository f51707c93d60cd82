\* As MCLogin.cfg, with one request in flight and no symmetry.
SPECIFICATION FairSpec
CHECK_DEADLOCK FALSE
CONSTANTS
    a = a
    b = b
    r1 = r1
    r2 = r2
    p1 = p1
    p2 = p2
    None = None
    Logins = {a, b}
    Conns = {r1}
    CallbackPorts <- MCPorts
    Contested = {p2}
PROPERTY EndsUnlessInCall
