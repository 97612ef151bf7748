SPECIFICATION Spec
CONSTANTS
    Callers = {c1, c2, c3}
    Keys = {k1, k2}
    Entries = {e1, e2, e3}
    Conns = {x1, x2, x3}
    NoKey = NoKey
    NoEntry = NoEntry
    NoConn = NoConn
    MAX_CONN = 2
    MAX_TOTAL_IDLE = 2
INVARIANTS
    IdleAccounted
    ConnectionsBounded
    SlotsAccounted
PROPERTIES
    ImplementsConnUse
SYMMETRY
    Symmetry
