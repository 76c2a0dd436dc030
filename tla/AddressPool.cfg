\* A /29 with five hosts for clients, an IPv6 range that runs out before it.
SPECIFICATION Spec
CONSTANTS
    Callers = {c1, c2, c3}
    HasV4 = TRUE
    HasV6 = TRUE
    Broadcast = 7
    V6Last = 3
    V6Search = 2
SYMMETRY CallerSymmetry
INVARIANTS
    NoSharedAddress
    ReservedKept
CHECK_DEADLOCK FALSE
