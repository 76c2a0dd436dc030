SPECIFICATION Spec
CONSTANTS
    Ids = {i1, i2}
    Users = {u1}
    Tasks = {t1, t2}
    Kids = {1, 2}
    MaxLookups = 2
    Window = 2
    Lifetime = 1
    Ttl = 1
    Delay = 0
    MaxTime = 3
    None = None
INVARIANTS PendingIsIndexed LoginIsOwn LookupsBounded
PROPERTY WithdrawnKeyDies
SYMMETRY Symmetry
CHECK_DEADLOCK FALSE
