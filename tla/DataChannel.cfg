\* Two key exchanges over two slots, a counter that reaches its limit.
SPECIFICATION Spec
CONSTANTS
    WindowSize = 2
    NumKeyIds = 2
    MaxCounter = 3
    MaxKeys = 2
    Payloads = {d1, d2}
SYMMETRY PayloadSymmetry
INVARIANTS
    TypeOK
    NonceUnique
    WindowExact
PROPERTY
    DeliversAtMostOnce
