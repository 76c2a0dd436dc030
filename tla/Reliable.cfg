\* Five packets through a window of three, a buffer of two that overflows.
SPECIFICATION Spec
CONSTANTS
    SendWindow = 3
    MaxRetransmits = 1
    MaxOutOfOrder = 2
    MaxSends = 5
    MaxBatch = 2
INVARIANTS
    InOrderOnce
    AckedIsHeld
    BufferAhead
CHECK_DEADLOCK FALSE
