\* receive takes buffered packets out of its buffer without delivering them.
SPECIFICATION Spec
CONSTANTS
    SendWindow = 3
    MaxRetransmits = 1
    MaxOutOfOrder = 2
    MaxSends = 3
    MaxBatch = 2
INVARIANT
    BufferedIsDelivered
CHECK_DEADLOCK FALSE
