\* One attempt, with and without a login; the loops' limits are reached.
SPECIFICATION FairSpec
CONSTANTS
    MaxHandshake = 3
    MaxKm = 8
    PingRestart = 2
INVARIANTS
    DataPlaneIsReady
PROPERTIES
    TaskSpec
    Settles
    SilenceEnds
CHECK_DEADLOCK FALSE
