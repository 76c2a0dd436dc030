\* Two windows, one worker, three sessions with room for two at a time.
SPECIFICATION Spec
CONSTANTS
    Workers = {w1}
    max_sessions = 2
    Lifetime = 0
    MaxIds = 3
    MaxTime = 1
    None = None
    Tabs = {t1, t2}
    TokenLife = 1
    MaxForms = 2
SYMMETRY MCSymmetry
VIEW MCView
INVARIANTS
    RemovedStaysRemoved
    CapacityHeld
    OneFormIsValid
PROPERTY
    DisconnectedAreGone
