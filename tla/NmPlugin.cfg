\* Two calls at a time, up to two attempts.
SPECIFICATION PluginFairSpec
CONSTANTS
    Callers = {c1, c2}
    MaxTasks = 2
    None = None
INVARIANTS
    StartedIsConfigured
PROPERTY
    StartingSettles
CHECK_DEADLOCK FALSE
