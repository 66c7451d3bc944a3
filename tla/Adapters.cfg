SPECIFICATION DeploymentSpec
CONSTANTS
    Msg = {m1}
    Worker = {w1, w2}
    Slot = {s1, s2}
    None = None
    Batch = 1
    MaxAttempts = 2
    MaxDisruptions = 3
    Deadlocks = TRUE
INVARIANTS
    DrainedIsSettled
PROPERTY
    EventuallySettled
CHECK_DEADLOCK FALSE
