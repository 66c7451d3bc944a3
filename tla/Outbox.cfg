SPECIFICATION Spec
CONSTANTS
    Msg = {m1, m2}
    Worker = {w1, w2}
    Slot = {s1, s2}
    None = None
    Batch = 2
    MaxAttempts = 2
    MaxDisruptions = 3
SYMMETRY Symmetry
INVARIANTS
    StaleCopyCannotSettle
    OwnerCanSettle
    AttemptsAccounted
    CancelledOnlyWhenLost
PROPERTY
    ImplementsLeaseQueue
CHECK_DEADLOCK FALSE
