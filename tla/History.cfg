\* Two processes, two messages: batches of two, and stale copies beside a claim.
SPECIFICATION HistorySpec
CONSTANTS
    Msg = {m1, m2}
    Proc = {p1, p2}
    MaxAttempts = 2
    MaxClaims = 3
    MaxEvents = 2
SYMMETRY Symmetry
INVARIANTS SettledIsRecorded RefusedOnlyAfterDisturbance
CHECK_DEADLOCK FALSE
