SPECIFICATION Spec
CONSTANTS
  Starter = {s1, s2}
  Stopper = {p1, p2}
  Loop = {janitor}
  PollInterval = 1
  PollMaxBackoff = 2
  BatchSize = 1
  MaxRows = 1
  MaxErrors = 1
INVARIANTS QuietAfterReturn NoLostWakeup
PROPERTIES RowsGetClaimed ParentEndsStart StopEndsStart
CHECK_DEADLOCK FALSE
