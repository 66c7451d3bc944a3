SPECIFICATION Spec
CONSTANTS
  Kinds <- AllKinds
  Given = {0, 1, 2, 6}
  DefaultMax = 5
  OptionMax = 3
  Base = 4
  MaxDelay = 24
  Jitter = 50
  Second = 2
  Width = 6
  Secs = {0, 3, 15, 20}
  DeadIf <- Predicates
  MaxStops = 2
  MaxLapses = 2
INVARIANTS WaitFollowsPolicy RetryAfterHonored
PROPERTIES BudgetIsExact ShutdownBurnsNothing
CHECK_DEADLOCK FALSE
