SPECIFICATION Spec
CONSTANTS
  N = 2
  Configs <- MCConfigs
  Second = 4
  MinTick = 1
  Delay = 1
  Horizon = 9
  MaxErrors = 2
CONSTRAINT InTime
INVARIANT LossNoticed
PROPERTIES LeaseKept LongHandlersAreSafe
CHECK_DEADLOCK FALSE
