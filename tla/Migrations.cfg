SPECIFICATION Spec
CONSTANTS
  Proc = {p1, p2, p3}
  Stmts <- TwoFiles
  MaxFaults = 2
INVARIANTS AllOrNothing
PROPERTIES OkMeansMigrated UpConverges
