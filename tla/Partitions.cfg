SPECIFICATION PartitionsSpec
CONSTANTS
  None = None
  Default = Default
  Msg = {m1}
  Maintainer = {a, b}
  Ahead = 1
  MaxTime = 5
SYMMETRY Symmetry
INVARIANT LiveWritesInPartitions
PROPERTY DropsOnlyOlder
