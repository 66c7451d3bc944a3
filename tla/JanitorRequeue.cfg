SPECIFICATION JanitorSpec
CONSTANTS
  Msg = {m1}
  Worker = {w1, w2}
  Holder = {h1, h2, h3}
  None = None
  Ttl = 1
  Success = 0
  Dead = 2
  History = 0
  DefaultSuccess = 1
  DefaultLong = 3
  PurgeBatch = 1
  Horizon = 4
  MaxFaults = 1
PROPERTY PurgesOnlyExpired
CHECK_DEADLOCK FALSE
