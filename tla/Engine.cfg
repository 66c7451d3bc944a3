SPECIFICATION FairSpec
CONSTANTS
  s1 = s1
  b1 = b1
  b2 = b2
  Msg <- Three
  Single <- OneSingle
  Batched <- TwoBatched
  Batch = 3
  Conf <- Deployments
  MaxErrors = 1
INVARIANTS
  NoSendOnClosed
  TokensAccounted
  ClaimsConserved
  NobodyWaitsInVain
PROPERTIES
  ImplementsContract
  EveryMessageLeaves
  ShutdownEnds
CHECK_DEADLOCK FALSE
