SPECIFICATION Spec
CONSTANTS
  single = single
  batch = batch
  rival = rival
  k = k
  j = j
  NoKey = NoKey
  Nil = Nil
  Call <- AllCalls
  Keys <- MixedKeys
  Batched <- Batches
  Transactional <- TwoOfThree
  MaxErrors = 1
INVARIANTS KeyUnique DuplicateNamesTwin OutboxGuarantee
PROPERTY CallsEnd
CHECK_DEADLOCK FALSE
