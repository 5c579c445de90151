SPECIFICATION FairSpec
CONSTANTS
  v1 = v1
  v2 = v2
  v3 = v3
  Validators = {v1}
  NoSeq = {}
  Sent <- SentOne
  MaxSeq = 4
  mminvalidations = 1
  max_ledger_gap = 2
  acquire_limit = 2
  OlderMissing = TRUE
  MaxRounds = 0
  MaxFails = 1
CHECK_DEADLOCK FALSE
INVARIANTS
  PublishedValidated
  PublicationPending
PROPERTIES
  PublishedInOrder
  PublishedCatchesUp
