SPECIFICATION FairSpec
CONSTANTS
  v1 = v1
  v2 = v2
  v3 = v3
  Validators = {v1, v2, v3}
  NoSeq = {v3}
  Sent <- SentThree
  MaxSeq = 2
  mminvalidations = 1
  max_ledger_gap = 2
  acquire_limit = 2
  OlderMissing = FALSE
  MaxRounds = 2
  MaxFails = 0
CHECK_DEADLOCK FALSE
INVARIANTS
  CheckPending
  ValidatedBacked
PROPERTIES
  ValidatedForward
  QuorumValidated
