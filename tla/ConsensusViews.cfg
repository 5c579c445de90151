SPECIFICATION Spec
CONSTANTS
  p1 = p1
  p2 = p2
  t1 = t1
  t2 = t2
  L0 = L0
  L1 = L1
  None = None
  Peers = {p1}
  Txs = {t1}
  PseudoTxs = {t1}
  Invalid = {}
  Ledgers = {L0, L1}
  CloseResolution <- CoarserL1
  PeerProposals <- AnySet
  Moved = {1}
  CloseTimes = {1}
  Times = {3000}
  SinceClose = {60000}
  MaxSeq = 0
  MaxRounds = 2
  MaxViews = 1
  LastProposers = 1
  LastMs = 15000
SYMMETRY Symmetry
CHECK_DEADLOCK FALSE
INVARIANTS
  TypeOK
  ProposingInSync
PROPERTIES
  PositionMovesInEstablish
