SPECIFICATION Spec
CONSTANTS
  p1 = p1
  p2 = p2
  t1 = t1
  t2 = t2
  L0 = L0
  L1 = L1
  None = None
  Peers = {p1, p2}
  Txs = {t1}
  PseudoTxs = {}
  Invalid = {}
  Ledgers = {L0}
  CloseResolution <- CoarserL1
  PeerProposals <- AnySet
  Moved = {0, 2}
  CloseTimes = {1}
  Times = {3000, 30000}
  SinceClose = {0, 60000}
  MaxSeq = 1
  MaxRounds = 1
  MaxViews = 0
  LastProposers = 2
  LastMs = 15000
SYMMETRY Symmetry
CHECK_DEADLOCK FALSE
INVARIANTS
  OwnSetHeld
