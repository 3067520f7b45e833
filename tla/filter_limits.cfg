SPECIFICATION Spec
CONSTANTS
  c1 = c1
  m1 = m1
  Peer = {p1, p2}
  Criterion = {c1, c2, c3, c4}
  MaxPeers = 1
  MaxCriteriaPerPeer = 2
  MaxContentTopicsPerRequest = 3
  ClockMoves = FALSE
  Message = {}
  CriterionOf <- NoMessage
SYMMETRY FullSymmetry
INVARIANTS CountIsExact PeersWithinLimit CriteriaWithinLimit
