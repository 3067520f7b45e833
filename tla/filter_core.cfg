SPECIFICATION Spec
CONSTANTS
  c1 = c1
  m1 = m1
  Peer = {p1, p2}
  Criterion = {c1, c2}
  MaxPeers = 2
  MaxCriteriaPerPeer = 2
  MaxContentTopicsPerRequest = 2
  ClockMoves = TRUE
  Message = {m1}
  CriterionOf <- OneMessage
SYMMETRY PeerSymmetry
INVARIANTS TypeOK CountCovers PromiseKept NothingUnwanted
PROPERTY FirstCopyReachesAll
