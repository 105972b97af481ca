SPECIFICATION Spec
CONSTANTS
  Sockets = {s1, s2, s3}
  Publishers = {s1}
  Requests = {}
  Devices = {}
  Bridges = {b1}
  Chans = {c1}
  NoChan = "none"
  MaxRecent = 2
  ReplayLimit = 1
  MaxMoves = 4
SYMMETRY ListenerSymmetry
INVARIANTS PublishReachesAll
\* Sockets and requests are used once.
CHECK_DEADLOCK FALSE
