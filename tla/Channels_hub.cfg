SPECIFICATION Spec
CONSTANTS
  Sockets = {s1, s2, s3}
  Publishers = {s1}
  Requests = {}
  Devices = {}
  Bridges = {b1}
  Chans = {c1}
  NoChan = "none"
  MaxRecent = 1
  ReplayLimit = 1
  MaxMoves = 4
SYMMETRY ListenerSymmetry
INVARIANTS TypeOK Delivered RegistryAgrees NoGhost
\* Sockets and requests are used once.
CHECK_DEADLOCK FALSE
