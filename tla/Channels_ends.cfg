SPECIFICATION FairSpec
CONSTANTS
  Sockets = {s1}
  Publishers = {s1}
  Requests = {r1}
  Devices = {d1}
  Bridges = {b1, b2}
  Chans = {c1}
  NoChan = "none"
  MaxRecent = 1
  ReplayLimit = 1
  MaxMoves = 2
INVARIANTS EchoOnce
PROPERTIES TasksEnd
\* Sockets and requests are used once.
CHECK_DEADLOCK FALSE
