SPECIFICATION Spec
CONSTANTS
  p1 = p1 p2 = p2
  Replicas = {r1, r2}
  Pages = {p1}
  Users = {}
  Crons = {"every"}
  CronMinutes <- MCCronMinutes
  NoCron = "none"
  CronRaises <- MCCronRaises
  CronHorizon = 2
  Flow <- FlowOneRead
  Faults = {"sql"}
  MinuteLen = 3
  SkipWindow = 2
  PollInterval = 3
  MaxClock = 5
  MaxFaults = 1
  MaxEdits = 0
INVARIANTS NoOrphanLog
SYMMETRY ReplicaSymmetry
\* The bounds (MaxClock, MaxFaults, MaxEdits) end every behaviour.
CHECK_DEADLOCK FALSE
