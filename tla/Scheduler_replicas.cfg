SPECIFICATION FairSpec
CONSTANTS
  p1 = p1 p2 = p2
  Replicas = {r1, r2}
  Pages = {p1, p2}
  Users = {}
  Crons = {"every", "bad"}
  CronMinutes <- MCCronMinutes
  NoCron = "none"
  CronRaises <- MCCronRaises
  CronHorizon = 2
  Flow <- FlowOneOrNone
  Faults = {"sql", "drop", "crash"}
  MinuteLen = 2
  SkipWindow = 1
  PollInterval = 2
  MaxClock = 2
  MaxFaults = 1
  MaxEdits = 0
INVARIANTS TypeOK MutualExclusion RunsCounted
PROPERTIES LockReleased
\* The bounds (MaxClock, MaxFaults, MaxEdits) end every behaviour.
CHECK_DEADLOCK FALSE
