SPECIFICATION FairSpec
CONSTANTS
  p1 = p1 p2 = p2
  Replicas = {r1}
  Pages = {p1, p2}
  Users = {u1}
  Crons = {"every", "part"}
  CronMinutes <- MCCronMinutes
  NoCron = "none"
  CronRaises <- MCCronRaises
  CronHorizon = 2
  Flow <- FlowWrites
  Faults = {"raise"}
  MinuteLen = 3
  SkipWindow = 2
  PollInterval = 3
  MaxClock = 3
  MaxFaults = 1
  MaxEdits = 1
INVARIANTS RunsLogged ContentKept
PROPERTIES RunsFinish
\* The bounds (MaxClock, MaxFaults, MaxEdits) end every behaviour.
CHECK_DEADLOCK FALSE
