SPECIFICATION Spec
CONSTANTS
  p1 = p1 p2 = p2
  Replicas = {r1}
  Pages = {p1}
  Users = {u1}
  Crons = {"every"}
  CronMinutes <- MCCronMinutes
  NoCron = "none"
  CronRaises <- MCCronRaises
  CronHorizon = 2
  Flow <- FlowOneRead
  Faults = {}
  MinuteLen = 3
  SkipWindow = 2
  PollInterval = 3
  MaxClock = 5
  MaxFaults = 0
  MaxEdits = 1
INVARIANTS ScheduleKept
\* The bounds (MaxClock, MaxFaults, MaxEdits) end every behaviour.
CHECK_DEADLOCK FALSE
