SPECIFICATION MCSpec
CONSTANTS
  \* Cron
  MinutesPerHour = 4
  HoursPerDay = 3
  DaysPerMonth = 5
  MonthsPerYear = 2
  Horizon <- WeekInMinutes
  Exprs <- AllExprs
  Starts = {0, 1, 11, 12, 50, 83, 119}
  \* EventBatch
  MaxEvents = 4
  BatchSize = 2
  BatchInterval = 2
  PostTimeout = 3
  \* Files
  Users = {u1, u2}
  Movers = {u1}
  MaxEntries = 3
  Sizes = {2}
  Limit = 2
  MaxChanges = 1
  MaxFaults = 1
  \* Tokens
  Tokens = {t1}
  Grants = {{}, {"subscribe"}}
  Web = {w1, w2}
  Replicas = {r1, r2}
  MaxOps = 4
  MaxLost = 1
INVARIANTS
  PartsTypeOK
  NextIsEarliest CronAgrees BufferHolds TreeHolds BrokerFollows
PROPERTIES SinkSpec PartsEnd
\* The bounds, and the end of a scan, end every behaviour.
CHECK_DEADLOCK FALSE
