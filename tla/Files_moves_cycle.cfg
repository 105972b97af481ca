SPECIFICATION FilesSpec
CONSTANTS
 Users = {u1,u2}
 Movers = {u1,u2}
 MaxEntries = 3
 Sizes = {2}
 Limit = 2
 MaxFaults = 0
 MaxChanges = 2
INVARIANT Forest
\* The bounds end every behaviour.
CHECK_DEADLOCK FALSE
