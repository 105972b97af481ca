SPECIFICATION FairSpec
CONSTANTS
  Pages = {p1, p2}
  Visual = {p2}
  Tabs = {t1}
  \* odd: as a flow it has a node without id, as code it has carriage returns
  Codes = {none, a, odd}
  NoCode = none
  Unreadable = {odd}
  Crlf = {odd}
  Plain = a
  MaxEdits = 2
  ReloadCost = 2
  MaxFaults = 1
  MaxReloads = 1
INVARIANTS TypeOK NoStray ScriptIsRun
PROPERTIES KeepsEdits PollHonours
