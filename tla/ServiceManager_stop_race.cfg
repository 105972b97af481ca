SPECIFICATION FairSpec
CONSTANTS
  Pages = {p1}
  Visual = {}
  Tabs = {t1}
  Codes = {none, a}
  NoCode = none
  Unreadable = {}
  Crlf = {}
  Plain = a
  MaxEdits = 1
  ReloadCost = 0
  MaxFaults = 0
  MaxReloads = 0
PROPERTIES StopHonoured
