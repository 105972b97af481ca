SPECIFICATION MCSpec
CONSTANTS
  \* PageTree
  SideTabs = {t1, t2}
  Tabs = {t1, t2}
  Slugs = {"a"}
  MaxPages = 2
  MAX_PINS = 1
  MaxActions = 4
  MaxLoads = 2
  \* ApiKeys
  Keys = {k1}
  Tables = {"t"}
  Procs = {p1}
  rateLimit = 2
  Minute = 1
  MaxNow = 4
  MaxToggles = 2
  \* Accounts
  Members = {m1}
  Super = root
  Custom = {}
  AppPerms = {app1}
  SysPerms = {manage}
  Manage = manage
  EditorPerms = {}
  ViewerPerms = {}
  MaxAsked = 2
  MaxBroken = 1
  \* OrgTables
  TableClients = {k1, k2}
  Names = {"t"}
  Columns = {"id", "a", "b"}
  OwnColumns = {"id"}
  MaxTableRequests = 3
  MaxCut = 1
  \* TablePage
  Records = {1, 2}
  Kinds = {"text", "integer", "bigint", "float", "boolean", "timestamp", "json"}
  PageSize = 1
  MaxRecords = 3
  MaxClicks = 2
  \* Logins
  Accounts = {root, ann, lone}
  SuperAccounts = {root}
  OrgAccounts = {ann}
  MAX_ATTEMPTS = 1
  Window = 1
  MaxLogins = 3
  MaxTicks = 1
  MaxFailing = 1
  \* PageEditor
  EditTabs = {t1, t2}
  MaxWidgets = 2
  MaxGestures = 4
  MaxPending = 2
  Peers = {m1}
  \* Notebooks
  NbTabs = {t1, t2}
  MaxContent = 4
  MaxTurns = 5
  MaxOutages = 1
  \* LiveView
  Chans = {c1, c2}
  NoChannel = none
  ViewMax = 1
  HistoryMax = 1
  MaxSockets = 2
  MaxPublished = 2
  MaxChanges = 1
  \* Widgets
  Numbers = {1, 2}
  Limit = 2
  MaxRows = 3
  MaxOpen = 2
  \* PageViews
  ViewPages <- TwoPages
  Addresses = {"a", "b"}
  MaxEdits = 1
  \* FlowCanvas
  Types = {"data_source", "transform", "notify"}
  MaxStored = 2
  MaxNodes = 3
  MaxEdges = 3
  MaxDrawn = 2
  MaxRuns = 1
  MaxSaves = 1
  \* CustomBlocks
  Orgs = {"o1", "o2"}
  CustomTypes = {"a", "b"}
  Alike <- OneWay
  BlockCodes = {1, 2}
  Backends = {b1}
  MaxBlocks = 2
  MaxActs = 6
INVARIANTS
  WebTypeOK GrantsAsAsked SessionsHold KeysHold RegistryExact
  Reachable SidebarHolds EditsHold NotebooksArrive LiveTells ScreensHold ResultsTold
PROPERTIES KeepsARole CanvasKept
SYMMETRY TabSymmetry
CHECK_DEADLOCK FALSE
