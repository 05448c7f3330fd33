SPECIFICATION Spec
CONSTANTS
  Providers = {p1, p2, p3, p4, p5, p6}
  WorkspaceIds = {w1}
  Backends = {postgresql, mysql}
  SQLite = sqlite
  Versions = {v1}
  DefaultVersion = v1
  WarmTarget <- OneEach
  MaxWorkspaces = 1
  WarmPoolEnabled = TRUE
  Faults = {}
  NoProvider = NoProvider
  NoContainer = NoContainer
  NoRequest = NoRequest
  NoWorkspace = NoWorkspace
SYMMETRY Symmetry
INVARIANTS
  PoolIsShutDown
