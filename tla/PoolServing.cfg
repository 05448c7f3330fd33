SPECIFICATION FairSpec
CONSTANTS
  Providers = {p1, p2, p3, p4, p5, p6}
  WorkspaceIds = {w1, w2}
  Backends = {postgresql, mysql}
  SQLite = sqlite
  Versions = {v1}
  DefaultVersion = v1
  WarmTarget <- TwoAndNone
  MaxWorkspaces = 1
  WarmPoolEnabled = TRUE
  Faults = {}
  NoProvider = NoProvider
  NoContainer = NoContainer
  NoRequest = NoRequest
  NoWorkspace = NoWorkspace
INVARIANTS
  NothingIsLost
  PopulationBound
  ExitLeavesOnlyWarm
PROPERTIES
  Replenished
  ShutdownEnds
