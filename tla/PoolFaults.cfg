SPECIFICATION Spec
CONSTANTS
  Providers = {p1, p2, p3, p4}
  WorkspaceIds = {w1, w2}
  Backends = {postgresql}
  SQLite = sqlite
  Versions = {v1, v2}
  DefaultVersion = v1
  WarmTarget <- OneEach
  MaxWorkspaces = 2
  WarmPoolEnabled = TRUE
  Faults <- FaultKinds
  NoProvider = NoProvider
  NoContainer = NoContainer
  NoRequest = NoRequest
  NoWorkspace = NoWorkspace
SYMMETRY Symmetry
INVARIANTS
  TypeOK
  SingleOwner
  OwnedAreRunning
  PooledAreReady
  WorkspacesAreIsolated
PROPERTIES
  LossesAreFailedCalls
  ImplementsLedger
