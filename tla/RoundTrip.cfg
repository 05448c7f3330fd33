SPECIFICATION Spec
CONSTANTS
  m1 = m1
  m2 = m2
  m3 = m3
  s1 = s1
  s2 = s2
  SQLite = sqlite
  ClickHouse = clickhouse
  Models = {m1, m2, m3}
  NoModels = NoModels
  Torn = Torn
  Wrong = Wrong
  NoProject = NoProject
  NoDatabase = NoDatabase
  Cases <- MCCases
  Slugs = {s1, s2}
  Backends = {clickhouse, sqlite}
  Shortened <- MCShortened
  Workers = 2
  CaseFaults = {}
  ShapeDir <- MCShapeDir
  ShapeDatabase <- MCShapeDatabase
  ShapeModels = m1
  TripFaults = {}
  PlayDir <- MCPlayDir
  PlayDatabase <- MCPlayDatabase
  Shape <- MCShape
  References <- MCReferences
  PlayFlags = {TRUE, FALSE}
  MaxCommands = 4
  ServerFaults = {}
  Collections <- OneTrip
  Leftovers <- MCLeftovers
INVARIANT ConvergedMeansNoDrift
