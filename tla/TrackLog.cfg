SPECIFICATION Spec
CONSTANTS
  t1 = t1
  t2 = t2
  c = c
  d = d
  k = k
  Tables = {t1}
  Columns = {c, d}
  Key = k
  Contents <- OneTable
  Paths = {"app/models.py"}
  Modes = {"incremental"}
  Touched = {}
  Faults = {}
  MaxWrites = 1
  MaxMutations = 2
  MaxEdits = 3
  Blank = Blank
  NoSource = NoSource
  NoPlan = NoPlan
INVARIANT LogExplainsCurrent
