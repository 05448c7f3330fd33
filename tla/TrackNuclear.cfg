SPECIFICATION Spec
CONSTANTS
  t1 = t1
  t2 = t2
  c = c
  d = d
  k = k
  Tables = {t1, t2}
  Columns = {c}
  Key = k
  Contents <- BothThenOne
  Paths = {"app/models.py"}
  Modes = {"nuclear"}
  Touched = {}
  Faults = {}
  MaxWrites = 2
  MaxMutations = 0
  MaxEdits = 2
  Blank = Blank
  NoSource = NoSource
  NoPlan = NoPlan
INVARIANT NuclearReferenceIsCurrent
