SPECIFICATION Spec
CONSTANTS
  t1 = t1
  t2 = t2
  c = c
  d = d
  k = k
  Tables = {t1, t2}
  Columns = {c}
  Key = k
  Contents <- OneOrBoth
  Paths = {"app/models.py", "nested/app/models.py"}
  Modes = {"nuclear", "incremental"}
  Touched = {t1}
  Faults = {"cli", "timeout", "miss", "defect", "load", "ddl", "dump", "parse", "write"}
  MaxWrites = 3
  MaxMutations = 1
  MaxEdits = 3
  Blank = Blank
  NoSource = NoSource
  NoPlan = NoPlan
INVARIANTS TypeOK PassIsSound BundleDescribesWorkspace MisclassifiedIsExplained ManifestIsWhole
PROPERTY FrozenIsImmutable
