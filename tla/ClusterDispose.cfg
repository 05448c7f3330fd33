SPECIFICATION Spec
CONSTANTS
  Faults = {"connect"}
  MaxStarts = 1
INVARIANT FailureIsDisposed
