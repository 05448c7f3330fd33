SPECIFICATION Spec
CONSTANTS
  Faults = {"create", "launch", "connect", "port", "ready", "stop", "remove"}
  MaxStarts = 3
INVARIANTS TypeOK StartedIsWhole
PROPERTY LossesAreFailedCalls
