SPECIFICATION Spec
CONSTANTS
  Dumps = {d1, d2}
  Text = Text
INVARIANT ExitTellsTheBug
CHECK_DEADLOCK FALSE
