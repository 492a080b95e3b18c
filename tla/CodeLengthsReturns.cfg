CONSTANTS
  Counts = {3}
  MaxBits = 4
  Literals = {2}
  Repeats = {0}
  MaxCur = 3
SPECIFICATION Spec
PROPERTY Returns
CHECK_DEADLOCK FALSE
