CONSTANTS
  Counts = {1, 2, 3, 4}
  MaxBits = 5
  Literals = {0, 2}
  Repeats = {0, 1}
  MaxCur = 4
  NumSyms = 7
  MaxLen = 6
  PrimaryBits = 2
  TableBits = 4
  Chars = 1
  MainSyms = 2
  MaxMain = 3
  LengthSyms = 1
  Safety = 64
  Deltas = {0, 1, 16}
  Seconds = {0, 15, 19}
  MaxBlocks = 2
  LengthArrays <- MCArrays
  Inputs <- MCInputs
SPECIFICATION MCSpec
INVARIANT TypeOK
INVARIANT WalkFindsCodeWord
INVARIANT TablesAgree
INVARIANT NativeTableIsWalk
INVARIANT SameTrees
PROPERTY LengthsEnd
CHECK_DEADLOCK FALSE
