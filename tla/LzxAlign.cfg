CONSTANTS
  StreamSizes = {24}
  Totals = {3, 4}
  Frame = 2
  Window <- MCWindow
  BlockLengths = {0, 1, 2}
  Codes <- MCCodes
  TreeReads = {3}
  Matches <- MCMatches
  HeaderOffsets <- MCHeaderOffsets
SPECIFICATION Spec
INVARIANT AlignAgrees
CHECK_DEADLOCK FALSE
