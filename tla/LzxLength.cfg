CONSTANTS
  Frame = 2
  Window = 4
  TailBytes = 1
  E8Frames = 1
  Streams <- MCPlainStreams
  BlockLengths = {0, 1, 2, 3, 5}
  MaxSpill = 1
  Asks <- MCAsks
  OutLengths = {0, 3, 5}
  Base = 8
  E8 = 5
  FrameLength = 4
  WindowLength = 4
  TailLength = 2
  LastE8Frame = 2
  Bytes = {2, 5}
  Lengths = {2, 3}
  Distances = {1, 2, 3, 4}
  FileSizes = {0, 3, 6}
  Totals = {7, 8}
SPECIFICATION MCSpec
INVARIANT LengthNotNeeded
CHECK_DEADLOCK FALSE
