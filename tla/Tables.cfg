CONSTANTS
  Half = 4
  Size = 20
  Widths = {1, 3, 4, 5, 8}
  MaxAsked = 30
  Group = 3
  Tables <- MCSeekTables
  Starts = {0, 1, 4, 8}
  Counts = {1, 4, 9}
  Jumps = {0, 4}
  Ends <- MCEnds
  Bytes = {0, 5, 9, 10, 16}
  MaxLen = 3
  MaxCount = 3
  MaxData = 2
SPECIFICATION MCSpec
INVARIANT InOrder
INVARIANT OverrunReported
INVARIANT AnswerIsRange
INVARIANT FaultsStay
INVARIANT SlicesAreRecords
INVARIANT BufferIsPrevious
PROPERTY WrittenOnce
CHECK_DEADLOCK FALSE
