CONSTANTS
  A = A
  B = B
  Names = {A, B}
  NameSize <- MCNameSize
  Sizes = {1, 2}
  Limit = 22
  StopAfter = 20
  Mask = 4
  MaxDepth = 5
SPECIFICATION Spec
INVARIANT StackCanonical
INVARIANT ModeFollowsOutput
INVARIANT StartTagOnTop
INVARIANT OutputWithinLimit
PROPERTY ClosesWhatItNames
CHECK_DEADLOCK FALSE
