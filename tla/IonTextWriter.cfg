SPECIFICATION MCSpec
CONSTANTS
  SystemNames <- MCSystemNames
  Imports <- MCImports
  Limits = {2, 4}
  Names = {"a"}
  Scalars = {"1"}
  Pieces = {1, 2, 5}
  MaxAnns = 1
  StackDepth = 1
  TypeSize = 8
  FlagSize = 1
  StringSize = 16
  Room = 73
  TempSizes = {32, 160}
  Careless = {}
  MaxCalls = 7
INVARIANTS TextIsAsked FramesMirrorCalls
PROPERTY RejectedLeavesNoTrace
CHECK_DEADLOCK FALSE
