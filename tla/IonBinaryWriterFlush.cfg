SPECIFICATION AllSpec
CONSTANTS
  VarLen = 4
  Digit = 8
  SystemNames <- MCSystemNames
  Names <- MCNames
  Imports <- MCImports
  Sizes = {0, 3, 4}
  MaxAnns = 2
  Limits = {1, 3}
  StringSize = 16
  Room = 48
  TempSizes = {16, 64}
  MaxCalls = 5
  Careless = {"no table"}
INVARIANT FlushHasTable
CHECK_DEADLOCK FALSE
