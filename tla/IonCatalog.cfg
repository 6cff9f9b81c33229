SPECIFICATION Spec
CONSTANTS
  Text <- MCText
  SystemNames <- MCSystemNames
  Numerals <- MCNumerals
  BadNames = {}
  Threshold = 3
  DefaultSize = 3
  Handles = {1, 2, 3, 4}
  Free = Free
  Names = {"a", "c", "$3"}
  TableNames = {"s", "$ion"}
  Versions = {1, 2}
  MaxIds = {3}
  Prepared <- MCPrepared
  Careless = {}
  MaxCalls = 5
INVARIANTS SidsDense IndexAgrees ReadBack NewestFound
PROPERTY SidsStable
CHECK_DEADLOCK FALSE
