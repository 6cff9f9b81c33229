SPECIFICATION Spec
CONSTANTS
  Keys = {"a", "b", "c", "d", "e"}
  Data = {1, 2}
  NoData = NoData
  Hash <- MCHash
  Percent = 0
  DefaultDensity = 104
  Minimum = 1
  Multiplier = 2
  InitialSizes = {0, 3}
INVARIANTS TypeOK NodesPlaced KeysOnce CountsAgree
PROPERTIES ImplementsMap CallsReturn
CHECK_DEADLOCK FALSE
