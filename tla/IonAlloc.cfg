SPECIFICATION Spec
CONSTANTS
  Blocks = {b1, b2, b3, b4}
  Header = 2
  Alignment = 2
  DefaultPage = 6
  DefaultLimit = 1
  MinPage = 2
  OwnerSizes = {2}
  Sizes = {3, 5}
  PageSizes = {1, 8}
  Limits = {1}
  Careless = {}
INVARIANTS OneHome MemoryFits
PROPERTIES ImplementsArena FreeReturns
CHECK_DEADLOCK FALSE
