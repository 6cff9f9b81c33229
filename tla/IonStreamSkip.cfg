SPECIFICATION Spec
CONSTANTS
  Kinds = {"buffer"}
  Size = 3
  MaxUnread = 3
  Capacity = 4
  MaxWritten = 5
  TempLen = 2
  Values = {0, 10}
  Rooms = {1, 2}
  Careless = {"still"}
  HashFits = TRUE
  Frames = {1, 2, 3, 4, 5, 6}
  Lens = {0, 1, 2, 3, 4, 5, 6, 7}
  Sizes = {1, 2, 3}

PROPERTY SkipArrives
CHECK_DEADLOCK FALSE
