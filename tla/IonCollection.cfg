SPECIFICATION Spec
CONSTANTS
  c1 = c1
  c2 = c2
  n1 = n1
  n2 = n2
  n3 = n3
  n4 = n4
  v1 = v1
  v2 = v2
  NULL = NULL
  Colls <- TwoColls
  Nodes <- FourNodes
  Vals <- TwoVals
SYMMETRY Symmetric
INVARIANTS TypeOK Linked FreeListSound
PROPERTIES EntriesStable CopyComplete ImplementsDeque
CHECK_DEADLOCK FALSE
