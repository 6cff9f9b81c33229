SPECIFICATION Spec
CONSTANTS
  VarLen = 6
  Digit = 12
  SystemNames <- MCSystemNames
  Documents <- MCDocuments
  Texts <- MCTexts
  Shared <- MCShared
  Pieces = {1, 2, 4}
  Int32Len = 1
  Int64Len = 2
  Endless = 1000
  Threshold = 10
  DefaultSize = 4
  Careless = {}
  BufferLen = 8
  Utf8MaxLength = 4
  MaxAnnotations = 2
  Markers <- MCMarkers
INVARIANTS ReadsAgree NamesAgree EndsNest ExtentCovers
