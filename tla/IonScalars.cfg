SPECIFICATION MCSpec
CONSTANTS
  ByteBits = 4
  WordBits = 8
  LongBits = 16
  Shift = 7
  Slack = 1
  Piece = 3
  MaxFields = 2
  Careless = {}
INVARIANTS FieldsArrive LengthsHold ValueKept ConvertsBack HoldsAsked TextTells BytesTell
CHECK_DEADLOCK FALSE
