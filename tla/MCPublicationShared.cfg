SPECIFICATION PubSpec
CONSTANTS
  Holder = {p1, p2}
  Datum = {1}
  Binary = Binary
  None = None
  Null = Null
  LuaWritesShared = TRUE
CHECK_DEADLOCK FALSE
PROPERTIES
  CopiesAreValues
