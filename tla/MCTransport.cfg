SPECIFICATION MCSpec
CONSTANTS
  Holder = {p1, p2, p3}
  Datum = {1}
  Binary = Binary
  None = None
  Null = Null
  LuaWritesShared = FALSE
  eq_a = eq_a
  eq_b = eq_b
  eq_c = eq_c
  below = below
  number = number
  Constraint = {eq_a, eq_b, eq_c, below}
  StringEqual = {eq_a, eq_b, eq_c}
  Operand <- MCOperand
  Value = {"a", "b", "z", number}
  StringValue = {"a", "b", "z"}
  Rank <- MCRank
  Holds <- MCHolds
  Sub = {1, 2, 3}
  VectorFilter <- MCVectorFilter
  Message <- MCMessage
  Capacity = 5
  RxBuffer = 6
  MaxMessages = 2
  MaxKeepalives = 1
  node1 = node1
  node2 = node2
  node3 = node3
  FNode = {node1, node2, node3}
  Link <- Triangle
  Publisher = {node1}
  Threads = 1
  MaxCopies = 2
  MaxSeq = 2
  MaxEpoch = 1
  MaxDrops = 0
CHECK_DEADLOCK FALSE
INVARIANTS
  CountsExact
PROPERTIES
  CopiesAreValues
  Implements
  ImplementsChannel
  EventuallyReceived
  EverybodyHears
