SPECIFICATION CSpec
CONSTANTS
  eq_a = eq_a
  eq_b = eq_b
  eq_c = eq_c
  below = below
  number = number
  Constraint = {eq_a, eq_b, eq_c, below}
  StringEqual = {eq_a, eq_b, eq_c}
  Operand <- MCOperand
  Value = {"a", "b", "z", number}
  StringValue = {"a", "b", "z"}
  Rank <- MCRank
  Holds <- MCHolds
  Sub = {1, 2, 3}
  VectorFilter <- RepeatFilter
INVARIANTS
  OthersStayIndexed
