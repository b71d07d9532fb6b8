SPECIFICATION PSpec
CONSTANTS
  c1 = c1
  c2 = c2
  r1 = r1
  r2 = r2
  n1 = n1
  n2 = n2
  here = here
  Constraint = {c1, c2}
  Filter <- MCFilter
  Argument <- FutureArgument
  Message <- MCMessage
  Carries <- MCCarries
  Nested <- MCNested
  Accepts <- MCCarries
  AnnounceConstraint = "type EQ local_subscription_added"
  Selects <- MCSelects
  Receiver = {r1, r2}
  Peer = {n1, n2}
  Local = here
  NoNode = ""
  MaxSubs = 2
INVARIANTS
  HeardExactly
SYMMETRY MCSymmetry
