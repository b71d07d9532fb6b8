SPECIFICATION MCSpec
CONSTANTS
  c1 = c1
  c2 = c2
  ann = ann
  r1 = r1
  r2 = r2
  n1 = n1
  n2 = n2
  here = here
  Constraint = {c1, c2, ann}
  Filter <- MCFilter
  Argument <- MCArgument
  Message <- MCMessage
  Carries <- MCCarries
  Nested <- MCNested
  Accepts <- MCAccepts
  AnnounceConstraint = ann
  Selects <- MCSelects
  Receiver = {r1, r2}
  Peer = {}
  Local = here
  NoNode = ""
  MaxSubs = 2
  node1 = node1
  node2 = node2
  node3 = node3
  FNode = {node1, node2, node3}
  Link <- Triangle
  Publisher = {node1}
  Threads = 1
  MaxCopies = 1
  MaxSeq = 2
  MaxEpoch = 2
  MaxDrops = 1
CHECK_DEADLOCK FALSE
SYMMETRY RoutingSymmetry
INVARIANTS
  TableSound
  IndexExact
  DeliveredAsFiltered
  NeverReturned
  AcceptedOnceInOrder
