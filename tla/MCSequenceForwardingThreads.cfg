SPECIFICATION FSpec
CONSTANTS
  node1 = node1
  node2 = node2
  node3 = node3
  FNode = {node1, node2}
  Link <- Pair
  Publisher = {node1}
  Threads = 2
  MaxCopies = 1
  MaxSeq = 2
  MaxEpoch = 1
  MaxDrops = 0
CHECK_DEADLOCK FALSE
INVARIANTS
  OnlyDuplicatesDropped
