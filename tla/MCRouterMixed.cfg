SPECIFICATION Spec
CONSTANTS
  c1 = c1
  c2 = c2
  ann = ann
  r1 = r1
  r2 = r2
  n1 = n1
  n2 = n2
  here = here
  Constraint = {c1, c2, ann}
  Filter <- MixedFilter
  Argument <- FutureArgument
  Message <- OneMessage
  Carries <- MCCarries
  Nested <- MCNested
  Accepts <- MCAccepts
  AnnounceConstraint = ann
  Selects <- MCSelects
  Receiver = {r1, r2}
  Peer = {}
  Local = here
  NoNode = ""
  MaxSubs = 2
INVARIANTS
  WireFaithful
SYMMETRY MCSymmetry
