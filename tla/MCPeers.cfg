SPECIFICATION MCSpec
CONSTANTS
  host1 = host1
  host2 = host2
  NobodyYet = NobodyYet
  TNode = {host1, host2}
  Server = {host2}
  StaticPeer <- Statics
  MaxConns = 2
  MaxAnnounced = 1
  MaxFaults = 1
  NativeConstraint <- Natives
  LuaTerm <- Terms
  Sample <- Samples
  SubscriptionArgs <- Args
  NoConstraint = NoConstraint
  PriorityModulus = 16
  MaxConstraints = 2
  SFilter <- Filters
  Arguments <- SubArgs
  LocalId = "L"
  PeerId = "P"
  Label <- Wing
  Publications <- Pubs
  CountModulus = 8
  MaxSubscribed = 3
CHECK_DEADLOCK FALSE
INVARIANTS
  NoPhantomPeer
  OneMeaning
  PeerReadsFilter
  PeerCovers
  NoStaleRule
PROPERTIES
  StaticPeersStay
