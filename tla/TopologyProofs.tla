--------------------------- MODULE TopologyProofs ----------------------------
(***************************************************************************)
(* Proofs about a node and its peers, for any number of nodes, connections *)
(* and faults: no topology manager takes a peer for reachable to which     *)
(* there is no connection.                                                 *)
(***************************************************************************)
EXTENDS TopologyManager, FiniteSetTheorems, SequenceTheorems, TLAPS

(***************************************************************************)
(* Mailboxes.                                                              *)
(***************************************************************************)
TMessage ==
    [type : {"announcement", "forced", "peer_added", "peer_removed", "add_static_peer"},
     peer : TNode]

\* What the topology manager makes of its list when it receives m.
Apply(R, m) ==
    IF m.type = "peer_added" THEN R \cup {m.peer}
    ELSE IF m.type = "peer_removed" THEN R \ {m.peer} ELSE R

\* A message at the end of the mailbox has the last word.
LEMMA UpdatedAppend ==
    ASSUME NEW R \in SUBSET TNode, NEW box \in Seq(TMessage), NEW m \in TMessage
    PROVE  Updated(R, Append(box, m)) = Apply(Updated(R, box), m)
<1> DEFINE b == Append(box, m)  n == Len(box)
<1>1. /\ n \in Nat /\ DOMAIN box = 1 .. n /\ DOMAIN b = 1 .. n + 1
      /\ \A i \in 1 .. n : b[i] = box[i]
      /\ b[n + 1] = m
  BY AppendProperties, LenProperties
<1> HIDE DEF b, n
<1>2. CASE m.type \in {"peer_added", "peer_removed"}
  <2>1. ASSUME NEW p \in TNode, p # m.peer
        PROVE  Updates(b, p) = Updates(box, p) /\ \A i \in Updates(b, p) : b[i] = box[i]
    BY <1>1, <2>1 DEF Updates
  <2>2. ASSUME NEW p \in TNode, p # m.peer PROVE p \in Updated(R, b) <=> p \in Updated(R, box)
    BY <2>1, <2>2 DEF Updated
  <2>3. n + 1 \in Updates(b, m.peer) /\ \A j \in Updates(b, m.peer) : j \in 1 .. n + 1
    BY <1>1, <1>2 DEF Updates
  <2>4. m.peer \in TNode /\ (m.peer \in Updated(R, b) <=> m.type = "peer_added")
    <3>1. m.peer \in TNode
      BY DEF TMessage
    <3>2. ASSUME m.type = "peer_added" PROVE m.peer \in Updated(R, b)
      BY <1>1, <2>3, <3>1, <3>2 DEF Updated
    <3>3. ASSUME m.peer \in Updated(R, b) PROVE m.type = "peer_added"
      <4>1. PICK i \in Updates(b, m.peer) :
                b[i].type = "peer_added" /\ \A j \in Updates(b, m.peer) : j <= i
        BY <2>3, <3>3 DEF Updated
      <4>2. i = n + 1
        BY <1>1, <2>3, <4>1
      <4> QED
        BY <1>1, <4>1, <4>2
    <3> QED
      BY <3>1, <3>2, <3>3
  <2>5. Updated(R, b) \subseteq TNode /\ Updated(R, box) \subseteq TNode
    BY DEF Updated
  <2> QED
    BY <1>2, <2>2, <2>4, <2>5 DEF Apply, b
<1>3. CASE m.type \notin {"peer_added", "peer_removed"}
  <2>1. \A p \in TNode : Updates(b, p) = Updates(box, p) /\ \A i \in Updates(b, p) : b[i] = box[i]
    BY <1>1, <1>3 DEF Updates
  <2>2. Updated(R, b) = Updated(R, box)
    BY <2>1 DEF Updated
  <2> QED
    BY <1>3, <2>2 DEF Apply, b
<1> QED
  BY <1>2, <1>3

\* The first message may as well be received now.
LEMMA UpdatedTail ==
    ASSUME NEW R \in SUBSET TNode, NEW box \in Seq(TMessage), box # <<>>
    PROVE  /\ Apply(R, Head(box)) \in SUBSET TNode
           /\ Updated(R, box) = Updated(Apply(R, Head(box)), Tail(box))
<1> DEFINE t == Tail(box)  n == Len(t)  m == Head(box)
<1>1. /\ n \in Nat /\ DOMAIN t = 1 .. n /\ DOMAIN box = 1 .. n + 1
      /\ \A i \in 1 .. n : t[i] = box[i + 1]
      /\ m = box[1] /\ m \in TMessage
  BY HeadTailProperties, LenProperties
<1>2. Apply(R, m) \in SUBSET TNode
  BY <1>1 DEF Apply, TMessage
<1> HIDE DEF t, n, m
<1>3. ASSUME NEW p \in TNode
      PROVE  p \in Updated(R, box) <=> p \in Updated(Apply(R, m), t)
  <2>1. \A i \in 1 .. n : i \in Updates(t, p) <=> i + 1 \in Updates(box, p)
    BY <1>1 DEF Updates
  <2>2. 1 \in Updates(box, p) <=> m.type \in {"peer_added", "peer_removed"} /\ m.peer = p
    BY <1>1 DEF Updates
  <2>3. Updates(t, p) \subseteq 1 .. n /\ Updates(box, p) \subseteq 1 .. n + 1
    BY <1>1 DEF Updates
  <2>4. CASE Updates(t, p) = {}
    <3>1. ASSUME NEW i \in Updates(box, p), i # 1 PROVE FALSE
      <4>1. i - 1 \in 1 .. n /\ (i - 1) + 1 = i
        BY <1>1, <2>3, <3>1
      <4> QED
        BY <2>1, <2>4, <4>1
    <3>2. p \in Updated(Apply(R, m), t) <=> p \in Apply(R, m)
      BY <2>4 DEF Updated
    <3>3. CASE 1 \in Updates(box, p)
      <4>1. p \in Updated(R, box) <=> m.type = "peer_added"
        BY <1>1, <3>1, <3>3 DEF Updated
      <4>2. p \in Apply(R, m) <=> m.type = "peer_added"
        BY <2>2, <3>3 DEF Apply
      <4> QED
        BY <3>2, <4>1, <4>2
    <3>4. CASE 1 \notin Updates(box, p)
      <4>1. p \in Updated(R, box) <=> p \in R
        BY <3>1, <3>4 DEF Updated
      <4>2. p \in Apply(R, m) <=> p \in R
        BY <2>2, <3>4 DEF Apply
      <4> QED
        BY <3>2, <4>1, <4>2
    <3> QED
      BY <3>3, <3>4
  <2>5. CASE Updates(t, p) # {}
    <3>1. PICK k \in 1 .. n : k \in Updates(t, p)
      BY <2>3, <2>5
    <3>2. ASSUME NEW i \in Updates(t, p), t[i].type = "peer_added",
                 \A j \in Updates(t, p) : j <= i
          PROVE  p \in Updated(R, box)
      <4>1. i \in 1 .. n /\ i + 1 \in Updates(box, p) /\ box[i + 1].type = "peer_added"
        BY <1>1, <2>1, <2>3, <3>2, SMTT(30)
      <4>2. ASSUME NEW j \in Updates(box, p) PROVE j <= i + 1
        <5>1. CASE j = 1
          BY <4>1, <5>1
        <5>2. CASE j # 1
          <6>1. j \in 1 .. n + 1 /\ j - 1 \in 1 .. n /\ (j - 1) + 1 = j
            BY <1>1, <2>3, <5>2
          <6>2. j - 1 \in Updates(t, p)
            BY <2>1, <6>1
          <6>3. j - 1 <= i
            BY <3>2, <6>2
          <6> QED
            BY <4>1, <6>1, <6>3
        <5> QED
          BY <5>1, <5>2
      <4> QED
        BY <4>1, <4>2 DEF Updated
    <3>3. ASSUME NEW i \in Updates(box, p), box[i].type = "peer_added",
                 \A j \in Updates(box, p) : j <= i
          PROVE  p \in Updated(Apply(R, m), t)
      <4>1. k + 1 <= i /\ i \in 1 .. n + 1
        BY <2>1, <2>3, <3>1, <3>3, SMTT(30)
      <4>2. i - 1 \in 1 .. n /\ (i - 1) + 1 = i
        BY <1>1, <4>1
      <4>3. i - 1 \in Updates(t, p) /\ t[i - 1].type = "peer_added"
        BY <1>1, <2>1, <3>3, <4>2, SMTT(30)
      <4>4. ASSUME NEW j \in Updates(t, p) PROVE j <= i - 1
        <5>1. j \in 1 .. n /\ j + 1 \in Updates(box, p)
          BY <2>1, <2>3
        <5>2. j + 1 <= i
          BY <3>3, <5>1
        <5> QED
          BY <4>1, <5>1, <5>2
      <4> QED
        BY <4>3, <4>4 DEF Updated
    <3>4. Updates(box, p) # {}
      BY <2>1, <3>1
    <3> QED
      BY <2>5, <3>2, <3>3, <3>4, SMTT(30) DEF Updated
  <2> QED
    BY <2>4, <2>5
<1>4. Updated(R, box) \subseteq TNode /\ Updated(Apply(R, m), t) \subseteq TNode
  BY DEF Updated
<1> QED
  BY <1>2, <1>3, <1>4, Zenon DEF t, m

\* A mailbox without updates changes nothing.
LEMMA UpdatedQuiet ==
    ASSUME NEW R \in SUBSET TNode, NEW box,
           \A i \in DOMAIN box : box[i].type \notin {"peer_added", "peer_removed"}
    PROVE  Updated(R, box) = R
  BY DEF Updated, Updates

(***************************************************************************)
(* The inductive invariant: the types, and no phantom peer.                *)
(***************************************************************************)
TManager == [reachable_peers : SUBSET TNode, in_progress : SUBSET TNode, overdue : SUBSET TNode,
             persistent_peers : SUBSET TNode, announcement_active : BOOLEAN]

Used == [client : TNode, server : TNode, up : SUBSET TNode, pending : BOOLEAN,
         hello : SUBSET TNode, greeted : SUBSET TNode, broken : BOOLEAN]

TopologyTypes ==
    /\ manager \in [TNode -> TManager] /\ mailbox \in [TNode -> Seq(TMessage)]
    /\ connects \in [TNode -> Seq(TNode)] /\ conns \in [1 .. MaxConns -> Used \cup {Free}]
    /\ toadd \in [TNode -> SUBSET TNode]

TopologyInv == TopologyTypes /\ NoPhantomPeer

\* Every end that has a partner keeps it.
PartnersStay ==
    \A c \in 1 .. MaxConns, n \in TNode :
        n \in conns[c].up \cap conns[c].greeted =>
            /\ n \in conns'[c].up \cap conns'[c].greeted
            /\ conns'[c].client = conns[c].client /\ conns'[c].server = conns[c].server

\* Then the invariant is a matter of the nodes whose mailbox or list changes.
LEMMA TopologyLocal ==
    ASSUME TopologyInv, TopologyTypes', PartnersStay,
           \A n \in TNode : Reachable(n)' \subseteq Reachable(n) \/ Reachable(n)' \subseteq Partners(n)'
    PROVE  TopologyInv'
<1>1. DOMAIN conns = 1 .. MaxConns /\ DOMAIN conns' = 1 .. MaxConns
  BY DEF TopologyInv, TopologyTypes
<1>2. ASSUME NEW n \in TNode PROVE Partners(n) \subseteq Partners(n)'
  BY <1>1 DEF Partners, PartnersStay, Other
<1>3. \A n \in TNode : Reachable(n) \subseteq Partners(n)
  BY DEF TopologyInv, NoPhantomPeer
<1> QED
  BY <1>2, <1>3 DEF TopologyInv, NoPhantomPeer

\* A message of another kind, to n, changes nothing.
LEMMA TopologyMessage ==
    ASSUME TopologyInv, NEW n \in TNode, NEW m \in TMessage,
           m.type \notin {"peer_added", "peer_removed"},
           mailbox' = [mailbox EXCEPT ![n] = Append(@, m)], UNCHANGED <<manager, conns, connects>>,
           toadd' \in [TNode -> SUBSET TNode]
    PROVE  TopologyInv'
<1>1. mailbox \in [TNode -> Seq(TMessage)] /\ mailbox[n] \in Seq(TMessage)
      /\ manager[n].reachable_peers \in SUBSET TNode
  BY DEF TopologyInv, TopologyTypes, TManager
<1>2. Append(mailbox[n], m) \in Seq(TMessage)
  BY <1>1, AppendProperties
<1>3. TopologyTypes'
  BY <1>1, <1>2 DEF TopologyInv, TopologyTypes
<1>4. PartnersStay
  BY DEF PartnersStay
<1>5. ASSUME NEW k \in TNode PROVE Reachable(k)' = Reachable(k)
  <2>1. CASE k # n
    BY <1>1, <2>1 DEF Reachable
  <2>2. CASE k = n
    <3>1. Updated(manager[n].reachable_peers, Append(mailbox[n], m)) =
              Apply(Updated(manager[n].reachable_peers, mailbox[n]), m)
      BY <1>1, UpdatedAppend
    <3> QED
      BY <1>1, <2>2, <3>1 DEF Reachable, Apply
  <2> QED
    BY <2>1, <2>2
<1> QED
  BY <1>3, <1>4, <1>5, TopologyLocal, SMTT(30)

\* The topology manager receives a message: its list is what Apply makes of it.
LEMMA TopologyConsume ==
    ASSUME TopologyInv, NEW n \in TNode, mailbox[n] # <<>>, Consume(n), NEW m \in TManager,
           manager' = [manager EXCEPT ![n] = m],
           m.reachable_peers = Apply(manager[n].reachable_peers, Head(mailbox[n])),
           connects' \in [TNode -> Seq(TNode)], UNCHANGED <<conns, toadd>>
    PROVE  TopologyInv'
<1>1. mailbox \in [TNode -> Seq(TMessage)] /\ mailbox[n] \in Seq(TMessage)
      /\ manager \in [TNode -> TManager] /\ manager[n].reachable_peers \in SUBSET TNode
  BY DEF TopologyInv, TopologyTypes, TManager
<1>2. Tail(mailbox[n]) \in Seq(TMessage)
  BY <1>1, HeadTailProperties
<1>3. mailbox' = [mailbox EXCEPT ![n] = Tail(mailbox[n])]
  BY DEF Consume
<1>4. TopologyTypes'
  BY <1>1, <1>2, <1>3 DEF TopologyInv, TopologyTypes
<1>5. PartnersStay
  BY DEF PartnersStay
<1>6. ASSUME NEW k \in TNode PROVE Reachable(k)' = Reachable(k)
  <2>1. CASE k # n
    BY <1>1, <1>3, <2>1, SMTT(30) DEF Reachable
  <2>2. CASE k = n
    BY <1>1, <1>3, <2>2, UpdatedTail, SMTT(30) DEF Reachable
  <2> QED
    BY <2>1, <2>2
<1> QED
  BY <1>4, <1>5, <1>6, TopologyLocal, SMTT(30)

\* receive_peer_announcement and receive_peer_update.
LEMMA TopologyManaging ==
    ASSUME TopologyInv, NEW n \in TNode, Managing(n)
    PROVE  TopologyInv'
<1> DEFINE m == manager[n]  msg == Head(mailbox[n])  p == msg.peer
<1>1. mailbox[n] # <<>> /\ Consume(n) /\ UNCHANGED <<conns, toadd>>
  BY DEF Managing, ReceiveAnnouncement, ReceivePeerUpdate, ReceiveStaticPeer, Next1
<1>2. manager \in [TNode -> TManager] /\ m \in TManager /\ msg \in TMessage /\ p \in TNode
      /\ connects \in [TNode -> Seq(TNode)] /\ connects[n] \in Seq(TNode)
      /\ Append(connects[n], p) \in Seq(TNode)
  <2>1. mailbox[n] \in Seq(TMessage) /\ connects[n] \in Seq(TNode)
    BY DEF TopologyInv, TopologyTypes
  <2>2. msg \in TMessage
    BY <1>1, <2>1, HeadTailProperties
  <2>3. p \in TNode
    BY <2>2 DEF TMessage
  <2>4. Append(connects[n], p) \in Seq(TNode)
    BY <2>1, <2>3, AppendProperties, SMTT(30)
  <2> QED
    BY <2>1, <2>2, <2>3, <2>4, SMTT(30) DEF TopologyInv, TopologyTypes
<1>3. CASE ReceiveAnnouncement(n)
  <2> DEFINE rest == IF p \in m.overdue THEN Forget(m, p) ELSE m
  <2>1. msg.type \in {"announcement", "forced"}
    BY <1>3 DEF ReceiveAnnouncement, Next1
  <2>2. rest \in TManager /\ rest.reachable_peers = m.reachable_peers
    BY <1>2, Zenon DEF Forget, TManager
  <2> HIDE DEF rest
  <2>3. [rest EXCEPT !.in_progress = @ \cup {p}] \in TManager
        /\ [rest EXCEPT !.in_progress = @ \cup {p}].reachable_peers = m.reachable_peers
    BY <1>2, <2>2, Zenon DEF TManager
  <2>4. Apply(m.reachable_peers, msg) = m.reachable_peers
    BY <2>1 DEF Apply
  <2>5. \/ /\ connects' = [connects EXCEPT ![n] = Append(@, p)]
           /\ manager' = [manager EXCEPT ![n] = [rest EXCEPT !.in_progress = @ \cup {p}]]
        \/ manager' = [manager EXCEPT ![n] = rest] /\ UNCHANGED connects
    BY <1>3 DEF ReceiveAnnouncement, Peer1, rest
  <2>6. connects' \in [TNode -> Seq(TNode)]
    BY <1>2, <2>5, Zenon
  <2> HIDE DEF m, msg, p
  <2>7. \E k \in TManager : manager' = [manager EXCEPT ![n] = k]
                            /\ k.reachable_peers = Apply(m.reachable_peers, msg)
    BY <2>2, <2>3, <2>4, <2>5, Zenon
  <2> QED
    BY <1>1, <2>6, <2>7, TopologyConsume, Zenon DEF m, msg
<1>4. CASE ReceivePeerUpdate(n)
  <2>1. CASE msg.type = "peer_added"
    <3>1. peer_added(m, p) \in TManager /\ peer_added(m, p).reachable_peers = Apply(m.reachable_peers, msg)
      BY <1>2, <2>1, ZenonT(30) DEF peer_added, Forget, TManager, Apply
    <3>2. manager' = [manager EXCEPT ![n] = peer_added(m, p)] /\ UNCHANGED connects
      BY <1>2, <1>4, <2>1 DEF ReceivePeerUpdate, Next1, Peer1
    <3> QED
      BY <1>1, <1>2, <3>1, <3>2, TopologyConsume, Zenon
  <2>2. CASE msg.type = "peer_removed"
    <3>1. peer_removed(m, p) \in TManager /\ peer_removed(m, p).reachable_peers = Apply(m.reachable_peers, msg)
      BY <1>2, <2>2, Zenon DEF peer_removed, TManager, Apply
    <3>2. manager' = [manager EXCEPT ![n] = peer_removed(m, p)] /\ UNCHANGED connects
      BY <1>2, <1>4, <2>2, SMTT(30) DEF ReceivePeerUpdate, Next1, Peer1
    <3> QED
      BY <1>1, <1>2, <3>1, <3>2, TopologyConsume
  <2> QED
    BY <1>4, <2>1, <2>2 DEF ReceivePeerUpdate, Next1
<1>5. CASE ReceiveStaticPeer(n)
  <2> DEFINE k == add_static_peer(m, p)
  <2>1. msg.type = "add_static_peer"
    BY <1>5 DEF ReceiveStaticPeer, Next1
  <2>2. k \in TManager /\ k.reachable_peers = Apply(m.reachable_peers, msg)
    BY <1>2, <2>1, Zenon DEF add_static_peer, TManager, Apply
  <2>3. manager' = [manager EXCEPT ![n] = k] /\ UNCHANGED connects
    BY <1>2, <1>5 DEF ReceiveStaticPeer, Peer1
  <2> HIDE DEF k
  <2> QED
    BY <1>1, <1>2, <2>2, <2>3, TopologyConsume, Zenon
<1> QED
  BY <1>3, <1>4, <1>5, SMTT(30) DEF Managing

\* publish_persistent_peers.
LEMMA TopologyPublish ==
    ASSUME TopologyInv, NEW n \in TNode, PublishPersistentPeers(n)
    PROVE  TopologyInv'
<1> DEFINE S == {ManagerMessage("announcement", p) : p \in manager[n].persistent_peers}
           box == SetToSeq(S)
<1>1. /\ manager \in [TNode -> TManager] /\ mailbox \in [TNode -> Seq(TMessage)]
      /\ manager[n].persistent_peers \subseteq TNode /\ manager[n].reachable_peers \in SUBSET TNode
  BY DEF TopologyInv, TopologyTypes, TManager
<1>2. S \subseteq TMessage /\ \A m \in S : m.type = "announcement"
  BY <1>1 DEF ManagerMessage, TMessage
<1>3. IsFiniteSet(S)
  <2>1. IsFiniteSet(manager[n].persistent_peers)
    BY <1>1, FS_Subset, TopologyAssumption
  <2> DEFINE f == [p \in manager[n].persistent_peers |-> ManagerMessage("announcement", p)]
  <2>2. f \in Surjection(manager[n].persistent_peers, S)
    BY DEF Surjection
  <2> QED
    BY <2>1, <2>2, FS_Surjection
<1>4. mailbox[n] = <<>> /\ mailbox' = [mailbox EXCEPT ![n] = box]
      /\ UNCHANGED <<manager, connects, conns, toadd>>
  BY DEF PublishPersistentPeers
<1> HIDE DEF S
<1>5. Cardinality(S) \in Nat /\ box \in [1 .. Cardinality(S) -> S]
  <2>1. Cardinality(S) \in Nat /\ ExistsBijection(1 .. Cardinality(S), S)
    BY <1>3, FS_CardinalityType
  <2>2. \E f \in [1 .. Cardinality(S) -> S] : IsInjective(f)
    BY <2>1 DEF ExistsBijection, Bijection, Injection
  <2> QED
    BY <2>1, <2>2 DEF SetToSeq
<1> HIDE DEF box
<1>6. box \in Seq(TMessage) /\ \A i \in DOMAIN box : box[i].type = "announcement"
  <2>1. box \in [1 .. Cardinality(S) -> TMessage]
    BY <1>2, <1>5
  <2> QED
    BY <1>2, <1>5, <2>1
<1>7. TopologyTypes'
  BY <1>1, <1>4, <1>6 DEF TopologyInv, TopologyTypes
<1>8. PartnersStay
  BY <1>4 DEF PartnersStay
<1>9. ASSUME NEW k \in TNode PROVE Reachable(k)' = Reachable(k)
  <2>1. CASE k # n
    BY <1>1, <1>4, <2>1, SMTT(30) DEF Reachable
  <2>2. CASE k = n
    <3>1. Updated(manager[n].reachable_peers, box) = manager[n].reachable_peers
      BY <1>1, <1>6, UpdatedQuiet, SMTT(30)
    <3>2. Updated(manager[n].reachable_peers, <<>>) = manager[n].reachable_peers
      BY <1>1, UpdatedQuiet
    <3> QED
      BY <1>1, <1>4, <2>2, <3>1, <3>2, SMTT(30) DEF Reachable
  <2> QED
    BY <2>1, <2>2
<1> QED
  BY <1>7, <1>8, <1>9, TopologyLocal, SMTT(30)

\* Steps that change neither lists nor mailboxes.
LEMMA TopologyQuiet ==
    ASSUME TopologyInv, TopologyTypes', PartnersStay, UNCHANGED mailbox,
           \A n \in TNode : manager'[n].reachable_peers = manager[n].reachable_peers
    PROVE  TopologyInv'
  BY TopologyLocal DEF Reachable

\* The forwarder's steps.
LEMMA TopologyConnect ==
    ASSUME TopologyInv, NEW n \in TNode, CreateTcpClient(n) \/ ConnectFails(n)
    PROVE  TopologyInv'
<1>1. connects \in [TNode -> Seq(TNode)] /\ connects[n] # <<>>
      /\ conns \in [1 .. MaxConns -> Used \cup {Free}]
      /\ connects' = [connects EXCEPT ![n] = Tail(@)] /\ UNCHANGED <<manager, mailbox, toadd>>
  BY DEF TopologyInv, TopologyTypes, CreateTcpClient, ConnectFails
<1>2. Head(connects[n]) \in TNode /\ Tail(connects[n]) \in Seq(TNode)
  BY <1>1, HeadTailProperties
<1>3. connects' \in [TNode -> Seq(TNode)]
  BY <1>1, <1>2
<1>4. conns' \in [1 .. MaxConns -> Used \cup {Free}] /\ PartnersStay
  <2>1. CASE ConnectFails(n)
    BY <1>1, <2>1 DEF ConnectFails, PartnersStay
  <2>2. CASE CreateTcpClient(n)
    <3> DEFINE new == [Free EXCEPT !.client = n, !.server = Head(connects[n]), !.up = {n},
                                   !.pending = TRUE, !.hello = {Head(connects[n])}]
    <3>1. PICK c \in 1 .. MaxConns : conns[c] = Free /\ conns' = [conns EXCEPT ![c] = new]
      BY <1>1, <2>2, Zenon DEF CreateTcpClient
    <3>2. new \in Used
      BY <1>2, Zenon DEF Used, Free
    <3>3. conns[c].up = {}
      BY <3>1 DEF Free
    <3> HIDE DEF new
    <3> QED
      BY <1>1, <3>1, <3>2, <3>3, SMTT(30) DEF PartnersStay
  <2> QED
    BY <2>1, <2>2
<1>5. TopologyTypes'
  BY <1>1, <1>3, <1>4 DEF TopologyInv, TopologyTypes
<1> QED
  BY <1>1, <1>4, <1>5, TopologyQuiet, SMTT(30)

\* The steps of a connection that keep both its ends.
LEMMA TopologyConnection ==
    ASSUME TopologyInv, NEW c \in 1 .. MaxConns, Accept(c) \/ Break(c)
    PROVE  TopologyInv'
<1>1. conns \in [1 .. MaxConns -> Used \cup {Free}] /\ conns[c] \in Used
  BY DEF TopologyInv, TopologyTypes, Accept, Break, Free
<1>2. UNCHANGED <<manager, mailbox, connects, toadd>>
  BY DEF Accept, Break
<1>3. \E r \in Used : /\ conns' = [conns EXCEPT ![c] = r] /\ conns[c].up \subseteq r.up
                      /\ r.greeted = conns[c].greeted /\ r.client = conns[c].client
                      /\ r.server = conns[c].server
  <2>1. CASE Accept(c)
    <3> DEFINE r == [conns[c] EXCEPT !.pending = FALSE, !.up = @ \cup {conns[c].server}]
    <3>1. conns' = [conns EXCEPT ![c] = r]
      BY <1>1, <2>1, Zenon DEF Accept, Used
    <3>2. r \in Used
      BY <1>1, Zenon DEF Used
    <3> QED
      BY <1>1, <3>1, <3>2, Zenon DEF Used
  <2>2. CASE Break(c)
    <3> DEFINE r == [conns[c] EXCEPT !.broken = TRUE, !.pending = FALSE, !.hello = {}]
    <3>1. conns' = [conns EXCEPT ![c] = r]
      BY <1>1, <2>2, Zenon DEF Break, Used
    <3>2. r \in Used
      BY <1>1, Zenon DEF Used
    <3> QED
      BY <1>1, <3>1, <3>2, Zenon DEF Used
  <2> QED
    BY <2>1, <2>2
<1>4. conns' \in [1 .. MaxConns -> Used \cup {Free}]
  BY <1>1, <1>3
<1>5. PartnersStay
  BY <1>1, <1>3 DEF PartnersStay
<1>6. TopologyTypes'
  BY <1>2, <1>4 DEF TopologyInv, TopologyTypes
<1> QED
  BY <1>2, <1>5, <1>6, TopologyQuiet, SMTT(30)

\* handle_remote_hello: who is told of a partner has it.
LEMMA TopologyHello ==
    ASSUME TopologyInv, NEW c \in 1 .. MaxConns, NEW n \in TNode, RemoteHello(c, n)
    PROVE  TopologyInv'
<1> DEFINE o == Other(c, n)
<1>1. conns \in [1 .. MaxConns -> Used \cup {Free}] /\ conns[c] \in Used /\ n \in conns[c].up
      /\ UNCHANGED <<manager, connects, toadd>>
  BY DEF TopologyInv, TopologyTypes, RemoteHello, Free
<1>2. mailbox \in [TNode -> Seq(TMessage)] /\ mailbox[n] \in Seq(TMessage)
      /\ manager[n].reachable_peers \in SUBSET TNode
  BY DEF TopologyInv, TopologyTypes, TManager
<1>3. o \in TNode
  BY <1>1 DEF Other, Used
<1> HIDE DEF o
<1>4. CASE n \in conns[c].greeted
  <2> DEFINE r == [conns[c] EXCEPT !.hello = @ \ {n}]
  <2>1. conns' = [conns EXCEPT ![c] = r] /\ UNCHANGED mailbox
    BY <1>1, <1>4 DEF RemoteHello, Used
  <2>2. r \in Used /\ r.up = conns[c].up /\ r.greeted = conns[c].greeted
        /\ r.client = conns[c].client /\ r.server = conns[c].server
    BY <1>1 DEF Used
  <2> HIDE DEF r
  <2>3. TopologyTypes'
    BY <1>1, <2>1, <2>2 DEF TopologyInv, TopologyTypes
  <2>4. PartnersStay
    BY <1>1, <2>1, <2>2, SMTT(30) DEF PartnersStay
  <2> QED
    BY <1>1, <2>1, <2>3, <2>4, TopologyQuiet, SMTT(30)
<1>5. CASE n \notin conns[c].greeted
  <2> DEFINE r == [conns[c] EXCEPT !.greeted = @ \cup {n}, !.hello = (@ \ {n}) \cup {o}]
             m == ManagerMessage("peer_added", o)
  <2>1. conns' = [conns EXCEPT ![c] = r] /\ mailbox' = [mailbox EXCEPT ![n] = Append(@, m)]
    BY <1>1, <1>5, Zenon DEF RemoteHello, Used, o
  <2>2. r \in Used /\ r.up = conns[c].up /\ r.greeted = conns[c].greeted \cup {n}
        /\ r.client = conns[c].client /\ r.server = conns[c].server
    BY <1>1, <1>3, Zenon DEF Used
  <2>3. m \in TMessage /\ m.type = "peer_added" /\ m.peer = o
    BY <1>3 DEF TMessage, ManagerMessage
  <2> HIDE DEF r, m
  <2>4. Append(mailbox[n], m) \in Seq(TMessage)
    BY <1>2, <2>3, AppendProperties, SMTT(30)
  <2>5. TopologyTypes'
    BY <1>1, <1>2, <2>1, <2>2, <2>4, SMTT(30) DEF TopologyInv, TopologyTypes
  <2>6. PartnersStay
    BY <1>1, <2>1, <2>2, SMTT(30) DEF PartnersStay
  <2>7. ASSUME NEW k \in TNode, k # n PROVE Reachable(k)' = Reachable(k)
    BY <1>1, <1>2, <2>1, <2>7, SMTT(30) DEF Reachable
  <2>8. Reachable(n)' = Reachable(n) \cup {o}
    <3>1. Updated(manager[n].reachable_peers, Append(mailbox[n], m)) =
              Apply(Updated(manager[n].reachable_peers, mailbox[n]), m)
      BY <1>2, <2>3, UpdatedAppend
    <3> QED
      BY <1>1, <1>2, <2>1, <2>3, <3>1, SMTT(30) DEF Reachable, Apply
  <2>9. o \in Partners(n)'
    <3>1. conns'[c] = r /\ c \in DOMAIN conns'
      BY <1>1, <2>1
    <3>2. n \in conns'[c].up \cap conns'[c].greeted /\ Other(c, n)' = o
      BY <1>1, <2>2, <3>1, SMTT(30) DEF Other, o
    <3> QED
      BY <3>1, <3>2, SMTT(30) DEF Partners
  <2>10. Partners(n) \subseteq Partners(n)' /\ Reachable(n) \subseteq Partners(n)
    <3>1. DOMAIN conns = 1 .. MaxConns /\ DOMAIN conns' = 1 .. MaxConns
      BY <1>1, <2>5 DEF TopologyTypes
    <3> QED
      BY <2>6, <3>1 DEF Partners, PartnersStay, Other, TopologyInv, NoPhantomPeer
  <2>11. ASSUME NEW k \in TNode
         PROVE  Reachable(k)' \subseteq Reachable(k) \/ Reachable(k)' \subseteq Partners(k)'
    BY <2>7, <2>8, <2>9, <2>10, SMTT(30)
  <2> QED
    BY <2>5, <2>6, <2>11, TopologyLocal, SMTT(30)
<1> QED
  BY <1>4, <1>5

\* What is left of a connection whose end n is gone.
LEMMA WithoutEnd ==
    ASSUME TopologyInv, NEW c \in 1 .. MaxConns, conns[c] \in Used, NEW n \in TNode
    PROVE  /\ Without(c, n) \in Used \cup {Free}
           /\ \A k \in conns[c].up \ {n} :
                  /\ Without(c, n).up = conns[c].up \ {n}
                  /\ Without(c, n).greeted = conns[c].greeted
                  /\ Without(c, n).client = conns[c].client
                  /\ Without(c, n).server = conns[c].server
<1> DEFINE r == [conns[c] EXCEPT !.up = @ \ {n}, !.hello = @ \ {n}, !.broken = TRUE]
<1>1. r \in Used /\ r.up = conns[c].up \ {n} /\ r.greeted = conns[c].greeted
      /\ r.client = conns[c].client /\ r.server = conns[c].server
  BY Zenon DEF Used
<1>2. [r EXCEPT !.pending = FALSE] \in Used
  BY <1>1, Zenon DEF Used
<1>3. /\ [r EXCEPT !.pending = FALSE].up = r.up /\ [r EXCEPT !.pending = FALSE].greeted = r.greeted
      /\ [r EXCEPT !.pending = FALSE].client = r.client
      /\ [r EXCEPT !.pending = FALSE].server = r.server
  BY <1>1 DEF Used
<1> HIDE DEF r
<1>4. \/ r.up = {} /\ Without(c, n) = Free
      \/ r.up # {} /\ Without(c, n) = [r EXCEPT !.pending = FALSE]
      \/ r.up # {} /\ Without(c, n) = r
  BY DEF Without, r
<1> QED
  BY <1>1, <1>2, <1>3, <1>4, Zenon

\* A partner over a connection whose end at k stays remains a partner.
LEMMA PartnerStays ==
    ASSUME DOMAIN conns = 1 .. MaxConns, DOMAIN conns' = 1 .. MaxConns, NEW k,
           NEW d \in 1 .. MaxConns, k \in conns'[d].up \cap conns'[d].greeted,
           conns'[d].client = conns[d].client, conns'[d].server = conns[d].server
    PROVE  Other(d, k) \in Partners(k)'
<1>1. Other(d, k)' = Other(d, k)
  BY DEF Other
<1> QED
  BY <1>1 DEF Partners

\* tcp_reader finds a connection closed: its end takes the partner off the list.
LEMMA TopologyClose ==
    ASSUME TopologyInv, NEW c \in 1 .. MaxConns, NEW n \in TNode, CloseEnd(c, n)
    PROVE  TopologyInv'
<1> DEFINE o == Other(c, n)  w == Without(c, n)
<1>1. conns \in [1 .. MaxConns -> Used \cup {Free}] /\ conns[c] \in Used /\ n \in conns[c].up
      /\ conns' = [conns EXCEPT ![c] = w] /\ UNCHANGED <<manager, connects, toadd>>
  <2>1. conns \in [1 .. MaxConns -> Used \cup {Free}]
    BY DEF TopologyInv, TopologyTypes
  <2>2. n \in conns[c].up /\ conns' = [conns EXCEPT ![c] = w] /\ UNCHANGED <<manager, connects, toadd>>
    BY DEF CloseEnd
  <2>3. conns[c] # Free
    BY <2>2 DEF Free
  <2> QED
    BY <2>1, <2>2, <2>3
<1>2. mailbox \in [TNode -> Seq(TMessage)] /\ mailbox[n] \in Seq(TMessage)
      /\ manager[n].reachable_peers \in SUBSET TNode /\ mailbox' = Removal(mailbox, c, n)
  BY DEF TopologyInv, TopologyTypes, TManager, CloseEnd
<1>3. o \in TNode
  BY <1>1 DEF Other, Used
<1>4. /\ w \in Used \cup {Free}
      /\ \A k \in conns[c].up \ {n} : /\ w.up = conns[c].up \ {n} /\ w.greeted = conns[c].greeted
                                      /\ w.client = conns[c].client /\ w.server = conns[c].server
  BY <1>1, WithoutEnd
<1> HIDE DEF o, w
<1>5. DOMAIN conns = 1 .. MaxConns /\ DOMAIN conns' = 1 .. MaxConns
      /\ conns' \in [1 .. MaxConns -> Used \cup {Free}]
  BY <1>1, <1>4
<1>6. ASSUME NEW k \in TNode, NEW d \in 1 .. MaxConns, k \in conns[d].up \cap conns[d].greeted,
             d # c \/ k # n
      PROVE  Other(d, k) \in Partners(k)'
  <2>1. CASE d # c
    BY <1>1, <1>5, <1>6, <2>1, PartnerStays, SMTT(30)
  <2>2. CASE d = c
    <3>1. k \in w.up \cap w.greeted /\ w.client = conns[c].client /\ w.server = conns[c].server
      BY <1>4, <1>6, <2>2, SMTT(30)
    <3>2. conns'[d] = w
      BY <1>1, <2>2, SMTT(30)
    <3> QED
      BY <1>5, <2>2, <3>1, <3>2, PartnerStays, SMTT(30)
  <2> QED
    BY <2>1, <2>2, SMTT(30)
<1>7. ASSUME NEW k \in TNode, k # n PROVE Partners(k) \subseteq Partners(k)'
  BY <1>5, <1>6, <1>7 DEF Partners
<1>8. ASSUME NEW k \in TNode PROVE Reachable(k) \subseteq Partners(k)
  BY DEF TopologyInv, NoPhantomPeer
<1>9. CASE n \notin conns[c].greeted
  <2>1. UNCHANGED mailbox
    BY <1>2, <1>9, SMTT(30) DEF Removal
  <2>2. Partners(n) \subseteq Partners(n)'
    BY <1>5, <1>6, <1>9, SMTT(30) DEF Partners
  <2>3. TopologyTypes'
    BY <1>1, <1>5, <2>1, SMTT(30) DEF TopologyInv, TopologyTypes
  <2>4. \A k \in TNode : Reachable(k)' = Reachable(k)
    BY <1>1, <2>1 DEF Reachable
  <2> QED
    BY <1>7, <1>8, <2>2, <2>3, <2>4, SMTT(30) DEF TopologyInv, NoPhantomPeer
<1>10. CASE n \in conns[c].greeted
  <2> DEFINE m == ManagerMessage("peer_removed", o)
  <2>1. mailbox' = [mailbox EXCEPT ![n] = Append(@, m)]
    BY <1>2, <1>10, SMTT(30) DEF Removal, o
  <2>2. m \in TMessage /\ m.type = "peer_removed" /\ m.peer = o
    BY <1>3 DEF TMessage, ManagerMessage
  <2> HIDE DEF m
  <2>3. Append(mailbox[n], m) \in Seq(TMessage)
    BY <1>2, <2>2, AppendProperties, SMTT(30)
  <2>4. TopologyTypes'
    BY <1>1, <1>2, <1>5, <2>1, <2>3, SMTT(30) DEF TopologyInv, TopologyTypes
  <2>5. Partners(n) \ {o} \subseteq Partners(n)'
    BY <1>5, <1>6, SMTT(30) DEF Partners, o
  <2>6. Reachable(n)' = Reachable(n) \ {o}
    <3>1. Updated(manager[n].reachable_peers, Append(mailbox[n], m)) =
              Apply(Updated(manager[n].reachable_peers, mailbox[n]), m)
      BY <1>2, <2>2, UpdatedAppend, SMTT(30)
    <3> QED
      BY <1>1, <1>2, <2>1, <2>2, <3>1, SMTT(30) DEF Reachable, Apply
  <2>7. ASSUME NEW k \in TNode, k # n PROVE Reachable(k)' = Reachable(k)
    BY <1>1, <1>2, <2>1, <2>7, SMTT(30) DEF Reachable
  <2>8. ASSUME NEW k \in TNode PROVE Reachable(k)' \subseteq Partners(k)'
    BY <1>7, <1>8, <2>5, <2>6, <2>7, SMTT(30)
  <2> QED
    BY <2>4, <2>8 DEF TopologyInv, NoPhantomPeer
<1> QED
  BY <1>9, <1>10

\* A restart: the node knows nobody, and nobody loses an end of its own.
LEMMA TopologyRestart ==
    ASSUME TopologyInv, NEW n \in TNode, NodeRestarts(n)
    PROVE  TopologyInv'
<1>1. /\ manager' = [manager EXCEPT ![n] = FreshManager] /\ mailbox' = [mailbox EXCEPT ![n] = <<>>]
      /\ connects' = [connects EXCEPT ![n] = <<>>] /\ toadd' = [toadd EXCEPT ![n] = StaticPeer[n]]
      /\ DOMAIN conns = 1 .. MaxConns /\ DOMAIN conns' = 1 .. MaxConns
      /\ \A c \in 1 .. MaxConns :
            conns'[c] = IF n \in conns[c].up \/ (n = conns[c].server /\ conns[c].pending)
                        THEN Without(c, n) ELSE conns[c]
  BY DEF NodeRestarts, TopologyInv, TopologyTypes
<1>2. manager \in [TNode -> TManager] /\ mailbox \in [TNode -> Seq(TMessage)]
      /\ connects \in [TNode -> Seq(TNode)] /\ toadd \in [TNode -> SUBSET TNode]
      /\ conns \in [1 .. MaxConns -> Used \cup {Free}]
  BY DEF TopologyInv, TopologyTypes
<1>3. ASSUME NEW c \in 1 .. MaxConns
      PROVE  /\ conns'[c] \in Used \cup {Free}
             /\ \A k \in TNode \ {n} : k \in conns[c].up =>
                    /\ k \in conns'[c].up /\ conns'[c].greeted = conns[c].greeted
                    /\ conns'[c].client = conns[c].client /\ conns'[c].server = conns[c].server
  <2>1. CASE conns[c] = Free
    <3>1. conns'[c] = Free /\ conns[c].up = {}
      BY <1>1, <2>1, TopologyAssumption DEF Free
    <3> QED
      BY <3>1
  <2>2. CASE conns[c] \in Used
    BY <1>1, <2>2, WithoutEnd, SMTT(30)
  <2> QED
    BY <1>2, <2>1, <2>2, ZenonT(30)
<1>4. conns' \in [1 .. MaxConns -> Used \cup {Free}]
  <2>1. conns' = [c \in 1 .. MaxConns |-> conns'[c]]
    BY <1>1 DEF NodeRestarts
  <2> QED
    BY <1>3, <2>1, SMTT(30)
<1>5. TopologyTypes'
  <2>1. FreshManager \in TManager
    BY DEF FreshManager, TManager
  <2>2. StaticPeer[n] \in SUBSET TNode
    BY TopologyAssumption, SMTT(30)
  <2>3. manager' \in [TNode -> TManager] /\ toadd' \in [TNode -> SUBSET TNode]
    BY <1>1, <1>2, <2>1, <2>2, SMTT(30)
  <2>4. mailbox' \in [TNode -> Seq(TMessage)] /\ connects' \in [TNode -> Seq(TNode)]
    BY <1>1, <1>2, SMTT(30)
  <2> QED
    BY <1>4, <2>3, <2>4, SMTT(30) DEF TopologyTypes
<1>6. Reachable(n)' = {}
  <2>1. manager'[n].reachable_peers = {} /\ mailbox'[n] = <<>>
    BY <1>1, <1>2, SMTT(30) DEF FreshManager
  <2>2. Updated({}, <<>>) = {}
    BY UpdatedQuiet
  <2> QED
    BY <2>1, <2>2, SMTT(30) DEF Reachable
<1>7. ASSUME NEW k \in TNode, k # n PROVE Reachable(k)' \subseteq Partners(k)'
  <2>1. Reachable(k)' = Reachable(k)
    BY <1>1, <1>2, <1>7, SMTT(30) DEF Reachable
  <2>2. Reachable(k) \subseteq Partners(k)
    BY SMTT(30) DEF TopologyInv, NoPhantomPeer
  <2>3. ASSUME NEW d \in 1 .. MaxConns, k \in conns[d].up \cap conns[d].greeted
        PROVE  Other(d, k) \in Partners(k)'
    BY <1>1, <1>3, <1>7, <2>3, PartnerStays, SMTT(30)
  <2> QED
    BY <1>1, <2>1, <2>2, <2>3, SMTT(30) DEF Partners
<1> QED
  BY <1>5, <1>6, <1>7, SMTT(30) DEF TopologyInv, NoPhantomPeer

\* Every step keeps the invariant.
LEMMA TopologyStep ==
    ASSUME TopologyInv, [TNext]_tvars
    PROVE  TopologyInv'
<1>1. CASE UNCHANGED tvars
  BY <1>1, TopologyQuiet DEF tvars, TopologyInv, TopologyTypes, PartnersStay
<1>2. ASSUME NEW n \in TNode, AddStaticPeer(n) PROVE TopologyInv'
  <2>1. PICK p \in toadd[n] :
            /\ toadd' = [toadd EXCEPT ![n] = @ \ {p}]
            /\ mailbox' = [mailbox EXCEPT ![n] = Append(@, ManagerMessage("add_static_peer", p))]
            /\ UNCHANGED <<manager, connects, conns>>
    BY <1>2, Zenon DEF AddStaticPeer
  <2>2. toadd' \in [TNode -> SUBSET TNode] /\ p \in TNode
    BY <2>1 DEF TopologyInv, TopologyTypes
  <2>3. ManagerMessage("add_static_peer", p) \in TMessage
        /\ ManagerMessage("add_static_peer", p).type = "add_static_peer"
    BY <2>2 DEF ManagerMessage, TMessage
  <2> QED
    BY <2>1, <2>2, <2>3, TopologyMessage, Zenon
<1>3. ASSUME NEW n \in TNode, Announce(n) PROVE TopologyInv'
  <2>1. PICK p \in TNode, type \in {"announcement", "forced"} :
            mailbox' = [mailbox EXCEPT ![n] = Append(@, ManagerMessage(type, p))]
    BY <1>3, Zenon DEF Announce
  <2>2. toadd' \in [TNode -> SUBSET TNode] /\ UNCHANGED <<manager, connects, conns>>
    BY <1>3 DEF Announce, TopologyInv, TopologyTypes
  <2>3. ManagerMessage(type, p) \in TMessage /\ ManagerMessage(type, p).type = type
    BY DEF ManagerMessage, TMessage
  <2> QED
    BY <2>1, <2>2, <2>3, TopologyMessage, Zenon
<1>4. ASSUME NEW n \in TNode, NEW p \in TNode, Overdue(n, p) \/ Slow(n, p) PROVE TopologyInv'
  <2> DEFINE m == [manager[n] EXCEPT !.overdue = @ \cup {p}]
  <2>1. manager \in [TNode -> TManager] /\ manager[n] \in TManager
    BY DEF TopologyInv, TopologyTypes
  <2>2. manager' = [manager EXCEPT ![n] = m] /\ UNCHANGED <<mailbox, connects, conns, toadd>>
    BY <1>4, <2>1 DEF Overdue, Slow, Pass, TManager
  <2>3. m \in TManager /\ m.reachable_peers = manager[n].reachable_peers
    BY <2>1 DEF TManager
  <2> HIDE DEF m
  <2>4. TopologyTypes'
    BY <2>1, <2>2, <2>3, SMTT(30) DEF TopologyInv, TopologyTypes
  <2>5. PartnersStay
    BY <2>2 DEF PartnersStay
  <2>6. \A k \in TNode : manager'[k].reachable_peers = manager[k].reachable_peers
    BY <2>1, <2>2, <2>3, SMTT(30)
  <2> QED
    BY <2>2, <2>4, <2>5, <2>6, TopologyQuiet, SMTT(30)
<1>5. DOMAIN conns = 1 .. MaxConns
  BY DEF TopologyInv, TopologyTypes
<1> QED
  BY SMTT(30), <1>1, <1>2, <1>3, <1>4, <1>5, TopologyManaging, TopologyPublish, TopologyConnect,
     TopologyConnection, TopologyHello, TopologyClose, TopologyRestart DEF TNext

\* No topology manager takes a peer for reachable to which its node has no connection,
\* whatever connections break, whoever restarts and in whatever order the two ends notice:
\* it would wait for the peer instead of connecting to it.
THEOREM NoPhantoms == TSpec => []NoPhantomPeer
<1>1. TInit => TopologyInv
  <2> SUFFICES ASSUME TInit PROVE TopologyInv
    OBVIOUS
  <2>1. FreshManager \in TManager /\ FreshManager.reachable_peers = {}
    BY DEF FreshManager, TManager
  <2>2. TopologyTypes
    BY <2>1, TopologyAssumption DEF TInit, TopologyTypes
  <2>3. Updated({}, <<>>) = {}
    BY UpdatedQuiet
  <2>4. \A n \in TNode : Reachable(n) = {}
    BY <2>1, <2>3, Zenon DEF TInit, Reachable
  <2> QED
    BY <2>2, <2>4 DEF TopologyInv, NoPhantomPeer
<1>2. TopologyInv => NoPhantomPeer
  BY DEF TopologyInv
<1> QED
  BY <1>1, <1>2, TopologyStep, PTL DEF TSpec
=============================================================================
