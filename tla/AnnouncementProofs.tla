------------------------- MODULE AnnouncementProofs -------------------------
(***************************************************************************)
(* Proofs about PeerAnnouncements: by the addresses the router writes,     *)
(* every peer knows exactly the subscriptions that others are behind, for  *)
(* any number of receivers and peers and any filters that agree on which   *)
(* constraints are optional.  First come lemmas about the announcements of *)
(* one step.                                                               *)
(***************************************************************************)
EXTENDS PeerAnnouncements, RouterProofs

\* What a peer learns and forgets from the announcements in S.
Learnt(S) == {Entry(n) : n \in {m \in S : m.type = "local_subscription_added"
                                          /\ m.args.fetch # "FETCH"}}
Forgotten(S) == {Entry(n) : n \in {m \in S : m.type = "local_subscription_removed"}}

\* Withdrawals are published in the name of this node.
Withdrawn(S) == \A n \in S : n.type = "local_subscription_removed"
                             => n.publisher = Local

\* The announcements in S that are addressed to p, and those of the last step.
ToPeer(S, p) == {n \in S : AddressedTo(n, p)}
Addressed(p) == ToPeer(Notices, p)

\* The object that the index shares for a constraint has the flag that every
\* filter using the constraint has.
StoredExact ==
    \A i \in DOMAIN subscriptions, c \in Constraint :
        /\ c \in subscriptions[i].filter.required => ~stored[c]
        /\ c \in subscriptions[i].filter.optional => stored[c]

\* A step's announcements to p make up for the change of what p should know.
Informs(p) ==
    /\ Learnt(Addressed(p)') \subseteq Wanted(p)'
    /\ Forgotten(Addressed(p)') \cap Wanted(p)' = {}
    /\ Wanted(p)' \subseteq Wanted(p) \cup Learnt(Addressed(p)')
    /\ Wanted(p) \subseteq Wanted(p)' \cup Forgotten(Addressed(p)')
    /\ Withdrawn(Addressed(p)')

\* What p should know of the subscriptions D of the table ss.
WantedOf(ss, p, D) == {<<ss[i].filter, ss[i].args>> :
                          i \in {j \in DOMAIN ss \cap D :
                                    nodes(ss[j].receivers) \ {p} # {}}}

(***************************************************************************)
(* The shared constraint objects.                                          *)
(***************************************************************************)
\* What is written of a live subscription's filter is the filter.
LEMMA WireIsFilter ==
    ASSUME TypeOK, StoredExact, NEW i \in DOMAIN subscriptions
    PROVE  Wire(stored, subscriptions[i].filter) = subscriptions[i].filter
<1> DEFINE f == subscriptions[i].filter
<1>1. f \in Filter
  BY TypeTable DEF IsTable, Subscription
<1>2. f = [required |-> f.required, optional |-> f.optional]
      /\ f.required \subseteq Constraint /\ f.optional \subseteq Constraint
  BY <1>1, RouterAssumption
<1>3. /\ {c \in f.required \cup f.optional : ~stored[c]} = f.required
      /\ {c \in f.required \cup f.optional : stored[c]} = f.optional
  BY <1>2 DEF StoredExact
<1> QED
  BY <1>2, <1>3 DEF Wire

\* A new subscription finds the objects of its constraints with the right flag,
\* or brings them along.
LEMMA InsertKeepsStored ==
    ASSUME Unmixed, RouterInv, StoredExact, NEW r \in Receiver, NEW f \in Filter,
           NEW source \in Node, NEW a \in Argument, SubscribeNew(r, f, source, a)
    PROVE  StoredExact'
<1> DEFINE sub == [filter |-> f, args |-> a,
                   receivers |-> [q \in Receiver |-> IF q = r THEN {source} ELSE {}]]
<1>1. /\ next_sub_id \in SubId
      /\ stored' = StoredInsert(constraints, stored, f)
      /\ subscriptions' = Emplace(subscriptions, next_sub_id, sub)
  BY DEF SubscribeNew
<1>2. /\ DOMAIN subscriptions' = DOMAIN subscriptions \cup {next_sub_id}
      /\ subscriptions'[next_sub_id].filter = f
      /\ \A j \in DOMAIN subscriptions : subscriptions'[j] = subscriptions[j]
  <2>1. next_sub_id \notin DOMAIN subscriptions
    BY <1>1, RouterAssumption DEF RouterInv, TypeOK, FirstSubId
  <2> QED
    BY <1>1, <2>1 DEF Emplace
<1>3. \A j \in DOMAIN subscriptions : j \in SubId /\ subscriptions[j].filter \in Filter
  BY TypeTable DEF RouterInv, IsTable, Subscription
<1>4. \A c \in Constraint : stored'[c] = IF c \in f.required \cup f.optional /\ constraints[c] = {}
                                          THEN c \in f.optional ELSE stored[c]
  BY <1>1 DEF StoredInsert
<1>5. ASSUME NEW j \in DOMAIN subscriptions, NEW c \in Constraint
      PROVE  /\ c \in subscriptions[j].filter.required => ~stored'[c]
             /\ c \in subscriptions[j].filter.optional => stored'[c]
  <2>1. c \in subscriptions[j].filter.required \cup subscriptions[j].filter.optional
          => constraints[c] # {}
    BY <1>3, Zenon DEF RouterInv, IndexExact, IndexedBy
  <2> QED
    BY <1>4, <2>1 DEF StoredExact
<1>6. ASSUME NEW c \in Constraint
      PROVE  /\ c \in f.required => ~stored'[c]
             /\ c \in f.optional => stored'[c]
  <2>1. CASE constraints[c] = {}
    <3>1. f.required \cap f.optional = {}
      BY RouterAssumption
    <3> QED
      BY <1>4, <2>1, <3>1, Zenon
  <2>2. CASE constraints[c] # {}
    <3>1. PICK j \in SubId, opt \in BOOLEAN : <<j, opt>> \in constraints[c]
      BY <2>2 DEF RouterInv, TypeOK
    <3>2. j \in DOMAIN subscriptions /\ (\/ c \in subscriptions[j].filter.required
                                         \/ c \in subscriptions[j].filter.optional)
      BY <3>1, Zenon DEF RouterInv, IndexExact, IndexedBy
    <3>3. stored'[c] = stored[c]
      BY <1>4, <2>2
    <3>4. /\ f.required \cap subscriptions[j].filter.optional = {}
          /\ subscriptions[j].filter.required \cap f.optional = {}
      BY <1>3, <3>2 DEF Unmixed
    <3> QED
      BY <3>2, <3>3, <3>4 DEF StoredExact
  <2> QED
    BY <2>1, <2>2
<1> QED
  BY <1>2, <1>5, <1>6 DEF StoredExact

\* Objects of constraints that are still in use survive a removal.
LEMMA RemoveKeepsStored ==
    ASSUME RouterInv, RouterInv', StoredExact, NEW i, NEW r, NEW n,
           remove_subscription(i, r, n)
    PROVE  StoredExact'
<1>1. CASE i \notin DOMAIN subscriptions
  BY <1>1 DEF remove_subscription, table, StoredExact
<1>2. CASE i \in DOMAIN subscriptions /\ RemoveLast(i)
  <2>1. /\ subscriptions' = Erase(subscriptions, i)
        /\ stored' = StoredRemove(constraints', stored)
    BY <1>2 DEF RemoveLast
  <2>2. SUFFICES ASSUME NEW j \in DOMAIN subscriptions', NEW c \in Constraint
                 PROVE  /\ c \in subscriptions'[j].filter.required => ~stored'[c]
                        /\ c \in subscriptions'[j].filter.optional => stored'[c]
    BY DEF StoredExact
  <2>3. j \in DOMAIN subscriptions /\ subscriptions'[j] = subscriptions[j]
    BY <2>1 DEF Erase
  <2>4. j \in SubId
    BY <2>3, TypeTable DEF RouterInv, IsTable
  <2>5. c \in subscriptions'[j].filter.optional => constraints'[c] # {}
    BY <2>2, <2>4, Zenon DEF RouterInv, IndexExact, IndexedBy
  <2>6. stored'[c] <=> constraints'[c] # {} /\ stored[c]
    BY <2>1, Zenon DEF StoredRemove
  <2> QED
    BY <2>3, <2>5, <2>6 DEF StoredExact
<1>3. CASE i \in DOMAIN subscriptions /\ \E rs2 : RemoveSome(i, rs2)
  BY <1>3 DEF RemoveSome, SetReceivers, StoredExact
<1> QED
  BY <1>1, <1>2, <1>3 DEF remove_subscription

(***************************************************************************)
(* What the announcements of a step say.                                   *)
(***************************************************************************)
\* publish_internal publishes what it is given.
LEMMA PublishedIs ==
    ASSUME NEW ss, NEW idx, NEW nr, NEW n
    PROVE  publish_internal(ss, idx, nr, n).pub = n
BY DEF publish_internal

\* A step publishes the announcements P and besides them only the replies to a
\* meta subscription.
Announces(P) ==
    /\ \A o \in out' : o.pub.type = "__unicast_wrapper" \/ o.pub \in P
    /\ \A n \in P : \E o \in out' : o.pub = n

\* Of what a step publishes, peers learn and forget by its announcements P and
\* by nothing else: the replies to a meta subscription are not stored.
LEMMA AnnouncedBy ==
    ASSUME NEW P, NEW p, P \subseteq Notice, Announces(P)
    PROVE  /\ Learnt(Addressed(p)') = Learnt(ToPeer(P, p))
           /\ Forgotten(Addressed(p)') = Forgotten(ToPeer(P, p))
           /\ Withdrawn(P) => Withdrawn(Addressed(p)')
<1>1. \A n \in Addressed(p)' : \/ n.type = "__unicast_wrapper"
                               \/ n \in P /\ AddressedTo(n, p)
  BY DEF Announces, Addressed, Notices, ToPeer
<1>2. \A n \in P : AddressedTo(n, p) => n \in Addressed(p)'
  BY DEF Announces, Addressed, Notices, ToPeer
<1> QED
  BY <1>1, <1>2 DEF Learnt, Forgotten, Withdrawn, ToPeer

\* A step that leaves the subscriptions alone and announces nothing that is
\* stored informs everybody.
LEMMA QuietInforms ==
    ASSUME UNCHANGED subscriptions, NEW p,
           \A n \in Notices' :
              \/ n.type = "__unicast_wrapper"
              \/ n.type = "local_subscription_added" /\ n.args.fetch = "FETCH"
    PROVE  Informs(p)
<1>1. Wanted(p)' = Wanted(p)
  BY DEF Wanted
<1>2. /\ Learnt(Addressed(p)') = {} /\ Forgotten(Addressed(p)') = {}
      /\ Withdrawn(Addressed(p)')
  BY DEF Learnt, Forgotten, Addressed, Withdrawn, ToPeer
<1> QED
  BY <1>1, <1>2 DEF Informs

\* p should know of a subscription that somebody else is behind.
LEMMA WantedOfOne ==
    ASSUME NEW ss, NEW p, NEW i \in DOMAIN ss
    PROVE  WantedOf(ss, p, {i}) = IF nodes(ss[i].receivers) \ {p} # {}
                                  THEN {<<ss[i].filter, ss[i].args>>} ELSE {}
BY DEF WantedOf

\* A step that only touches subscription i changes what p should know of i.
LEMMA WantedChange ==
    ASSUME NEW p, NEW i,
           \A j : j # i => /\ j \in DOMAIN subscriptions' <=> j \in DOMAIN subscriptions
                           /\ j \in DOMAIN subscriptions =>
                                /\ subscriptions'[j].filter = subscriptions[j].filter
                                /\ subscriptions'[j].args = subscriptions[j].args
                                /\ subscriptions'[j].receivers =
                                      subscriptions[j].receivers
    PROVE  \E R : /\ Wanted(p) = R \cup WantedOf(subscriptions, p, {i})
                  /\ Wanted(p)' = R \cup WantedOf(subscriptions', p, {i})
                  /\ \A e \in R : \E j \in DOMAIN subscriptions \ {i} :
                        e = <<subscriptions[j].filter, subscriptions[j].args>>
<1> DEFINE R == WantedOf(subscriptions, p, DOMAIN subscriptions \ {i})
<1>1. Wanted(p) = R \cup WantedOf(subscriptions, p, {i})
  BY Zenon DEF Wanted, WantedOf
<1>2. Wanted(p)' = WantedOf(subscriptions', p, DOMAIN subscriptions' \ {i}) \cup WantedOf(subscriptions', p, {i})
  BY Zenon DEF Wanted, WantedOf
<1>3. WantedOf(subscriptions', p, DOMAIN subscriptions' \ {i}) = R
  BY Zenon DEF WantedOf
<1>4. \A e \in R : \E j \in DOMAIN subscriptions \ {i} :
                      e = <<subscriptions[j].filter, subscriptions[j].args>>
  BY DEF WantedOf
<1> QED
  BY <1>1, <1>2, <1>3, <1>4, Zenon

\* add_subscription of a new subscription tells all peers but its source.
LEMMA NewInforms ==
    ASSUME RouterInv, NEW r \in Receiver, NEW f \in Filter, NEW source \in Node,
           NEW a \in Argument, SubscribeNew(r, f, source, a), NEW p \in Peer
    PROVE  Informs(p)
<1> DEFINE sub == [filter |-> f, args |-> a,
                   receivers |-> [q \in Receiver |-> IF q = r THEN {source} ELSE {}]]
           n == Added(f, a, source, ExcludedBy(source), NoNode)
           new == IF source = p THEN {} ELSE {<<f, a>>}
<1>0. PICK i \in SubId : i = next_sub_id
  BY DEF SubscribeNew
<1>1. /\ subscriptions' = Emplace(subscriptions, i, sub)
      /\ a.fetch # "FETCH"
      /\ out' = MetaReplies(f, a, source) \cup
                {publish_internal(subscriptions', constraints', no_requirements', n)}
  BY <1>0 DEF SubscribeNew
<1>2. /\ DOMAIN subscriptions' = DOMAIN subscriptions \cup {i}
      /\ i \notin DOMAIN subscriptions
      /\ subscriptions'[i] = sub
      /\ \A j \in DOMAIN subscriptions : subscriptions'[j] = subscriptions[j]
  <2>1. i \notin DOMAIN subscriptions
    BY <1>0, RouterAssumption DEF RouterInv, TypeOK, FirstSubId
  <2> QED
    BY <1>1, <2>1 DEF Emplace
<1>3. WantedOf(subscriptions, p, {i}) = {} /\ WantedOf(subscriptions', p, {i}) = new
  <2>1. nodes(sub.receivers) = {source}
    BY DEF nodes
  <2>2. sub.filter = f /\ sub.args = a
    OBVIOUS
  <2> HIDE DEF sub
  <2>3. {j \in DOMAIN subscriptions' \cap {i} :
            nodes(subscriptions'[j].receivers) \ {p} # {}}
          = IF source = p THEN {} ELSE {i}
    BY <1>2, <2>1
  <2>4. WantedOf(subscriptions', p, {i}) = new
    BY <1>2, <2>2, <2>3 DEF WantedOf
  <2> QED
    BY <1>2, <2>4 DEF WantedOf
<1>4. Wanted(p)' = Wanted(p) \cup new
  <2>1. PICK R : /\ Wanted(p) = R \cup WantedOf(subscriptions, p, {i})
                 /\ Wanted(p)' = R \cup WantedOf(subscriptions', p, {i})
    <3>1. \A j : j # i =>
             /\ j \in DOMAIN subscriptions' <=> j \in DOMAIN subscriptions
             /\ j \in DOMAIN subscriptions =>
                   /\ subscriptions'[j].filter = subscriptions[j].filter
                   /\ subscriptions'[j].args = subscriptions[j].args
                   /\ subscriptions'[j].receivers = subscriptions[j].receivers
      BY <1>2
    <3> QED
      BY <3>1, WantedChange, Zenon
  <2> QED
    BY <1>3, <2>1, SMTT(30)
<1>5. /\ Learnt(ToPeer({n}, p)) = new
      /\ Forgotten(ToPeer({n}, p)) = {}
      /\ Withdrawn({n})
  <2>1. AddressedTo(n, p) <=> source # p
    BY RouterAssumption DEF AddressedTo, Added, ExcludedBy, Node
  <2>2. /\ n.type = "local_subscription_added" /\ n.args.fetch # "FETCH"
        /\ Entry(n) = <<f, a>>
    BY <1>1 DEF Added, Entry
  <2> HIDE DEF n
  <2> QED
    BY <2>1, <2>2 DEF Learnt, Forgotten, Withdrawn, ToPeer
<1>6. n \in Notice
  BY FilterTypes, NoticeTypes, ExcludedByType, SMTT(30)
<1>7. \A o \in MetaReplies(f, a, source) : o.pub.type = "__unicast_wrapper"
  BY MetaRepliesTypes DEF RouterInv
<1>8. /\ Learnt(Addressed(p)') = new /\ Forgotten(Addressed(p)') = {}
      /\ Withdrawn(Addressed(p)')
  <2>1. Announces({n})
    <3> DEFINE w == publish_internal(subscriptions', constraints', no_requirements', n)
    <3>1. w.pub = n
      BY PublishedIs
    <3>2. out' = MetaReplies(f, a, source) \cup {w}
      BY <1>1
    <3> HIDE DEF n, w
    <3> QED
      BY <1>7, <3>1, <3>2 DEF Announces
  <2>2. {n} \subseteq Notice
    BY <1>6
  <2> HIDE DEF n, new
  <2> QED
    BY <1>5, <2>1, <2>2, AnnouncedBy
<1> QED
  BY <1>4, <1>8 DEF Informs

\* Joining a subscription tells the one node that was behind it alone, and
\* repeats to others only what they know.
LEMMA ExistingInforms ==
    ASSUME RouterInv, NEW r \in Receiver, NEW f \in Filter, NEW source \in Node,
           NEW a \in Argument, NEW i \in SubId, SubscribeExisting(r, f, source, a, i),
           NEW p \in Peer
    PROVE  Informs(p)
<1> DEFINE rs == subscriptions[i].receivers
           rs2 == [rs EXCEPT ![r] = @ \cup {source}]
           P == IF source \notin rs[r] THEN JoinAnnouncement(f, a, source, nodes(rs2))
                ELSE {}
           L == Learnt(ToPeer(P, p))
<1>1. /\ i \in DOMAIN subscriptions
      /\ subscriptions[i].filter = f /\ subscriptions[i].args = a
      /\ a.fetch # "FETCH"
      /\ subscriptions' = SetReceivers(subscriptions, i, rs2)
  BY DEF SubscribeExisting, Same
<1>2. out' = MetaReplies(f, a, source) \cup
             {publish_internal(subscriptions', constraints', no_requirements', n) :
                 n \in P}
  BY DEF SubscribeExisting
<1>3. rs \in [Receiver -> SUBSET Node] /\ rs2 \in [Receiver -> SUBSET Node]
  BY <1>1, TypeTable, SMTT(30) DEF IsTable, Subscription, RouterInv
<1>4. nodes(rs2) = nodes(rs) \cup {source} /\ nodes(rs2) \subseteq Node
  BY <1>3 DEF nodes
<1>5. P \subseteq Notice
  BY <1>4, JoinAnnouncementTypes, Zenon
<1>6. \A n \in P : /\ n.type = "local_subscription_added" /\ n.args.fetch # "FETCH"
                   /\ Entry(n) = <<f, a>>
                   /\ AddressedTo(n, p) => source # p
  <2>1. \A x, y : /\ Added(f, a, source, x, y).type = "local_subscription_added"
                  /\ Added(f, a, source, x, y).args.fetch # "FETCH"
                  /\ Entry(Added(f, a, source, x, y)) = <<f, a>>
    BY <1>1 DEF Added, Entry
  <2>2. \A m \in nodes(rs2) \ {source} :
           AddressedTo(Added(f, a, source, NoNode, m), p) => source # p
    BY <1>4, RouterAssumption DEF AddressedTo, Added
  <2>3. AddressedTo(Added(f, a, source, ExcludedBy(source), NoNode), p) => source # p
    BY RouterAssumption DEF AddressedTo, Added, ExcludedBy, Node
  <2>4. source = Local => source # p
    BY RouterAssumption
  <2> QED
    BY <2>1, <2>2, <2>3, <2>4, Zenon DEF JoinAnnouncement
<1>7. L \subseteq {<<f, a>>} /\ (L # {} => source # p)
      /\ Forgotten(ToPeer(P, p)) = {} /\ Withdrawn(P)
  BY <1>6, Zenon DEF Learnt, Forgotten, Withdrawn, ToPeer
<1>8. ASSUME nodes(rs) \ {p} = {}, nodes(rs2) \ {p} # {}
      PROVE  <<f, a>> \in L
  <2>1. source # p /\ nodes(rs2) = {p, source} /\ source \notin rs[r]
    <3>1. nodes(rs) # {}
      BY <1>1 DEF RouterInv, NoAbandonedSubscription
    <3>2. rs[r] \subseteq nodes(rs)
      BY <1>3 DEF nodes
    <3> QED
      BY <1>4, <1>8, <3>1, <3>2
  <2>2. Cardinality(nodes(rs2)) = 2
    <3>1. nodes(rs2) = {p} \cup {source} /\ source \notin {p}
      BY <2>1
    <3>2. IsFiniteSet({p}) /\ Cardinality({p}) = 1
      BY FS_Singleton, Zenon
    <3>3. Cardinality({p} \cup {source}) = Cardinality({p}) + 1
      BY <3>1, <3>2, FS_AddElement, Zenon
    <3> QED
      BY <3>1, <3>2, <3>3
  <2>3. Added(f, a, source, NoNode, p) \in P
    BY <2>1, <2>2 DEF JoinAnnouncement
  <2>4. AddressedTo(Added(f, a, source, NoNode, p), p)
    BY RouterAssumption DEF AddressedTo, Added, Node
  <2> QED
    BY <1>6, <2>3, <2>4, Zenon DEF Learnt, ToPeer
<1> HIDE DEF rs, rs2, P, L
<1>9. /\ Learnt(Addressed(p)') = L
      /\ Forgotten(Addressed(p)') = {} /\ Withdrawn(Addressed(p)')
  <2>1. \A o \in MetaReplies(f, a, source) : o.pub.type = "__unicast_wrapper"
    BY MetaRepliesTypes DEF RouterInv
  <2>2. Announces(P)
    BY <1>2, <2>1, PublishedIs, SMTT(30) DEF Announces
  <2> QED
    BY <1>5, <1>7, <2>2, AnnouncedBy DEF L
<1>10. /\ DOMAIN subscriptions' = DOMAIN subscriptions
       /\ \A j \in DOMAIN subscriptions :
             /\ subscriptions'[j].filter = subscriptions[j].filter
             /\ subscriptions'[j].args = subscriptions[j].args
             /\ subscriptions'[j].receivers =
                   IF j = i THEN rs2 ELSE subscriptions[j].receivers
  <2>1. IsTable(subscriptions) /\ IndexedBy(subscriptions, constraints, no_requirements)
    BY TypeTable DEF RouterInv, IndexExact
  <2> QED
    BY <1>1, <1>3, <2>1, UpdateKeepsIndex
<1>11. PICK R : /\ Wanted(p) = R \cup WantedOf(subscriptions, p, {i})
                /\ Wanted(p)' = R \cup WantedOf(subscriptions', p, {i})
  BY <1>10, WantedChange, Zenon
<1>12. WantedOf(subscriptions, p, {i}) = IF nodes(rs) \ {p} # {} THEN {<<f, a>>} ELSE {}
  BY <1>1, WantedOfOne, Zenon DEF rs
<1>13. WantedOf(subscriptions', p, {i}) = IF nodes(rs2) \ {p} # {} THEN {<<f, a>>} ELSE {}
  <2>1. /\ i \in DOMAIN subscriptions'
        /\ subscriptions'[i].filter = f /\ subscriptions'[i].args = a
        /\ subscriptions'[i].receivers = rs2
    BY <1>1, <1>10
  <2> QED
    BY <2>1, WantedOfOne, Zenon
<1> QED
  BY <1>4, <1>7, <1>8, <1>9, <1>11, <1>12, <1>13, SMTT(30) DEF Informs

\* A subscription's entry is no other subscription's.
LEMMA EntryUnique ==
    ASSUME UniqueSubscriptions, NEW i \in DOMAIN subscriptions, NEW R,
           \A e \in R : \E j \in DOMAIN subscriptions \ {i} :
              e = <<subscriptions[j].filter, subscriptions[j].args>>
    PROVE  <<subscriptions[i].filter, subscriptions[i].args>> \notin R
BY DEF UniqueSubscriptions

\* P withdraws a subscription from the nodes T.
Withdraws(P, f, a, T) ==
    /\ \A t \in T : Removed(f, a, t) \in P
    /\ \A n \in P : \E t \in T : n = Removed(f, a, t)

\* Of withdrawals of one entry, peers forget the entry if one is addressed to
\* them.
LEMMA Withdrawals ==
    ASSUME NEW f, NEW a, NEW p \in Peer, NEW T, NEW P,
           Withdraws(P, f, a, T)
    PROVE  /\ Learnt(ToPeer(P, p)) = {}
           /\ p \in T \/ NoNode \in T =>
                 Forgotten(ToPeer(P, p)) = {<<f, a>>}
           /\ p \notin T /\ NoNode \notin T =>
                 Forgotten(ToPeer(P, p)) = {}
           /\ Withdrawn(P)
<1>1. \A t : /\ Removed(f, a, t).type = "local_subscription_removed"
             /\ Removed(f, a, t).publisher = Local
             /\ Entry(Removed(f, a, t)) = <<f, a>>
             /\ Removed(f, a, t).include = t
             /\ Removed(f, a, t).exclude = NoNode
  BY DEF Removed, Entry
<1>2. p # NoNode
  BY RouterAssumption DEF Node
<1>3. \A t : AddressedTo(Removed(f, a, t), p) <=> t = p \/ t = NoNode
  BY <1>1, <1>2 DEF AddressedTo
<1>4. \A n \in P : /\ n.type = "local_subscription_removed" /\ n.publisher = Local
                   /\ Entry(n) = <<f, a>>
                   /\ AddressedTo(n, p) => p \in T \/ NoNode \in T
  BY <1>1, <1>3 DEF Withdraws
<1>5. p \in T \/ NoNode \in T => \E n \in P : AddressedTo(n, p)
  BY <1>3 DEF Withdraws
<1> QED
  BY <1>4, <1>5 DEF Learnt, Forgotten, Withdrawn, ToPeer

\* Removing a subscription tells all peers to forget it.
LEMMA RemoveLastInforms ==
    ASSUME RouterInv, StoredExact, NEW i \in DOMAIN subscriptions, RemoveLast(i),
           NEW p \in Peer
    PROVE  Informs(p)
<1>0. PICK f, a : f = subscriptions[i].filter /\ a = subscriptions[i].args
  OBVIOUS
<1> DEFINE n == Removed(f, a, NoNode)
<1>1. /\ subscriptions' = Erase(subscriptions, i)
      /\ out' = {publish_internal(subscriptions', constraints', no_requirements', n)}
  BY <1>0, WireIsFilter DEF RemoveLast, RouterInv
<1>2. n \in Notice
  BY <1>0, WireIsFilter, RemovedTypes DEF RouterInv
<1>3. /\ Learnt(Addressed(p)') = {} /\ Forgotten(Addressed(p)') = {<<f, a>>}
      /\ Withdrawn(Addressed(p)')
  <2>1. Withdraws({n}, f, a, {NoNode})
    BY DEF Withdraws
  <2>3. Announces({n})
    BY <1>1, PublishedIs DEF Announces
  <2> HIDE DEF n
  <2>2. /\ Learnt(ToPeer({n}, p)) = {}
        /\ Forgotten(ToPeer({n}, p)) = {<<f, a>>}
        /\ Withdrawn({n})
    BY <2>1, Withdrawals
  <2> QED
    BY <1>2, <2>2, <2>3, AnnouncedBy, Zenon
<1>4. PICK R : /\ Wanted(p) = R \cup WantedOf(subscriptions, p, {i})
               /\ Wanted(p)' = R \cup WantedOf(subscriptions', p, {i})
               /\ <<f, a>> \notin R
  <2>1. \A j : j # i =>
           /\ j \in DOMAIN subscriptions' <=> j \in DOMAIN subscriptions
           /\ j \in DOMAIN subscriptions =>
                 /\ subscriptions'[j].filter = subscriptions[j].filter
                 /\ subscriptions'[j].args = subscriptions[j].args
                 /\ subscriptions'[j].receivers = subscriptions[j].receivers
    BY <1>1 DEF Erase
  <2> QED
    BY <1>0, <2>1, WantedChange, EntryUnique, Zenon DEF RouterInv
<1>5. WantedOf(subscriptions', p, {i}) = {}
  BY <1>1 DEF WantedOf, Erase
<1>6. WantedOf(subscriptions, p, {i}) \subseteq {<<f, a>>}
  BY <1>0, WantedOfOne, Zenon
<1> QED
  BY <1>3, <1>4, <1>5, <1>6, SMTT(30) DEF Informs

\* The last peer that is behind a subscription is told to forget it, and no
\* other node is.
LEMMA RemoveSomeInforms ==
    ASSUME RouterInv, StoredExact, NEW i \in DOMAIN subscriptions,
           NEW rs \in [Receiver -> SUBSET Node], RemoveSome(i, rs), nodes(rs) # {},
           \A q \in Receiver : rs[q] \subseteq subscriptions[i].receivers[q],
           NEW p \in Peer
    PROVE  Informs(p)
<1>0. PICK f, a : f = subscriptions[i].filter /\ a = subscriptions[i].args
  BY SMTT(30)
<1> DEFINE T == IF Cardinality(nodes(rs)) = 1 THEN nodes(rs) \ {Local} ELSE {}
           P == {Removed(f, a, t) : t \in T}
           gone == nodes(rs) \ {p} = {}
<1>1. /\ subscriptions' = SetReceivers(subscriptions, i, rs)
      /\ out' = {publish_internal(subscriptions', constraints', no_requirements',
                                  Removed(f, a, t)) : t \in T}
  BY <1>0, WireIsFilter DEF RemoveSome, RouterInv
<1>2. T \in SUBSET Node
  BY DEF nodes
<1>3. P \subseteq Notice
  <2>1. \A t \in T : Removed(f, a, t) \in Notice
    BY <1>0, <1>2, WireIsFilter, RemovedTypes, SMTT(30) DEF RouterInv
  <2> QED
    BY <2>1
<1>4. p \in T <=> gone
  <2>1. IsFiniteSet(nodes(rs))
    <3>1. IsFiniteSet(Node)
      BY RouterAssumption, FS_AddElement DEF Node
    <3>2. nodes(rs) \subseteq Node
      BY DEF nodes
    <3> QED
      BY <3>1, <3>2, FS_Subset
  <2>2. p # Local
    BY RouterAssumption
  <2>3. CASE gone
    <3>1. nodes(rs) = {p}
      BY <2>3
    <3>2. Cardinality({p}) = 1
      BY FS_Singleton, Zenon
    <3> QED
      BY <2>2, <2>3, <3>1, <3>2
  <2>4. CASE p \in T
    <3>1. PICK x : nodes(rs) = {x}
      BY <2>1, <2>4, FS_Singleton
    <3> QED
      BY <2>4, <3>1
  <2> QED
    BY <2>3, <2>4
<1>5. NoNode \notin T
  BY <1>2, RouterAssumption, SMTT(30)
<1>6. /\ Learnt(ToPeer(P, p)) = {}
      /\ Forgotten(ToPeer(P, p)) = IF gone THEN {<<f, a>>} ELSE {}
      /\ Withdrawn(P)
  <2>1. Withdraws(P, f, a, T)
    BY DEF Withdraws
  <2> HIDE DEF T, P, gone
  <2> QED
    BY <1>4, <1>5, <2>1, Withdrawals
<1>7. Announces(P)
  <2> HIDE DEF T
  <2> QED
    BY <1>1, PublishedIs, SMTT(30) DEF Announces
<1> HIDE DEF T, P
<1>8. /\ Learnt(Addressed(p)') = {}
      /\ Forgotten(Addressed(p)') = IF gone THEN {<<f, a>>} ELSE {}
      /\ Withdrawn(Addressed(p)')
  <2>1. /\ Learnt(Addressed(p)') = Learnt(ToPeer(P, p))
        /\ Forgotten(Addressed(p)') = Forgotten(ToPeer(P, p))
        /\ Withdrawn(P) => Withdrawn(Addressed(p)')
    BY <1>3, <1>7, AnnouncedBy, SMTT(30)
  <2> HIDE DEF gone
  <2> QED
    BY <1>6, <2>1
<1>9. /\ DOMAIN subscriptions' = DOMAIN subscriptions
      /\ \A j \in DOMAIN subscriptions :
            /\ subscriptions'[j].filter = subscriptions[j].filter
            /\ subscriptions'[j].args = subscriptions[j].args
            /\ subscriptions'[j].receivers =
                  IF j = i THEN rs ELSE subscriptions[j].receivers
  <2>1. IsTable(subscriptions) /\ IndexedBy(subscriptions, constraints, no_requirements)
    BY TypeTable DEF RouterInv, IndexExact
  <2> QED
    BY <1>1, <2>1, UpdateKeepsIndex, SMTT(30)
<1>10. PICK R : /\ Wanted(p) = R \cup WantedOf(subscriptions, p, {i})
                /\ Wanted(p)' = R \cup WantedOf(subscriptions', p, {i})
                /\ <<f, a>> \notin R
  BY <1>0, <1>9, WantedChange, EntryUnique, Zenon DEF RouterInv
<1>11. WantedOf(subscriptions', p, {i}) = IF gone THEN {} ELSE {<<f, a>>}
  <2>1. /\ i \in DOMAIN subscriptions'
        /\ subscriptions'[i].filter = f /\ subscriptions'[i].args = a
        /\ subscriptions'[i].receivers = rs
    BY <1>0, <1>9
  <2>2. WantedOf(subscriptions', p, {i})
          = IF nodes(subscriptions'[i].receivers) \ {p} # {}
            THEN {<<subscriptions'[i].filter, subscriptions'[i].args>>} ELSE {}
    BY <2>1, WantedOfOne, Zenon
  <2> QED
    BY <2>1, <2>2
<1>12. /\ WantedOf(subscriptions, p, {i}) \subseteq {<<f, a>>}
       /\ ~gone => WantedOf(subscriptions, p, {i}) = {<<f, a>>}
  <2>1. nodes(rs) \subseteq nodes(subscriptions[i].receivers)
    BY DEF nodes
  <2> QED
    BY <1>0, <2>1, WantedOfOne, Zenon
<1> HIDE DEF gone
<1> QED
  BY <1>8, <1>10, <1>11, <1>12, SMTT(30) DEF Informs

\* remove_subscription informs every peer.
LEMMA RemoveInforms ==
    ASSUME RouterInv, StoredExact, NEW i, NEW r \in Receiver, NEW n,
           remove_subscription(i, r, n), NEW p \in Peer
    PROVE  Informs(p)
<1>1. CASE i \notin DOMAIN subscriptions
  <2>1. UNCHANGED subscriptions /\ out' = {}
    BY <1>1 DEF remove_subscription, table
  <2> QED
    BY <2>1, QuietInforms DEF Notices
<1>2. CASE i \in DOMAIN subscriptions
  <2> DEFINE rs == RemoveReceiver(subscriptions[i].receivers, r, n)
  <2>1. subscriptions[i].receivers \in [Receiver -> SUBSET Node]
    BY <1>2, TypeTable DEF IsTable, Subscription, RouterInv
  <2>2. /\ rs \in [Receiver -> SUBSET Node]
        /\ \A q \in Receiver : rs[q] \subseteq subscriptions[i].receivers[q]
    BY <2>1 DEF RemoveReceiver
  <2>3. IF nodes(rs) = {} THEN RemoveLast(i) ELSE RemoveSome(i, rs)
    BY <1>2 DEF remove_subscription
  <2> HIDE DEF rs
  <2> QED
    BY <1>2, <2>2, <2>3, RemoveLastInforms, RemoveSomeInforms
<1> QED
  BY <1>1, <1>2

\* A mere fetch is announced, but no peer stores it.
LEMMA FetchInforms ==
    ASSUME RouterInv, NEW r \in Receiver, NEW f \in Filter, NEW source \in Node,
           NEW a \in Argument, SubscribeFetch(r, f, source, a), NEW p
    PROVE  Informs(p)
<1> DEFINE n == Added(f, a, source, ExcludedBy(source), NoNode)
           w == publish_internal(subscriptions, constraints, no_requirements, n)
<1>1. /\ UNCHANGED subscriptions
      /\ a.fetch = "FETCH"
      /\ out' = MetaReplies(f, a, source) \cup {w}
  BY DEF SubscribeFetch, table
<1>2. \A o \in MetaReplies(f, a, source) : o.pub.type = "__unicast_wrapper"
  BY MetaRepliesTypes DEF RouterInv
<1>3. w.pub = n
  BY PublishedIs
<1>4. n.type = "local_subscription_added" /\ n.args.fetch = "FETCH"
  BY <1>1 DEF Added
<1> HIDE DEF n, w
<1> QED
  BY <1>1, <1>2, <1>3, <1>4, QuietInforms DEF Notices

\* Every step of the router informs every peer, by the addresses it writes.
LEMMA NextInforms ==
    ASSUME RouterInv, StoredExact, Next, NEW p \in Peer
    PROVE  Informs(p)
<1>1. ASSUME NEW m \in Message, Publish(m)
      PROVE  Informs(p)
  <2>1. \A o \in out' : o.pub = m
    BY <1>1, PublishedIs DEF Publish
  <2>2. Notices' = {}
    BY <2>1, AnnouncementAssumption DEF Notices
  <2> QED
    BY <1>1, <2>2, QuietInforms DEF Publish, table
<1>2. ASSUME NEW q \in Peer, SubscriptionListsFor(q)
      PROVE  Informs(p)
  BY <1>2, QuietInforms DEF SubscriptionListsFor, Notices, table
<1>3. ASSUME NEW r \in Receiver, NewReceiver(r) \/ Close(r) \/ Closed(r)
      PROVE  Informs(p)
  BY <1>3, QuietInforms DEF NewReceiver, Close, Closed, Notices, table
<1>4. ASSUME NEW r \in Receiver, Subscribe(r)
      PROVE  Informs(p)
  BY <1>4, FetchInforms, ExistingInforms, NewInforms, SMTT(30) DEF Subscribe
<1>5. ASSUME NEW r \in Receiver, NEW i, NEW n, Unsubscribe(r, i, n)
      PROVE  Informs(p)
  BY <1>5, RemoveInforms DEF Unsubscribe
<1>6. ASSUME NEW r \in Receiver, NEW i, CloseStep(r, i)
      PROVE  Informs(p)
  BY <1>6, RemoveInforms DEF CloseStep
<1> QED
  BY <1>1, <1>2, <1>3, <1>4, <1>5, <1>6, SMTT(30) DEF Next

\* Every step of the router keeps the flags of the shared objects right, as long
\* as no constraint is both required and optional.
LEMMA NextStored ==
    ASSUME Unmixed, RouterInv, RouterInv', StoredExact, [Next]_vars
    PROVE  StoredExact'
<1>1. ASSUME UNCHANGED table PROVE StoredExact'
  BY <1>1 DEF table, StoredExact
<1>2. ASSUME NEW r \in Receiver, Subscribe(r)
      PROVE  StoredExact'
  <2>1. ASSUME NEW f, NEW source, NEW a, SubscribeFetch(r, f, source, a)
        PROVE  StoredExact'
    BY <1>1, <2>1 DEF SubscribeFetch, table
  <2>2. ASSUME NEW f, NEW source, NEW a, NEW i, SubscribeExisting(r, f, source, a, i)
        PROVE  StoredExact'
    BY <2>2 DEF SubscribeExisting, SetReceivers, StoredExact
  <2> QED
    BY <1>2, <2>1, <2>2, InsertKeepsStored DEF Subscribe
<1>3. ASSUME NEW r \in Receiver, NEW i, NEW n, Unsubscribe(r, i, n)
      PROVE  StoredExact'
  BY <1>3, RemoveKeepsStored DEF Unsubscribe
<1>4. ASSUME NEW r \in Receiver, NEW i, CloseStep(r, i)
      PROVE  StoredExact'
  BY <1>4, RemoveKeepsStored DEF CloseStep
<1>5. ASSUME NEW m, Publish(m) PROVE StoredExact'
  BY <1>1, <1>5 DEF Publish, table
<1>6. ASSUME NEW q, SubscriptionListsFor(q) PROVE StoredExact'
  BY <1>1, <1>6 DEF SubscriptionListsFor, table
<1>7. ASSUME NEW r, NewReceiver(r) \/ Close(r) \/ Closed(r) PROVE StoredExact'
  BY <1>1, <1>7 DEF NewReceiver, Close, Closed, table
<1>8. CASE UNCHANGED vars
  BY <1>1, <1>8 DEF vars, table
<1> QED
  BY <1>2, <1>3, <1>4, <1>5, <1>6, <1>7, <1>8, SMTT(30) DEF Next

(***************************************************************************)
(* What the router writes of its filters.                                  *)
(***************************************************************************)
\* As long as no constraint is required in one filter and optional in another,
\* the router writes out the filters as they were subscribed to, though all
\* subscriptions share one object per constraint.
THEOREM FiltersSurviveSharing == ASSUME Unmixed PROVE Spec => []WireFaithful
<1>1. Init => StoredExact
  BY DEF Init, StoredExact
<1>2. RouterInv /\ RouterInv' /\ StoredExact /\ [Next]_vars => StoredExact'
  BY NextStored
<1>3. RouterInv /\ StoredExact => WireFaithful
  BY WireIsFilter DEF RouterInv, WireFaithful
<1> QED
  BY <1>1, <1>2, <1>3, RouterInvariant, PTL DEF Spec

(***************************************************************************)
(* What the peers know.                                                    *)
(***************************************************************************)
\* What a peer may know.
Entries == [required : SUBSET Constraint, optional : SUBSET Constraint] \X Argument

\* The inductive invariant of the history variables.  A peer that has not got
\* its list yet knows nothing but what it should.
Informed(p) ==
    /\ told[p] \subseteq Wanted(p) /\ heard[p] \subseteq Wanted(p)
    /\ p \in replayed => Wanted(p) \subseteq told[p]
    /\ p \notin connected => told[p] = {} /\ heard[p] = {}

PeerInv ==
    /\ RouterInv /\ StoredExact
    /\ PTypeOK
    /\ \A p \in Peer : Informed(p)

\* Learning is adding what was announced and dropping what was withdrawn.
LEMMA LearnIs ==
    ASSUME NEW known, NEW S
    PROVE  Learn(known, S) = (known \cup Learnt(S)) \ Forgotten(S)
BY DEF Learn, Learnt, Forgotten

\* What is learnt from announcements has the type of an entry.
LEMMA LearnTypes ==
    ASSUME NEW known \in SUBSET Entries, NEW S \in SUBSET Notice
    PROVE  Learn(known, S) \in SUBSET Entries
<1>1. \A n \in S : Entry(n) \in Entries
  BY DEF Notice, Entry, Entries
<1> QED
  BY <1>1 DEF Learn

\* A connection's filter passes a part of what is addressed to the peer, and
\* every withdrawal.
LEMMA HeardPart ==
    ASSUME NEW p, NEW S
    PROVE  LET A == ToPeer(S, p)
               H == {n \in S : ConnectionFilter(n, p)}
           IN  /\ Learnt(H) \subseteq Learnt(A)
               /\ Withdrawn(A) => Forgotten(H) = Forgotten(A)
BY SMTT(30) DEF ToPeer, ConnectionFilter, Withdrawn, Learnt, Forgotten

\* What informs a peer keeps it informed.
LEMMA InformsKeeps ==
    ASSUME NEW p \in Peer, Informed(p), Informs(p), p \in connected,
           UNCHANGED <<connected, replayed>>,
           told'[p] = Learn(told[p], ToPeer(Notices', p)),
           heard'[p] = Learn(heard[p], {n \in Notices' : ConnectionFilter(n, p)})
    PROVE  Informed(p)'
<1> DEFINE A == ToPeer(Notices', p)
           H == {n \in Notices' : ConnectionFilter(n, p)}
<1>1. /\ Learnt(A) \subseteq Wanted(p)'
      /\ Forgotten(A) \cap Wanted(p)' = {}
      /\ Wanted(p)' \subseteq Wanted(p) \cup Learnt(A)
      /\ Wanted(p) \subseteq Wanted(p)' \cup Forgotten(A)
      /\ Withdrawn(A)
  BY ZenonT(30) DEF Informs, Addressed
<1>2. Learnt(H) \subseteq Learnt(A) /\ Forgotten(H) = Forgotten(A)
  BY <1>1, HeardPart, SMTT(30)
<1>3. /\ told'[p] = (told[p] \cup Learnt(A)) \ Forgotten(A)
      /\ heard'[p] = (heard[p] \cup Learnt(H)) \ Forgotten(H)
  BY LearnIs
<1> HIDE DEF A, H
<1> QED
  BY <1>1, <1>2, <1>3, SMTT(30) DEF Informed

\* The list that is sent after the hello has what the peer should know: a
\* subscription with two nodes has one other than the peer.
LEMMA ReplayIsWanted ==
    ASSUME RouterInv, StoredExact, NEW p \in Peer
    PROVE  Replay(p) = Wanted(p)
<1>1. ASSUME NEW i \in DOMAIN subscriptions
      PROVE  LET ns == nodes(subscriptions[i].receivers)
             IN  Cardinality(ns) >= 2 \/ p \notin ns <=> ns \ {p} # {}
  <2> DEFINE ns == nodes(subscriptions[i].receivers)
  <2>1. ns # {}
    BY DEF RouterInv, NoAbandonedSubscription
  <2>2. IsFiniteSet(ns)
    <3>1. IsFiniteSet(Node)
      BY RouterAssumption, FS_AddElement DEF Node
    <3>2. subscriptions[i].receivers \in [Receiver -> SUBSET Node]
      BY TypeTable DEF RouterInv, IsTable, Subscription
    <3>3. ns \subseteq Node
      BY <3>2 DEF nodes
    <3> QED
      BY <3>1, <3>3, FS_Subset
  <2> HIDE DEF ns
  <2>3. CASE p \notin ns
    BY <2>1, <2>3 DEF ns
  <2>4. CASE p \in ns
    <3>1. Cardinality(ns \ {p}) = Cardinality(ns) - 1
      BY <2>2, <2>4, FS_RemoveElement, Zenon
    <3>2. IsFiniteSet(ns \ {p})
      BY <2>2, FS_RemoveElement
    <3>3. Cardinality(ns \ {p}) = 0 <=> ns \ {p} = {}
      BY <3>2, FS_EmptySet
    <3>4. Cardinality(ns) \in Nat /\ Cardinality(ns \ {p}) \in Nat
      BY <2>2, <3>2, FS_CardinalityType
    <3>5. Cardinality(ns) >= 2 <=> ns \ {p} # {}
      BY <3>1, <3>3, <3>4
    <3> QED
      BY <2>4, <3>5 DEF ns
  <2> QED
    BY <2>3, <2>4
<1>2. Fulfillable(p) = {j \in DOMAIN subscriptions :
                           nodes(subscriptions[j].receivers) \ {p} # {}}
  BY <1>1 DEF Fulfillable
<1>3. \A i \in DOMAIN subscriptions :
         Wire(stored, subscriptions[i].filter) = subscriptions[i].filter
  BY WireIsFilter DEF RouterInv
<1> QED
  BY <1>2, <1>3 DEF Replay, Wanted

\* What a peer should know has the type of an entry.
LEMMA WantedTypes ==
    ASSUME TypeOK, NEW p PROVE Wanted(p) \in SUBSET Entries
<1>1. \A i \in DOMAIN subscriptions :
         subscriptions[i].filter \in Filter /\ subscriptions[i].args \in Argument
  BY TypeTable DEF IsTable, Subscription
<1> QED
  BY <1>1, RouterAssumption DEF Wanted, Entries

(***************************************************************************)
(* The steps.                                                              *)
(***************************************************************************)
\* A step changes the router as the router's own specification allows.
LEMMA StepOfRouter == [PNext]_pvars => [Next]_vars
<1>1. ASSUME NEW p \in Peer, SendList(p) PROVE Next
  BY <1>1 DEF SendList, Next
<1> QED
  BY <1>1 DEF PNext, RouterStep, Hello, Disconnect, pvars

\* A step of the router keeps every peer informed.
LEMMA RouterStepInv ==
    ASSUME PeerInv, RouterStep
    PROVE  PTypeOK' /\ \A p \in Peer : Informed(p)'
<1>1. /\ told \in [Peer -> SUBSET Entries] /\ heard \in [Peer -> SUBSET Entries]
      /\ connected \in SUBSET Peer /\ replayed \in SUBSET connected
  BY SMTT(30) DEF PeerInv, PTypeOK, Entries
<1>2. /\ Next
      /\ UNCHANGED <<connected, replayed>>
      /\ told' = [p \in Peer |->
                     IF p \in connected THEN Learn(told[p], ToPeer(Notices', p)) ELSE {}]
      /\ heard' = [p \in Peer |->
                      IF p \in connected
                      THEN Learn(heard[p], {n \in Notices' : ConnectionFilter(n, p)})
                      ELSE {}]
  BY DEF RouterStep, ToPeer
<1>3. PTypeOK'
  <2>1. ASSUME NEW p \in Peer
        PROVE  /\ Learn(told[p], ToPeer(Notices', p)) \in SUBSET Entries
               /\ Learn(heard[p], {n \in Notices' : ConnectionFilter(n, p)})
                    \in SUBSET Entries
    <3>1. /\ ToPeer(Notices', p) \in SUBSET Notice
          /\ {n \in Notices' : ConnectionFilter(n, p)} \in SUBSET Notice
      BY DEF ToPeer, Notices
    <3>2. told[p] \in SUBSET Entries /\ heard[p] \in SUBSET Entries
      BY <1>1
    <3> QED
      BY <3>1, <3>2, LearnTypes
  <2>2. told' \in [Peer -> SUBSET Entries] /\ heard' \in [Peer -> SUBSET Entries]
    BY <1>2, <2>1, SMTT(30)
  <2> QED
    BY <1>1, <1>2, <2>2 DEF PTypeOK, Entries
<1>4. ASSUME NEW p \in Peer PROVE Informed(p)'
  <2>1. CASE p \in connected
    <3>1. Informed(p) /\ Informs(p)
      BY <1>2, NextInforms DEF PeerInv
    <3> QED
      BY <1>2, <2>1, <3>1, InformsKeeps, SMTT(30)
  <2>2. CASE p \notin connected
    BY <1>1, <1>2, <2>2 DEF Informed
  <2> QED
    BY <2>1, <2>2
<1> QED
  BY <1>3, <1>4

\* The steps of a connection change what its own peer knows and should know.
LEMMA ConnectionStepInv ==
    ASSUME PeerInv, NEW q \in Peer, Hello(q) \/ SendList(q) \/ Disconnect(q)
    PROVE  PTypeOK' /\ \A p \in Peer : Informed(p)'
<1>1. /\ told \in [Peer -> SUBSET Entries] /\ heard \in [Peer -> SUBSET Entries]
      /\ connected \in SUBSET Peer /\ replayed \in SUBSET connected
      /\ \A p \in Peer : Informed(p)
  BY DEF PeerInv, PTypeOK, Entries
<1>2. UNCHANGED subscriptions
  BY DEF Hello, SendList, Disconnect, SubscriptionListsFor, table, vars
<1>3. \A p : Wanted(p)' = Wanted(p)
  BY <1>2, SMTT(30) DEF Wanted
<1>4. CASE Hello(q)
  BY <1>1, <1>3, <1>4, SMTT(30) DEF Hello, Informed, PTypeOK, Entries
<1>5. CASE SendList(q)
  <2>1. /\ q \in connected \ replayed /\ replayed' = replayed \cup {q}
        /\ told' = [told EXCEPT ![q] = @ \cup Wanted(q)]
        /\ heard' = [heard EXCEPT ![q] = @ \cup Wanted(q)]
        /\ connected' = connected
    BY <1>5, ReplayIsWanted, Zenon DEF SendList, PeerInv
  <2>2. Wanted(q) \in SUBSET Entries
    BY WantedTypes DEF PeerInv, RouterInv
  <2>3. told' \in [Peer -> SUBSET Entries] /\ heard' \in [Peer -> SUBSET Entries]
    BY <1>1, <2>1, <2>2, SMTT(30)
  <2>4. PTypeOK'
    BY <1>1, <2>1, <2>3, SMTT(30) DEF PTypeOK, Entries
  <2> QED
    BY <1>1, <1>3, <2>1, <2>4 DEF Informed
<1>6. CASE Disconnect(q)
  <2>1. /\ connected' = connected \ {q} /\ replayed' = replayed \ {q}
        /\ told' = [told EXCEPT ![q] = {}] /\ heard' = [heard EXCEPT ![q] = {}]
    BY <1>6 DEF Disconnect
  <2>2. told' \in [Peer -> SUBSET Entries] /\ heard' \in [Peer -> SUBSET Entries]
    BY <1>1, <2>1
  <2>3. PTypeOK'
    BY <1>1, <2>1, <2>2 DEF PTypeOK, Entries
  <2> QED
    BY <1>1, <1>3, <2>1, <2>3, SMTT(30) DEF Informed
<1> QED
  BY <1>4, <1>5, <1>6

\* Every step, and every stutter, preserves the invariant.
LEMMA PNextInv ==
    ASSUME Unmixed PROVE PeerInv /\ [PNext]_pvars => PeerInv'
<1> SUFFICES ASSUME PeerInv, [PNext]_pvars PROVE PeerInv'
  OBVIOUS
<1>1. RouterInv'
  BY StepOfRouter, NextInv DEF PeerInv
<1>2. StoredExact'
  BY <1>1, StepOfRouter, NextStored DEF PeerInv
<1>3. PTypeOK' /\ \A p \in Peer : Informed(p)'
  <2>1. CASE PNext
    BY <2>1, RouterStepInv, ConnectionStepInv, SMTT(30) DEF PNext
  <2>2. CASE UNCHANGED pvars
    <3>1. /\ UNCHANGED <<subscriptions, connected, replayed>>
          /\ told' = told /\ heard' = heard
      BY <2>2 DEF pvars, vars
    <3>2. \A p : Wanted(p)' = Wanted(p)
      BY <3>1 DEF Wanted
    <3> QED
      BY <3>1, <3>2 DEF PeerInv, PTypeOK, Informed
  <2> QED
    BY <2>1, <2>2
<1> QED
  BY <1>1, <1>2, <1>3 DEF PeerInv

(***************************************************************************)
(* The theorems.                                                           *)
(***************************************************************************)
\* The inductive invariant of the announcements holds in every reachable state,
\* as long as no constraint is required in one filter and optional in another.
THEOREM PeerInvariant == ASSUME Unmixed PROVE PSpec => []PeerInv
<1>1. PInit => PeerInv
  <2> SUFFICES ASSUME PInit PROVE PeerInv
    OBVIOUS
  <2>1. RouterInv
    BY InitInv, SMTT(30) DEF PInit
  <2>2. StoredExact
    BY DEF PInit, Init, StoredExact
  <2>3. PTypeOK
    BY DEF PInit, PTypeOK
  <2>4. \A p \in Peer : Informed(p)
    BY DEF PInit, Informed
  <2> QED
    BY <2>1, <2>2, <2>3, <2>4 DEF PeerInv
<1>2. PeerInv /\ [PNext]_pvars => PeerInv'
  BY PNextInv
<1> QED
  BY <1>1, <1>2, PTL DEF PSpec

\* What add_subscription, remove_subscription and subscription_lists_for address
\* to a peer keeps it informed of exactly the subscriptions that others are
\* behind, however nodes join, leave, close and connect.
THEOREM PeersAreTold == ASSUME Unmixed PROVE PSpec => []ToldExactly
<1>1. PeerInv => ToldExactly
  BY Zenon DEF PeerInv, PTypeOK, Informed, ToldExactly
<1> QED
  BY <1>1, PeerInvariant, PTL

\* What passes the filter of a connection never leaves a peer with a subscription
\* that nobody else is behind.
THEOREM NothingStaleIsHeard == ASSUME Unmixed PROVE PSpec => []HeardNothingStale
<1>1. PeerInv => HeardNothingStale
  BY DEF PeerInv, PTypeOK, Informed, HeardNothingStale
<1> QED
  BY <1>1, PeerInvariant, PTL
=============================================================================
