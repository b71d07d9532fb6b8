---------------------------- MODULE RouterProofs ----------------------------
(***************************************************************************)
(* Proofs about Router: every step keeps the index exact and refers to no  *)
(* destroyed receiver, and what is delivered is what the filters ask for,  *)
(* for any number of constraints, filters, receivers and peers.            *)
(*                                                                         *)
(* First come lemmas about the operators Router is built from: counting    *)
(* the hits of the constraint index decides the same as evaluating the     *)
(* filter, and inserting, erasing and updating a subscription keep the     *)
(* index exact.                                                            *)
(***************************************************************************)
EXTENDS Router, FiniteSetTheorems, TLAPS

\* A table of subscriptions, as the router may hold it.
IsTable(ss) == /\ DOMAIN ss \subseteq SubId
               /\ ss \in [DOMAIN ss -> Subscription]

\* Counting the index hits of publish_internal decides the same as evaluating
\* the filter: the counts are equal only if the sets are, because the index
\* lists no constraint for a subscription that its filter does not have.
LEMMA IndexMatchesFilter ==
    ASSUME NEW ss, NEW idx, NEW nr, NEW p, NEW i \in DOMAIN ss,
           IsTable(ss), IndexedBy(ss, idx, nr)
    PROVE  IndexMatch(ss, idx, nr, p, i) <=> Matches(ss[i].filter, p)
<1> DEFINE f == ss[i].filter
           R == Counted(idx, p, i, FALSE)
           O == Counted(idx, p, i, TRUE)
<1>1. /\ i \in SubId
      /\ f \in Filter
      /\ f.required \subseteq Constraint
      /\ f.optional \subseteq Constraint
      /\ IsFiniteSet(f.required)
      /\ IsFiniteSet(f.optional)
  <2>1. i \in SubId /\ f \in Filter
    BY DEF IsTable, Subscription
  <2>2. f.required \subseteq Constraint /\ f.optional \subseteq Constraint
    BY <2>1, RouterAssumption
  <2> QED
    BY <2>1, <2>2, RouterAssumption, FS_Subset
<1>2. R = f.required \cap Accepts(p)
  BY <1>1, Zenon DEF IndexedBy, Counted
<1>3. O = f.optional \cap Accepts(p)
  BY <1>1, Zenon DEF IndexedBy, Counted
<1>4. Cardinality(R) = Cardinality(f.required) <=> f.required \subseteq Accepts(p)
  <2>1. ASSUME Cardinality(R) = Cardinality(f.required)
        PROVE  f.required \subseteq Accepts(p)
    <3>1. R \subseteq f.required
      BY <1>2, Zenon
    <3>2. R = f.required
      BY <1>1, <3>1, <2>1, FS_Subset, Zenon
    <3> QED
      BY <3>2, <1>2, Zenon
  <2>2. ASSUME f.required \subseteq Accepts(p)
        PROVE  Cardinality(R) = Cardinality(f.required)
    <3>1. R = f.required
      BY <1>2, <2>2, Zenon
    <3> QED
      BY <3>1, Zenon
  <2> QED
    BY <2>1, <2>2, Zenon
<1>5. Cardinality(O) = Cardinality(f.optional) => f.optional \subseteq Accepts(p)
  <2>1. SUFFICES ASSUME Cardinality(O) = Cardinality(f.optional)
                 PROVE  f.optional \subseteq Accepts(p)
    OBVIOUS
  <2>2. O \subseteq f.optional
    BY <1>3, Zenon
  <2>3. O = f.optional
    BY <1>1, <2>2, <2>1, FS_Subset, Zenon
  <2> QED
    BY <2>3, <1>3, Zenon
<1>6. f.optional \subseteq Accepts(p) => check_optionals(f, p)
  BY DEF check_optionals
<1>7. ~InCounter(idx, p, i) => R = {}
  BY Zenon DEF InCounter
<1>8. i \in nr <=> f.required = {}
  BY <1>1 DEF IndexedBy
<1>9. CASE InCounter(idx, p, i)
  BY <1>4, <1>5, <1>6, <1>9, Zenon DEF IndexMatch, Matches
<1>10. CASE ~InCounter(idx, p, i)
  <2>1. f.required \subseteq Accepts(p) <=> f.required = {}
    BY <1>2, <1>7, <1>10, Zenon
  <2> QED
    BY <2>1, <1>8, <1>10, Zenon DEF IndexMatch, Matches
<1> QED
  BY <1>9, <1>10

\* So a publication goes exactly to the receivers that the filters name.
LEMMA DeliverExactly ==
    ASSUME NEW ss, NEW idx, NEW nr, NEW p, IsTable(ss), IndexedBy(ss, idx, nr)
    PROVE  publish_internal(ss, idx, nr, p) = [pub |-> p, to |-> Recipients(ss, p)]
<1>1. {i \in DOMAIN ss : IndexMatch(ss, idx, nr, p, i)}
        = {i \in DOMAIN ss : Matches(ss[i].filter, p)}
  BY IndexMatchesFilter
<1> QED
  BY <1>1, Zenon DEF publish_internal, Recipients

(***************************************************************************)
(* Helpers about the operators that the actions are built from.            *)
(***************************************************************************)
WireFilter == [required : SUBSET Constraint, optional : SUBSET Constraint]
Output == [pub : Message \cup Notice, to : SUBSET (Receiver \X SubId)]

\* What publish_internal records of a publication has the type of out's members.
LEMMA OutputType ==
    ASSUME NEW ss, NEW idx, NEW nr, NEW p \in Message \cup Notice
    PROVE  publish_internal(ss, idx, nr, p) \in Output
BY DEF publish_internal, Output

\* publish_subscription_added, publish_subscription_removed and the wrapper of
\* handle_meta_subscription build well-formed notices.
LEMMA NoticeTypes ==
    ASSUME NEW f \in WireFilter, NEW a \in Argument, NEW n \in Node,
           NEW x \in Node \cup {NoNode}, NEW y \in Node \cup {NoNode}
    PROVE  /\ Added(f, a, n, x, y) \in Notice
           /\ Removed(f, a, y) \in Notice
           /\ UnicastWrapper(f, a, n) \in Notice
BY DEF WireFilter, Added, Removed, UnicastWrapper, Notice, Node

\* A filter, and what to_publication_map writes of it, consist of constraints;
\* count_required() is zero exactly if nothing is required.
LEMMA FilterTypes ==
    ASSUME NEW f \in Filter, NEW st
    PROVE  /\ f \in WireFilter
           /\ Wire(st, f) \in WireFilter
           /\ f.required \in SUBSET Constraint
           /\ f.optional \in SUBSET Constraint
           /\ Cardinality(f.required) = 0 <=> f.required = {}
<1>1. f \in WireFilter /\ f.required \in SUBSET Constraint
                      /\ f.optional \in SUBSET Constraint
  BY RouterAssumption DEF WireFilter
<1>2. Wire(st, f) \in WireFilter
  BY <1>1 DEF Wire, WireFilter
<1>3. IsFiniteSet(f.required)
  BY <1>1, RouterAssumption, FS_Subset
<1> QED
  BY <1>1, <1>2, <1>3, FS_EmptySet

\* add_subscription's index maintenance.
LEMMA InsertKeepsIndex ==
    ASSUME NEW ss, NEW idx \in [Constraint -> SUBSET (SubId \X BOOLEAN)], NEW nr,
           NEW i \in SubId \ DOMAIN ss, NEW sub \in Subscription,
           IndexedBy(ss, idx, nr), IsTable(ss)
    PROVE  /\ IsTable(Emplace(ss, i, sub))
           /\ IndexedBy(Emplace(ss, i, sub), IndexInsert(idx, sub.filter, i),
                        NoReqInsert(nr, sub.filter, i))
           /\ IndexInsert(idx, sub.filter, i)
                \in [Constraint -> SUBSET (SubId \X BOOLEAN)]
<1> DEFINE f == sub.filter
           idx2 == IndexInsert(idx, f, i)
           ss2 == Emplace(ss, i, sub)
           nr2 == NoReqInsert(nr, f, i)
<1> USE DEF Emplace, NoReqInsert
<1>1. f \in Filter
  BY DEF Subscription
<1>2. f.required \in SUBSET Constraint /\ f.optional \in SUBSET Constraint
      /\ (Cardinality(f.required) = 0 <=> f.required = {})
  BY <1>1, FilterTypes
<1>3. IsTable(ss2)
  BY DEF IsTable
<1>4. idx2 \in [Constraint -> SUBSET (SubId \X BOOLEAN)]
  <2>1. <<i, FALSE>> \in SubId \X BOOLEAN /\ <<i, TRUE>> \in SubId \X BOOLEAN
    BY Zenon
  <2> DEFINE E == SubId \X BOOLEAN
  <2> HIDE DEF E
  <2>2. \A c \in Constraint : idx[c] \cup (IF c \in f.required THEN {<<i, FALSE>>} ELSE {})
                     \cup (IF c \in f.optional THEN {<<i, TRUE>>} ELSE {}) \in SUBSET E
    BY <2>1, Zenon DEF E
  <2> QED
    BY <2>2, Zenon DEF IndexInsert, E
<1>5. ASSUME NEW c \in Constraint, NEW j \in SubId
      PROVE  /\ <<j, FALSE>> \in idx2[c] <=>
                   j \in DOMAIN ss2 /\ c \in ss2[j].filter.required
             /\ <<j, TRUE>> \in idx2[c] <=>
                   j \in DOMAIN ss2 /\ c \in ss2[j].filter.optional
  <2>1. CASE j = i
    BY <2>1, Zenon DEF IndexInsert, IndexedBy
  <2>2. CASE j # i
    BY <2>2, Zenon DEF IndexInsert, IndexedBy
  <2> QED
    BY <2>1, <2>2
<1>6. ASSUME NEW j \in SubId
      PROVE  j \in nr2 <=> j \in DOMAIN ss2 /\ ss2[j].filter.required = {}
  BY <1>2, Zenon DEF IndexedBy
<1> QED
  BY <1>3, <1>4, <1>5, <1>6, Zenon DEF IndexedBy

\* remove_subscription's index maintenance.  The entry that remove() drops
\* unseen when it has one element is the entry of the removed subscription.
LEMMA RemoveKeepsIndex ==
    ASSUME NEW ss, NEW idx \in [Constraint -> SUBSET (SubId \X BOOLEAN)], NEW nr,
           NEW i \in DOMAIN ss, IndexedBy(ss, idx, nr), IsTable(ss)
    PROVE  /\ IsTable(Erase(ss, i))
           /\ IndexedBy(Erase(ss, i), IndexRemove(idx, ss[i].filter, i),
                        NoReqRemove(nr, ss[i].filter, i))
           /\ IndexRemove(idx, ss[i].filter, i)
                \in [Constraint -> SUBSET (SubId \X BOOLEAN)]
<1> DEFINE f == ss[i].filter
           idx2 == IndexRemove(idx, f, i)
           ss2 == Erase(ss, i)
           nr2 == NoReqRemove(nr, f, i)
<1> USE DEF Erase, NoReqRemove
<1>1. f \in Filter /\ i \in SubId
  BY DEF Subscription, IsTable
<1>2. f.required \in SUBSET Constraint /\ f.optional \in SUBSET Constraint
      /\ (Cardinality(f.required) = 0 <=> f.required = {})
  BY <1>1, FilterTypes
<1>3. IsTable(ss2)
  BY DEF IsTable
<1>4. idx2 \in [Constraint -> SUBSET (SubId \X BOOLEAN)]
  BY DEF IndexRemove
<1>5. ASSUME NEW c \in Constraint
      PROVE  idx2[c] = {e \in idx[c] : e[1] # i}
  <2>1. CASE c \notin f.required \cup f.optional
    <3>1. ASSUME NEW e \in idx[c], e[1] = i
          PROVE  FALSE
      <4>1. e \in SubId \X BOOLEAN
        OBVIOUS
      <4>a. PICK o \in BOOLEAN : e = <<i, o>>
        BY <4>1, <3>1
      <4>b. o = TRUE \/ o = FALSE
        OBVIOUS
      <4>2. e = <<i, TRUE>> \/ e = <<i, FALSE>>
        BY <4>a, <4>b, Zenon
      <4> QED
        BY <4>2, <1>1, <2>1, Zenon DEF IndexedBy
    <3> QED
      BY <3>1, <2>1 DEF IndexRemove
  <2>2. CASE c \in f.required \cup f.optional /\ Cardinality(idx[c]) = 1
    <3>1. PICK o \in BOOLEAN : <<i, o>> \in idx[c]
      BY <1>1, <2>2, Zenon DEF IndexedBy
    <3>2. IsFiniteSet(idx[c])
      <4>1. IsFiniteSet(SubId)
        BY FS_Interval, RouterAssumption DEF SubId, FirstSubId
      <4>a. IsFiniteSet({FALSE} \cup {TRUE})
        BY FS_Singleton, FS_AddElement, Zenon
      <4>b. BOOLEAN = {FALSE} \cup {TRUE}
        BY Zenon
      <4>c. IsFiniteSet(BOOLEAN)
        BY <4>a, <4>b, Zenon
      <4>2. IsFiniteSet(SubId \X BOOLEAN)
        BY <4>1, <4>c, FS_Product
      <4> QED
        BY <4>2, FS_Subset
    <3>3. idx[c] = {<<i, o>>}
      BY <3>1, <3>2, <2>2, FS_Singleton
    <3> QED
      BY <3>3, <2>2 DEF IndexRemove
  <2>3. CASE c \in f.required \cup f.optional /\ Cardinality(idx[c]) # 1
    BY <2>3 DEF IndexRemove
  <2> QED
    BY <2>1, <2>2, <2>3
<1>6. ASSUME NEW c \in Constraint, NEW j \in SubId
      PROVE  /\ <<j, FALSE>> \in idx2[c] <=>
                   j \in DOMAIN ss2 /\ c \in ss2[j].filter.required
             /\ <<j, TRUE>> \in idx2[c] <=>
                   j \in DOMAIN ss2 /\ c \in ss2[j].filter.optional
  <2> HIDE DEF idx2
  <2>1. \A o \in BOOLEAN : <<j, o>> \in idx2[c] <=> <<j, o>> \in idx[c] /\ j # i
    BY <1>5
  <2>2. /\ j \in DOMAIN ss2 <=> j \in DOMAIN ss /\ j # i
        /\ j # i /\ j \in DOMAIN ss => ss2[j] = ss[j]
    OBVIOUS
  <2> QED
    BY <2>1, <2>2, Zenon DEF IndexedBy
<1>7. ASSUME NEW j \in SubId
      PROVE  j \in nr2 <=> j \in DOMAIN ss2 /\ ss2[j].filter.required = {}
  BY <1>2, Zenon DEF IndexedBy
<1> QED
  BY <1>3, <1>4, <1>6, <1>7, Zenon DEF IndexedBy

\* Joining and leaving a subscription that stays does not touch the index.
LEMMA UpdateKeepsIndex ==
    ASSUME NEW ss, NEW idx, NEW nr, NEW i \in DOMAIN ss,
           NEW rs \in [Receiver -> SUBSET Node],
           IndexedBy(ss, idx, nr), IsTable(ss)
    PROVE  /\ IsTable(SetReceivers(ss, i, rs))
           /\ IndexedBy(SetReceivers(ss, i, rs), idx, nr)
           /\ DOMAIN SetReceivers(ss, i, rs) = DOMAIN ss
           /\ \A j \in DOMAIN ss :
                /\ SetReceivers(ss, i, rs)[j].filter = ss[j].filter
                /\ SetReceivers(ss, i, rs)[j].args = ss[j].args
                /\ SetReceivers(ss, i, rs)[j].receivers =
                      IF j = i THEN rs ELSE ss[j].receivers
<1> DEFINE ss2 == SetReceivers(ss, i, rs)
<1>1. /\ DOMAIN ss2 = DOMAIN ss
      /\ \A j \in DOMAIN ss :
            /\ ss2[j].filter = ss[j].filter
            /\ ss2[j].args = ss[j].args
            /\ ss2[j].receivers = IF j = i THEN rs ELSE ss[j].receivers
  BY DEF SetReceivers, IsTable, Subscription
<1> HIDE DEF ss2
<1>2. IsTable(ss2)
  <2>1. \A j \in DOMAIN ss : ss2[j] \in Subscription
    BY DEF ss2, SetReceivers, IsTable, Subscription
  <2> QED
    BY <1>1, <2>1 DEF IsTable, ss2, SetReceivers
<1>3. IndexedBy(ss2, idx, nr)
  BY <1>1, Zenon DEF IndexedBy
<1> QED
  BY <1>1, <1>2, <1>3 DEF ss2

(***************************************************************************)
(* The inductive invariant.                                                *)
(***************************************************************************)
RouterInv ==
    /\ TypeOK
    /\ IndexExact
    /\ UniqueSubscriptions
    /\ NoAbandonedSubscription
    /\ NoDanglingReceiver
    /\ DeliveredAsFiltered

\* The ids below next_sub_id are ids of the subscription table.
LEMMA TypeTable ==
    ASSUME TypeOK PROVE IsTable(subscriptions)
<1>1. FirstSubId .. (next_sub_id - 1) \subseteq SubId
  BY RouterAssumption DEF TypeOK, SubId, FirstSubId
<1> QED
  BY <1>1 DEF TypeOK, IsTable

\* The router's constructor establishes the invariant.
LEMMA InitInv == Init => RouterInv
<1> SUFFICES ASSUME Init PROVE RouterInv
  OBVIOUS
<1> USE DEF Init
<1>1. DOMAIN subscriptions = {}
  OBVIOUS
<1>2. TypeOK
  BY <1>1, RouterAssumption DEF TypeOK, Node, FirstSubId
<1>3. IndexExact
  BY <1>1 DEF IndexExact, IndexedBy
<1>4. UniqueSubscriptions /\ NoAbandonedSubscription /\ NoDanglingReceiver
  BY <1>1 DEF UniqueSubscriptions, NoAbandonedSubscription, NoDanglingReceiver
<1>5. DeliveredAsFiltered
  BY DEF DeliveredAsFiltered
<1> QED
  BY <1>2, <1>3, <1>4, <1>5 DEF RouterInv

\* What holds of the tables when a step leaves them as they are.
LEMMA SameTables ==
    ASSUME RouterInv, UNCHANGED table
    PROVE  /\ IndexExact'
           /\ UniqueSubscriptions'
           /\ NoAbandonedSubscription'
BY DEF RouterInv, table, IndexExact, UniqueSubscriptions, NoAbandonedSubscription

\* Publications of a step are delivered as the filters say, once the index of
\* the step's end is exact.
LEMMA DeliveredInStep ==
    ASSUME TypeOK', IndexExact',
           \A o \in out' : \/ o.pub.type = "__unicast_wrapper"
                          \/ \E p : o = publish_internal(subscriptions',
                                          constraints', no_requirements', p)
    PROVE  DeliveredAsFiltered'
<1>1. IsTable(subscriptions')
  <2>1. FirstSubId .. (next_sub_id' - 1) \subseteq SubId
    BY RouterAssumption DEF TypeOK, SubId, FirstSubId
  <2> QED
    BY <2>1 DEF TypeOK, IsTable
<1> QED
  BY <1>1, DeliverExactly DEF DeliveredAsFiltered, IndexExact

\* handle_meta_subscription publishes nothing but unicast wrappers.
LEMMA MetaRepliesTypes ==
    ASSUME TypeOK, NEW f, NEW a, NEW source \in Node
    PROVE  /\ MetaReplies(f, a, source) \subseteq Output
           /\ \A o \in MetaReplies(f, a, source) :
                 o.pub.type = "__unicast_wrapper"
<1>1. ASSUME NEW i \in DOMAIN subscriptions
      PROVE  LET w == UnicastWrapper(Wire(stored, subscriptions[i].filter),
                                     subscriptions[i].args, source)
             IN  w \in Notice /\ w.type = "__unicast_wrapper"
  <2>1. subscriptions[i].filter \in Filter /\ subscriptions[i].args \in Argument
    BY TypeTable DEF IsTable, Subscription
  <2>2. Wire(stored, subscriptions[i].filter) \in WireFilter
    BY <2>1, FilterTypes
  <2>3. NoNode \in Node \cup {NoNode}
    OBVIOUS
  <2> QED
    BY <2>1, <2>2, <2>3, NoticeTypes DEF UnicastWrapper
<1>2. ASSUME NEW p PROVE publish_internal(subscriptions, constraints,
                                          no_requirements, p).pub = p
  BY DEF publish_internal
<1> QED
  BY <1>1, <1>2, OutputType DEF MetaReplies

\* Steps that change neither the tables nor who owns what.
LEMMA QuietSteps ==
    ASSUME RouterInv,
           \/ \E m \in Message : Publish(m)
           \/ \E p \in Peer : SubscriptionListsFor(p)
           \/ \E r \in Receiver : NewReceiver(r) \/ Close(r) \/ Closed(r)
    PROVE  RouterInv'
<1> USE DEF RouterInv
<1>1. ASSUME NEW m \in Message, Publish(m)
      PROVE  RouterInv'
  <2>1. TypeOK'
    <3>1. publish_internal(subscriptions, constraints, no_requirements, m) \in Output
      BY OutputType
    <3> QED
      BY <1>1, <3>1 DEF Publish, TypeOK, table, Output
  <2>2. NoDanglingReceiver'
    BY <1>1 DEF Publish, NoDanglingReceiver, table
  <2>3. IndexExact' /\ UniqueSubscriptions' /\ NoAbandonedSubscription'
    BY <1>1, SameTables DEF Publish
  <2>4. DeliveredAsFiltered'
    <3>1. out' = {publish_internal(subscriptions', constraints',
                                   no_requirements', m)}
      BY <1>1 DEF Publish, table
    <3> QED
      BY <3>1, <2>1, <2>3, DeliveredInStep
  <2> QED
    BY <2>1, <2>2, <2>3, <2>4
<1>2. ASSUME NEW p \in Peer, SubscriptionListsFor(p)
      PROVE  RouterInv'
  <2>1. TypeOK'
    BY <1>2 DEF SubscriptionListsFor, TypeOK, table, Node
  <2>2. NoDanglingReceiver' /\ DeliveredAsFiltered'
    BY <1>2 DEF SubscriptionListsFor, NoDanglingReceiver, DeliveredAsFiltered, table
  <2>3. IndexExact' /\ UniqueSubscriptions' /\ NoAbandonedSubscription'
    BY <1>2, SameTables DEF SubscriptionListsFor
  <2> QED
    BY <2>1, <2>2, <2>3
<1>3. ASSUME NEW r \in Receiver, NewReceiver(r) \/ Close(r) \/ Closed(r)
      PROVE  RouterInv'
  <2>1. TypeOK'
    BY <1>3 DEF NewReceiver, Close, Closed, TypeOK, table
  <2>2. NoDanglingReceiver'
    BY <1>3 DEF NewReceiver, Close, Closed, NoDanglingReceiver, table, TypeOK
  <2>3. IndexExact' /\ UniqueSubscriptions' /\ NoAbandonedSubscription'
    BY <1>3, SameTables DEF NewReceiver, Close, Closed
  <2>4. DeliveredAsFiltered'
    BY <1>3 DEF NewReceiver, Close, Closed, DeliveredAsFiltered
  <2> QED
    BY <2>1, <2>2, <2>3, <2>4
<1> QED
  BY <1>1, <1>2, <1>3

\* add_subscription excludes a node or nobody.
LEMMA ExcludedByType ==
    ASSUME NEW source \in Node PROVE ExcludedBy(source) \in Node \cup {NoNode}
BY DEF ExcludedBy

\* add_subscription with FETCH, which enters nothing, preserves the invariant.
LEMMA SubscribeFetchStep ==
    ASSUME RouterInv, NEW r \in Receiver, NEW f \in Filter, NEW source \in Node,
           NEW a \in Argument, SubscribeFetch(r, f, source, a)
    PROVE  RouterInv'
<1> USE DEF RouterInv
<1> DEFINE n == Added(f, a, source, ExcludedBy(source), NoNode)
<1>1. n \in Notice
  BY ExcludedByType, FilterTypes, NoticeTypes
<1> HIDE DEF n
<1>2. TypeOK'
  <2>1. publish_internal(subscriptions, constraints, no_requirements, n) \in Output
    BY <1>1, OutputType
  <2>2. MetaReplies(f, a, source) \subseteq Output
    BY MetaRepliesTypes
  <2>3. out' \subseteq Output
    BY <2>1, <2>2 DEF SubscribeFetch, n
  <2> QED
    BY <2>3 DEF SubscribeFetch, TypeOK, table, Output
<1>3. IndexExact' /\ UniqueSubscriptions' /\ NoAbandonedSubscription'
  BY SameTables DEF SubscribeFetch
<1>4. NoDanglingReceiver'
  BY DEF SubscribeFetch, NoDanglingReceiver, table, TypeOK
<1>5. DeliveredAsFiltered'
  <2>1. out' = MetaReplies(f, a, source) \cup
               {publish_internal(subscriptions', constraints', no_requirements', n)}
    BY DEF SubscribeFetch, table, n
  <2> QED
    BY <2>1, <1>2, <1>3, MetaRepliesTypes, DeliveredInStep
<1> QED
  BY <1>2, <1>3, <1>4, <1>5

\* add_subscription of a subscription that does not exist yet preserves the
\* invariant: its id is fresh, so the index has no entry for it.
LEMMA SubscribeNewStep ==
    ASSUME RouterInv, NEW r \in Receiver, NEW f \in Filter, NEW source \in Node,
           NEW a \in Argument, SubscribeNew(r, f, source, a)
    PROVE  RouterInv'
<1> USE DEF RouterInv
<1> DEFINE i == next_sub_id
           sub == [filter |-> f, args |-> a,
                   receivers |-> [q \in Receiver |->
                                     IF q = r THEN {source} ELSE {}]]
           n == Added(f, a, source, ExcludedBy(source), NoNode)
<1>1. n \in Notice
  BY ExcludedByType, FilterTypes, NoticeTypes
<1>2. /\ phase[r] = "alive"
      /\ i \in SubId
      /\ next_sub_id' = i + 1
      /\ peer_node_ids' = peer_node_ids \cup {source}
      /\ subscriptions' = Emplace(subscriptions, i, sub)
      /\ constraints' = IndexInsert(constraints, f, i)
      /\ stored' = StoredInsert(constraints, stored, f)
      /\ no_requirements' = NoReqInsert(no_requirements, f, i)
      /\ owned' = [owned EXCEPT ![r] = @ \cup {i}]
      /\ phase' = phase
      /\ Same(f, a) = {}
  BY DEF SubscribeNew
<1>3. out' = MetaReplies(f, a, source) \cup
             {publish_internal(subscriptions', constraints', no_requirements', n)}
  BY DEF SubscribeNew
<1>4. sub \in Subscription /\ sub.filter = f
  BY DEF Subscription, Node
<1>5. i \notin DOMAIN subscriptions
  BY DEF TypeOK, FirstSubId
<1> HIDE DEF n, sub
<1>6. /\ IsTable(subscriptions')
      /\ IndexExact'
      /\ constraints' \in [Constraint -> SUBSET (SubId \X BOOLEAN)]
  <2>1. i \in SubId \ DOMAIN subscriptions
    BY <1>2, <1>5
  <2>2. constraints \in [Constraint -> SUBSET (SubId \X BOOLEAN)]
    BY DEF TypeOK
  <2>3. IsTable(subscriptions)
    BY TypeTable
  <2>4. IndexedBy(subscriptions, constraints, no_requirements)
    BY SMTT(30) DEF IndexExact
  <2>5. /\ IsTable(subscriptions')
        /\ IndexedBy(subscriptions', constraints', no_requirements')
        /\ constraints' \in [Constraint -> SUBSET (SubId \X BOOLEAN)]
    BY <1>2, <1>4, <2>1, <2>2, <2>3, <2>4, InsertKeepsIndex
  <2> QED
    BY <2>5, <1>2, <1>4 DEF IndexExact
<1>7. TypeOK'
  <2>1. publish_internal(subscriptions', constraints', no_requirements', n) \in Output
    BY <1>1, OutputType
  <2>2. out' \in SUBSET Output
    BY <1>3, <2>1, MetaRepliesTypes
  <2>3. /\ next_sub_id' \in FirstSubId .. (FirstSubId + MaxSubs)
        /\ DOMAIN subscriptions' \subseteq FirstSubId .. (next_sub_id' - 1)
    BY <1>2, RouterAssumption DEF TypeOK, SubId, FirstSubId, Emplace
  <2>4. stored' \in [Constraint -> BOOLEAN]
    <3>1. \A c \in Constraint : (c \in f.optional) \in BOOLEAN
      OBVIOUS
    <3>2. \A c \in Constraint : stored[c] \in BOOLEAN
      BY DEF TypeOK
    <3>3. \A c \in Constraint : (IF c \in f.required \cup f.optional /\ constraints[c] = {}
                                THEN c \in f.optional ELSE stored[c]) \in BOOLEAN
      BY <3>1, <3>2, Zenon
    <3> QED
      BY <1>2, <3>3, Zenon DEF StoredInsert
  <2>5. /\ no_requirements' \in SUBSET SubId
        /\ peer_node_ids' \in SUBSET Node
        /\ owned' \in [Receiver -> SUBSET (SubId \cup {FetchId})]
        /\ phase' \in [Receiver -> {"none", "alive", "closing"}]
    BY <1>2, SMTT(30) DEF TypeOK, NoReqInsert
  <2> QED
    BY <1>6, <2>2, <2>3, <2>4, <2>5 DEF TypeOK, IsTable, Output
<1>8. UniqueSubscriptions'
  BY <1>2, <1>4, <1>5 DEF UniqueSubscriptions, Same, sub, Emplace
<1>9. NoAbandonedSubscription'
  <2>1. source \in nodes(sub.receivers)
    BY DEF nodes, sub
  <2> QED
    BY <1>2, <1>5, <2>1 DEF NoAbandonedSubscription, Emplace
<1>10. NoDanglingReceiver'
  BY <1>2, <1>5, Zenon DEF NoDanglingReceiver, sub, TypeOK, Emplace
<1>11. DeliveredAsFiltered'
  BY <1>3, <1>6, <1>7, MetaRepliesTypes, DeliveredInStep
<1> QED
  BY <1>6, <1>7, <1>8, <1>9, <1>10, <1>11

\* What add_subscription announces when a node joins is well formed.
LEMMA JoinAnnouncementTypes ==
    ASSUME NEW f \in Filter, NEW a \in Argument, NEW source \in Node,
           NEW ns \in SUBSET Node
    PROVE  JoinAnnouncement(f, a, source, ns) \subseteq Notice
<1>1. /\ \A n \in ns : Added(f, a, source, NoNode, n) \in Notice
      /\ Added(f, a, source, ExcludedBy(source), NoNode) \in Notice
      /\ Added(f, a, source, NoNode, Local) \in Notice
  BY ExcludedByType, FilterTypes, NoticeTypes, Zenon DEF Node
<1> QED
  BY <1>1 DEF JoinAnnouncement

\* add_subscription for a subscription that exists preserves the invariant.
LEMMA SubscribeExistingStep ==
    ASSUME RouterInv, NEW r \in Receiver, NEW f \in Filter, NEW source \in Node,
           NEW a \in Argument, NEW i \in SubId,
           SubscribeExisting(r, f, source, a, i)
    PROVE  RouterInv'
<1> USE DEF RouterInv
<1> DEFINE rs == subscriptions[i].receivers
           rs2 == [rs EXCEPT ![r] = @ \cup {source}]
           P == IF source \notin rs[r] THEN JoinAnnouncement(f, a, source, nodes(rs2))
                ELSE {}
<1>1. /\ phase[r] = "alive"
      /\ i \in DOMAIN subscriptions
      /\ peer_node_ids' = peer_node_ids \cup {source}
      /\ subscriptions' = SetReceivers(subscriptions, i, rs2)
      /\ owned' = [owned EXCEPT ![r] = @ \cup {i}]
      /\ UNCHANGED <<constraints, stored, no_requirements, next_sub_id, phase>>
  BY SMTT(30) DEF SubscribeExisting, Same
<1>2. out' = MetaReplies(f, a, source) \cup
             {publish_internal(subscriptions', constraints', no_requirements', p) :
                 p \in P}
  BY DEF SubscribeExisting
<1>3. rs \in [Receiver -> SUBSET Node] /\ rs2 \in [Receiver -> SUBSET Node]
  BY <1>1, TypeTable DEF IsTable, Subscription
<1>4. P \subseteq Notice
  <2>1. nodes(rs2) \in SUBSET Node
    BY <1>3, SMTT(30) DEF nodes
  <2> QED
    BY <2>1, JoinAnnouncementTypes, Zenon
<1> HIDE DEF P, rs2
<1>5. /\ IsTable(subscriptions')
      /\ IndexExact'
      /\ DOMAIN subscriptions' = DOMAIN subscriptions
      /\ \A j \in DOMAIN subscriptions :
            /\ subscriptions'[j].filter = subscriptions[j].filter
            /\ subscriptions'[j].args = subscriptions[j].args
            /\ subscriptions'[j].receivers =
                  IF j = i THEN rs2 ELSE subscriptions[j].receivers
  BY <1>1, <1>3, TypeTable, UpdateKeepsIndex DEF IndexExact
<1>6. TypeOK'
  <2>1. out' \in SUBSET Output
    BY <1>2, <1>4, OutputType, MetaRepliesTypes, SMTT(30)
  <2> QED
    BY <2>1, <1>1, <1>5 DEF TypeOK, IsTable, Output
<1>7. UniqueSubscriptions'
  BY <1>5 DEF UniqueSubscriptions
<1>8. NoAbandonedSubscription'
  <2>1. source \in nodes(rs2)
    BY <1>3, SMTT(30) DEF nodes, rs2
  <2> QED
    BY <1>5, <2>1 DEF NoAbandonedSubscription
<1>9. NoDanglingReceiver'
  <2>1. \A q \in Receiver : q # r => rs2[q] = rs[q]
    BY <1>3 DEF rs2
  <2>2. \A q \in Receiver : owned[q] \subseteq owned'[q]
    BY <1>1 DEF TypeOK
  <2>3. i \in owned'[r]
    BY <1>1 DEF TypeOK
  <2> QED
    BY <1>1, <1>5, <2>1, <2>2, <2>3 DEF NoDanglingReceiver
<1>10. DeliveredAsFiltered'
  BY <1>2, <1>5, <1>6, MetaRepliesTypes, DeliveredInStep
<1> QED
  BY <1>5, <1>6, <1>7, <1>8, <1>9, <1>10, SMTT(30)

\* The caller of remove_subscription(i, r, ...) leaves everything but the ids of
\* r alone, and of those drops i at most.
DropsAtMost(r, i) ==
    /\ phase' = phase /\ peer_node_ids' = peer_node_ids /\ next_sub_id' = next_sub_id
    /\ owned' \in [Receiver -> SUBSET (SubId \cup {FetchId})]
    /\ \A q \in Receiver : q # r => owned'[q] = owned[q]
    /\ \A j \in owned[r] : j # i => j \in owned'[r]

\* What the caller's set of ids still covers.
LEMMA OthersOwned ==
    ASSUME RouterInv, NEW r, NEW i, DropsAtMost(r, i),
           NEW j \in DOMAIN subscriptions, NEW q \in Receiver,
           subscriptions[j].receivers[q] # {}
    PROVE  /\ phase'[q] # "none"
           /\ j # i \/ q # r => j \in owned'[q]
           /\ j \in owned[q]
BY DEF RouterInv, NoDanglingReceiver, DropsAtMost

\* remove_subscription of an id that does not exist changes no table.
LEMMA RemoveNothingStep ==
    ASSUME RouterInv, NEW r \in Receiver, NEW i, i \notin DOMAIN subscriptions,
           DropsAtMost(r, i), out' = {}, UNCHANGED table
    PROVE  RouterInv'
<1>1. TypeOK'
  BY DEF RouterInv, TypeOK, table, DropsAtMost
<1>2. NoDanglingReceiver'
  BY OthersOwned DEF NoDanglingReceiver, table
<1>3. DeliveredAsFiltered'
  BY DEF DeliveredAsFiltered
<1> QED
  BY <1>1, <1>2, <1>3, SameTables DEF RouterInv

\* What is written of a subscription's filter is well formed.
LEMMA RemovedTypes ==
    ASSUME TypeOK, NEW i \in DOMAIN subscriptions, NEW n \in Node \cup {NoNode}
    PROVE  Removed(Wire(stored, subscriptions[i].filter), subscriptions[i].args, n)
             \in Notice
<1>1. subscriptions[i].filter \in Filter /\ subscriptions[i].args \in Argument
  BY TypeTable DEF IsTable, Subscription
<1>2. Wire(stored, subscriptions[i].filter) \in WireFilter
  BY <1>1, FilterTypes
<1> QED
  BY <1>1, <1>2, NoticeTypes DEF Node

\* remove_subscription for the last receiver takes the subscription out of all
\* tables.
LEMMA RemoveLastStep ==
    ASSUME RouterInv, NEW r \in Receiver, NEW i \in DOMAIN subscriptions,
           DropsAtMost(r, i), RemoveLast(i)
    PROVE  RouterInv'
<1> DEFINE f == subscriptions[i].filter
           n == Removed(Wire(stored, f), subscriptions[i].args, NoNode)
<1>1. /\ subscriptions' = Erase(subscriptions, i)
      /\ constraints' = IndexRemove(constraints, f, i)
      /\ no_requirements' = NoReqRemove(no_requirements, f, i)
      /\ stored' = StoredRemove(constraints', stored)
  BY DEF RemoveLast
<1>2. out' = {publish_internal(subscriptions', constraints', no_requirements', n)}
  BY DEF RemoveLast
<1>3. n \in Notice
  BY RemovedTypes DEF RouterInv
<1> HIDE DEF n
<1>4. /\ IsTable(subscriptions')
      /\ IndexExact'
      /\ constraints' \in [Constraint -> SUBSET (SubId \X BOOLEAN)]
  <2>1. constraints \in [Constraint -> SUBSET (SubId \X BOOLEAN)]
    BY DEF RouterInv, TypeOK
  <2>2. IsTable(subscriptions) /\ IndexedBy(subscriptions, constraints, no_requirements)
    BY TypeTable DEF RouterInv, IndexExact
  <2> QED
    BY <1>1, <2>1, <2>2, RemoveKeepsIndex DEF IndexExact
<1> HIDE DEF f
<1>5. TypeOK'
  <2>1. out' \in SUBSET Output
    BY <1>2, <1>3, OutputType
  <2>2. DOMAIN subscriptions' \subseteq DOMAIN subscriptions
    BY <1>1 DEF Erase
  <2>3. no_requirements' \in SUBSET SubId
    BY <1>1 DEF NoReqRemove, RouterInv, TypeOK
  <2>4. stored' \in [Constraint -> BOOLEAN]
    <3>1. \A c \in Constraint : (constraints'[c] # {} /\ stored[c]) \in BOOLEAN
      OBVIOUS
    <3> QED
      BY <1>1, <3>1, Zenon DEF StoredRemove
  <2>5. subscriptions' \in [DOMAIN subscriptions' -> Subscription]
    BY <1>4 DEF IsTable
  <2> QED
    BY <1>4, <2>1, <2>2, <2>3, <2>4, <2>5 DEF RouterInv, TypeOK, Output, DropsAtMost
<1>6. UniqueSubscriptions' /\ NoAbandonedSubscription'
  BY <1>1 DEF Erase, RouterInv, UniqueSubscriptions, NoAbandonedSubscription
<1>7. NoDanglingReceiver'
  <2>1. SUFFICES ASSUME NEW j \in DOMAIN subscriptions, j # i, NEW q \in Receiver,
                        subscriptions[j].receivers[q] # {}
                 PROVE  phase'[q] # "none" /\ j \in owned'[q]
    BY <1>1 DEF Erase, NoDanglingReceiver
  <2> QED
    BY <2>1, OthersOwned
<1>8. DeliveredAsFiltered'
  BY <1>2, <1>4, <1>5, DeliveredInStep
<1> QED
  BY <1>4, <1>5, <1>6, <1>7, <1>8 DEF RouterInv

\* remove_subscription that leaves receivers rs behind changes nothing else.
LEMMA RemoveSomeStep ==
    ASSUME RouterInv, NEW r \in Receiver, NEW i \in DOMAIN subscriptions,
           DropsAtMost(r, i), NEW rs \in [Receiver -> SUBSET Node],
           RemoveSome(i, rs), nodes(rs) # {},
           \A q \in Receiver : rs[q] \subseteq subscriptions[i].receivers[q],
           rs[r] # {} /\ i \in owned[r] => i \in owned'[r]
    PROVE  RouterInv'
<1> DEFINE T == IF Cardinality(nodes(rs)) = 1 THEN nodes(rs) \ {Local} ELSE {}
           n(t) == Removed(Wire(stored, subscriptions[i].filter),
                           subscriptions[i].args, t)
<1>1. /\ subscriptions' = SetReceivers(subscriptions, i, rs)
      /\ UNCHANGED <<constraints, stored, no_requirements>>
  BY SMTT(30) DEF RemoveSome
<1>2. out' = {publish_internal(subscriptions', constraints', no_requirements', n(t)) :
                 t \in T}
  BY SMTT(30) DEF RemoveSome
<1>3. \A t \in T : n(t) \in Notice
  <2>1. T \subseteq Node
    BY SMTT(30) DEF nodes
  <2> QED
    BY <2>1, RemovedTypes DEF RouterInv
<1> HIDE DEF T, n
<1>4. /\ IsTable(subscriptions')
      /\ IndexExact'
      /\ DOMAIN subscriptions' = DOMAIN subscriptions
      /\ \A j \in DOMAIN subscriptions :
            /\ subscriptions'[j].filter = subscriptions[j].filter
            /\ subscriptions'[j].args = subscriptions[j].args
            /\ subscriptions'[j].receivers =
                  IF j = i THEN rs ELSE subscriptions[j].receivers
  <2>1. IsTable(subscriptions) /\ IndexedBy(subscriptions, constraints, no_requirements)
    BY TypeTable DEF RouterInv, IndexExact
  <2> QED
    BY <1>1, <2>1, UpdateKeepsIndex, SMTT(30) DEF IndexExact
<1>5. TypeOK'
  <2>1. out' \in SUBSET Output
    BY <1>2, <1>3, OutputType, SMTT(30)
  <2> QED
    BY <1>1, <1>4, <2>1, SMTT(30) DEF RouterInv, TypeOK, IsTable, Output, DropsAtMost
<1>6. UniqueSubscriptions' /\ NoAbandonedSubscription'
  BY <1>4 DEF RouterInv, UniqueSubscriptions, NoAbandonedSubscription
<1>7. NoDanglingReceiver'
  <2>1. SUFFICES ASSUME NEW j \in DOMAIN subscriptions, NEW q \in Receiver,
                        subscriptions'[j].receivers[q] # {}
                 PROVE  phase'[q] # "none" /\ j \in owned'[q]
    BY <1>4, SMTT(30) DEF NoDanglingReceiver
  <2>2. subscriptions[j].receivers[q] # {} /\ (j = i /\ q = r => rs[r] # {})
    BY <1>4, <2>1
  <2> QED
    BY <2>2, OthersOwned, SMTT(30)
<1>8. DeliveredAsFiltered'
  BY <1>2, <1>4, <1>5, DeliveredInStep
<1> QED
  BY <1>4, <1>5, <1>6, <1>7, <1>8, SMTT(30) DEF RouterInv

\* What remove_subscription leaves of the tables, whoever called it.  The
\* callers only drop the id from the receiver's own set once it holds the
\* subscription for no node any more.
LEMMA RemoveStep ==
    ASSUME RouterInv, NEW r \in Receiver, NEW i, NEW n, remove_subscription(i, r, n),
           DropsAtMost(r, i),
           i \in DOMAIN subscriptions
             /\ RemoveReceiver(subscriptions[i].receivers, r, n)[r] # {}
             => i \in owned'[r] \/ i \notin owned[r]
    PROVE  RouterInv'
<1>1. CASE i \notin DOMAIN subscriptions
  BY <1>1, RemoveNothingStep, SMTT(30) DEF remove_subscription
<1>2. CASE i \in DOMAIN subscriptions
  <2> DEFINE rs == RemoveReceiver(subscriptions[i].receivers, r, n)
  <2>1. subscriptions[i].receivers \in [Receiver -> SUBSET Node]
    BY <1>2, TypeTable DEF IsTable, Subscription, RouterInv
  <2>2. /\ rs \in [Receiver -> SUBSET Node]
        /\ \A q \in Receiver : rs[q] \subseteq subscriptions[i].receivers[q]
    BY <2>1 DEF RemoveReceiver
  <2>3. IF nodes(rs) = {} THEN RemoveLast(i) ELSE RemoveSome(i, rs)
    BY <1>2 DEF remove_subscription
  <2> HIDE DEF rs
  <2> QED
    BY <1>2, <2>2, <2>3, RemoveLastStep, RemoveSomeStep DEF rs
<1> QED
  BY <1>1, <1>2

\* Receiver::unsubscribe preserves the invariant: the receiver forgets an id
\* only if remove_subscription reports no remaining node.
LEMMA UnsubscribeStep ==
    ASSUME RouterInv, NEW r \in Receiver, NEW i \in SubId \cup {FetchId},
           NEW n \in Node \cup {NoNode}, Unsubscribe(r, i, n)
    PROVE  RouterInv'
<1>1. /\ remove_subscription(i, r, n)
      /\ owned' = [owned EXCEPT ![r] = IF Remaining(i, r, n) = 0 THEN @ \ {i} ELSE @]
      /\ UNCHANGED <<peer_node_ids, next_sub_id, phase>>
  BY DEF Unsubscribe
<1>2. /\ owned' \in [Receiver -> SUBSET (SubId \cup {FetchId})]
      /\ \A q \in Receiver : q # r => owned'[q] = owned[q]
      /\ \A j \in owned[r] : j # i => j \in owned'[r]
      /\ Remaining(i, r, n) # 0 => owned'[r] = owned[r]
  BY <1>1 DEF RouterInv, TypeOK
<1>3. ASSUME i \in DOMAIN subscriptions,
             RemoveReceiver(subscriptions[i].receivers, r, n)[r] # {}
      PROVE  Remaining(i, r, n) # 0
  <2> DEFINE N == RemoveReceiver(subscriptions[i].receivers, r, n)[r]
  <2>1. N \in SUBSET Node
    <3>1. subscriptions[i].receivers \in [Receiver -> SUBSET Node]
      BY <1>3, TypeTable, SMTT(30) DEF RouterInv, IsTable, Subscription
    <3> QED
      BY <3>1 DEF RemoveReceiver
  <2>2. IsFiniteSet(N)
    <3>1. IsFiniteSet(Node)
      BY RouterAssumption, FS_AddElement DEF Node
    <3> QED
      BY <2>1, <3>1, FS_Subset
  <2>3. Cardinality(N) # 0
    BY <1>3, <2>2, FS_EmptySet, SMTT(30)
  <2> QED
    BY <1>3, <2>3 DEF Remaining
<1>4. i \in DOMAIN subscriptions
        /\ RemoveReceiver(subscriptions[i].receivers, r, n)[r] # {}
      => i \in owned'[r] \/ i \notin owned[r]
  BY <1>2, <1>3
<1>5. DropsAtMost(r, i)
  BY <1>1, <1>2 DEF DropsAtMost
<1> QED
  BY <1>1, <1>4, <1>5, RemoveStep, Zenon

\* Each removal of ~Receiver preserves the invariant: an empty node name
\* removes the receiver for every node.
LEMMA CloseStepStep ==
    ASSUME RouterInv, NEW r \in Receiver, NEW i \in SubId \cup {FetchId},
           CloseStep(r, i)
    PROVE  RouterInv'
<1>1. /\ remove_subscription(i, r, NoNode)
      /\ owned' = [owned EXCEPT ![r] = @ \ {i}]
      /\ UNCHANGED <<peer_node_ids, next_sub_id, phase>>
  BY DEF CloseStep
<1>2. /\ owned' \in [Receiver -> SUBSET (SubId \cup {FetchId})]
      /\ \A q \in Receiver : q # r => owned'[q] = owned[q]
      /\ \A j \in owned[r] : j # i => j \in owned'[r]
  BY <1>1 DEF RouterInv, TypeOK
<1>3. ASSUME i \in DOMAIN subscriptions
      PROVE  RemoveReceiver(subscriptions[i].receivers, r, NoNode)[r] = {}
  <2>1. subscriptions[i].receivers \in [Receiver -> SUBSET Node]
    BY <1>3, TypeTable DEF RouterInv, IsTable, Subscription
  <2>2. NoNode \notin peer_node_ids
    BY RouterAssumption, SMTT(30) DEF RouterInv, TypeOK
  <2> QED
    BY <2>1, <2>2 DEF RemoveReceiver
<1>4. i \in DOMAIN subscriptions
        /\ RemoveReceiver(subscriptions[i].receivers, r, NoNode)[r] # {}
      => i \in owned'[r] \/ i \notin owned[r]
  BY <1>3
<1>5. DropsAtMost(r, i)
  BY <1>1, <1>2 DEF DropsAtMost
<1> QED
  BY <1>1, <1>4, <1>5, RemoveStep, Zenon

\* Every step of the router, and every stutter, preserves the invariant.
LEMMA NextInv == RouterInv /\ [Next]_vars => RouterInv'
<1> SUFFICES ASSUME RouterInv, [Next]_vars PROVE RouterInv'
  OBVIOUS
<1>1. ASSUME UNCHANGED vars PROVE RouterInv'
  <2>1. UNCHANGED table
    BY <1>1 DEF vars, table
  <2>2. TypeOK' /\ NoDanglingReceiver' /\ DeliveredAsFiltered'
    BY <1>1 DEF RouterInv, vars, TypeOK, NoDanglingReceiver, DeliveredAsFiltered
  <2> QED
    BY <2>1, <2>2, SameTables DEF RouterInv
<1>2. ASSUME NEW r \in Receiver, Subscribe(r) PROVE RouterInv'
  BY <1>2, SubscribeFetchStep, SubscribeExistingStep, SubscribeNewStep DEF Subscribe
<1>3. ASSUME NEW r \in Receiver,
             \E i \in SubId \cup {FetchId}, n \in Node \cup {NoNode} :
                 Unsubscribe(r, i, n)
      PROVE  RouterInv'
  BY <1>3, UnsubscribeStep
<1>4. ASSUME NEW r \in Receiver, \E i \in SubId \cup {FetchId} : CloseStep(r, i)
      PROVE  RouterInv'
  BY <1>4, CloseStepStep
<1> QED
  BY <1>1, <1>2, <1>3, <1>4, QuietSteps DEF Next

\* Every operation of the router and of its receivers preserves the conjunction
\* of the properties below, for every number of constraints, filters,
\* receivers, peers and subscriptions.
THEOREM RouterInvariant == Spec => []RouterInv
BY InitInv, NextInv, PTL DEF Spec

\* The tables of the router and the receivers always have their types.
THEOREM TypeCorrect == Spec => []TypeOK
<1>1. RouterInv => TypeOK
  BY DEF RouterInv
<1> QED
  BY <1>1, RouterInvariant, PTL

\* add_subscription and remove_subscription keep constraint index and
\* no_requirements exact, whatever order they come in.
THEOREM IndexStaysExact == Spec => []IndexExact
<1>1. RouterInv => IndexExact
  BY DEF RouterInv
<1> QED
  BY <1>1, RouterInvariant, PTL

\* The router never refers to a destroyed receiver, and a subscription lives
\* only while some receiver has it.
THEOREM ReceiversStayValid == Spec => [](NoDanglingReceiver /\ NoAbandonedSubscription)
<1>1. RouterInv => NoDanglingReceiver /\ NoAbandonedSubscription
  BY DEF RouterInv
<1> QED
  BY <1>1, RouterInvariant, PTL

\* add_subscription never enters a filter with the same arguments twice.
THEOREM SubscriptionsStayUnique == Spec => []UniqueSubscriptions
<1>1. RouterInv => UniqueSubscriptions
  BY DEF RouterInv
<1> QED
  BY <1>1, RouterInvariant, PTL

\* The table of subscriptions is sound in every reachable state.
THEOREM TableStaysSound == Spec => []TableSound
<1>1. RouterInv => TableSound
  BY DEF RouterInv, TableSound
<1> QED
  BY <1>1, RouterInvariant, PTL

\* publish_internal delivers every publication exactly to the receivers of the
\* matching subscriptions of the highest priority.
THEOREM DeliveryIsExact == Spec => []DeliveredAsFiltered
<1>1. RouterInv => DeliveredAsFiltered
  BY DEF RouterInv
<1> QED
  BY <1>1, RouterInvariant, PTL
=============================================================================
