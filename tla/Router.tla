------------------------------- MODULE Router -------------------------------
(***************************************************************************)
(* The content-based publish/subscribe router of a uActor node             *)
(* (uActor/src/pubsub/router.cpp) with the receivers that use it           *)
(* (uActor-POSIX/src/receiver.cpp).  Every operation below runs under the  *)
(* router's shared_mutex in the code, so each is one step here.            *)
(*                                                                         *)
(* What the data is abstracted to:                                         *)
(*  - a constraint is an atom.  A publication is known by the constraints  *)
(*    whose attribute it carries, by those of them it carries a map for,   *)
(*    and by those it satisfies;                                           *)
(*  - a filter is a pair of disjoint sets: it repeats no constraint.  The  *)
(*    code does not enforce this, see ConstraintIndex.tla;                 *)
(*  - a subscription's origin and the peer it came from are one node: a    *)
(*    peer passes on only what it publishes under its own node id;         *)
(*  - an internal node id is the node's name.  The id 0, which stands for  *)
(*    "every node of the receiver", is what a name that was never          *)
(*    registered is looked up as.                                          *)
(***************************************************************************)
EXTENDS SubscriptionIndex

CONSTANTS
    Filter,              \* the filters that are subscribed to
    Argument,            \* the SubscriptionArguments that are used
    Message,             \* what actors publish
    Carries(_),          \* constraints on an attribute of a publication ...
    Nested(_),           \* ... whose value is a map
    Accepts(_),          \* constraints that a publication satisfies
    AnnounceConstraint,  \* type EQ "local_subscription_added"
    Selects(_, _),       \* does a filter's "subscription" constraint accept
                         \* another, serialised, filter
    Receiver, Peer,
    Local,               \* BoardFunctions::NODE_ID
    NoNode,              \* the empty string
    MaxSubs              \* bound: how many subscriptions are ever created

VARIABLES
    subscriptions,       \* id -> [filter, args, receivers]
    constraints,         \* the index: constraint -> set of <<id, optional>>
    stored,              \* constraint -> the optional flag of the object that
                         \* the index shares between subscriptions
    no_requirements,     \* ids of subscriptions without required constraints
    peer_node_ids,       \* the node names that have an internal id
    next_sub_id,
    phase,               \* life cycle of each receiver
    owned,               \* Receiver::subscriptions of each receiver
    out                  \* what the last step published, and to whom

vars == <<subscriptions, constraints, stored, no_requirements, peer_node_ids,
          next_sub_id, phase, owned, out>>

(***************************************************************************)
(* Types.                                                                  *)
(***************************************************************************)
FirstSubId == 11
FetchId == 1
SubId == FirstSubId .. (FirstSubId + MaxSubs - 1)
Node == Peer \cup {Local}
FetchPolicy == {"NONE", "FUTURE", "FETCH", "FETCH_FUTURE"}
MaxPriority == 255

Subscription == [filter : Filter, args : Argument,
                 receivers : [Receiver -> SUBSET Node]]

ASSUME RouterAssumption ==
    /\ IsFiniteSet(Constraint)
    /\ Filter \subseteq [required : SUBSET Constraint,
                         optional : SUBSET Constraint]
    /\ \A f \in Filter : f.required \cap f.optional = {}
    /\ \A a \in Argument : /\ a.fetch \in FetchPolicy
                           /\ a.priority \in 0 .. MaxPriority
    /\ IsFiniteSet(Peer) /\ Local \notin Peer
    /\ NoNode \notin Node
    /\ MaxSubs \in Nat

(***************************************************************************)
(* What the router publishes itself.                                       *)
(***************************************************************************)
Added(f, a, source, exclude, include) ==
    [type |-> "local_subscription_added", publisher |-> source, filter |-> f,
     args |-> a, exclude |-> exclude, include |-> include]

Removed(f, a, include) ==
    [type |-> "local_subscription_removed", publisher |-> Local, filter |-> f,
     args |-> a, exclude |-> NoNode, include |-> include]

\* Addressed to the subscriber's node_id, here in the field include.
UnicastWrapper(f, a, subscriber) ==
    [type |-> "__unicast_wrapper", publisher |-> Local, filter |-> f,
     args |-> a, exclude |-> NoNode, include |-> subscriber]

(***************************************************************************)
(* Matching, as publish_internal does it: count through the index, then    *)
(* scan the subscriptions without requirements.  ss, idx and nr are the    *)
(* subscription table, the index and no_requirements it runs on.           *)
(***************************************************************************)
check_optionals(f, p) ==
    \A c \in f.optional \cap (Carries(p) \ Nested(p)) : c \in Accepts(p)

Counted(idx, p, i, opt) ==
    {c \in Constraint : c \in Accepts(p) /\ <<i, opt>> \in idx[c]}

InCounter(idx, p, i) == \E opt \in BOOLEAN : Counted(idx, p, i, opt) # {}

\* Mutant: subscriptions that the counter has not seen are all taken.
IndexMatchUnchecked(ss, idx, nr, p, i) ==
    \/ i \in nr /\ ~InCounter(idx, p, i)
    \/ /\ InCounter(idx, p, i)
       /\ Cardinality(Counted(idx, p, i, FALSE)) = Cardinality(ss[i].filter.required)
       /\ check_optionals(ss[i].filter, p)

IndexMatch(ss, idx, nr, p, i) ==
    LET f == ss[i].filter IN
    \/ /\ InCounter(idx, p, i)
       /\ Cardinality(Counted(idx, p, i, FALSE)) = Cardinality(f.required)
       /\ \/ Cardinality(Counted(idx, p, i, TRUE)) = Cardinality(f.optional)
          \/ check_optionals(f, p)
    \/ /\ i \in nr
       /\ ~InCounter(idx, p, i)
       /\ check_optionals(f, p)

\* The subscriptions of the highest priority among those in M: the outcome of
\* the current_priority loop for the priorities a uint8_t can hold.
TopPriority(ss, M) ==
    {i \in M : \A j \in M : ss[j].args.priority <= ss[i].args.priority}

publish_internal(ss, idx, nr, p) ==
    LET M == {i \in DOMAIN ss : IndexMatch(ss, idx, nr, p, i)} IN
    [pub |-> p,
     to |-> {d \in Receiver \X SubId :
                /\ d[2] \in TopPriority(ss, M)
                /\ ss[d[2]].receivers[d[1]] # {}}]

(***************************************************************************)
(* Subscription::nodes and the subscription table.                         *)
(***************************************************************************)
nodes(rs) == UNION {rs[r] : r \in Receiver}

\* no_requirements is kept in step with count_required().
NoReqInsert(nr, f, i) == IF Cardinality(f.required) = 0 THEN nr \cup {i} ELSE nr
NoReqRemove(nr, f, i) == IF Cardinality(f.required) = 0 THEN nr \ {i} ELSE nr

\* subscriptions.try_emplace and subscriptions.erase.
Emplace(ss, i, sub) ==
    [j \in DOMAIN ss \cup {i} |-> IF j = i THEN sub ELSE ss[j]]
Erase(ss, i) == [j \in DOMAIN ss \ {i} |-> ss[j]]

\* A subscription's receivers change in place.
SetReceivers(ss, i, rs) == [ss EXCEPT ![i].receivers = rs]

(***************************************************************************)
(* Initial state.                                                          *)
(***************************************************************************)
Init ==
    /\ subscriptions = [i \in {} |-> {}]
    /\ constraints = [c \in Constraint |-> {}]
    /\ stored = [c \in Constraint |-> FALSE]
    /\ no_requirements = {}
    /\ peer_node_ids = {Local}
    /\ next_sub_id = FirstSubId
    /\ phase = [r \in Receiver |-> "none"]
    /\ owned = [r \in Receiver |-> {}]
    /\ out = {}

table == <<subscriptions, constraints, stored, no_requirements>>

(***************************************************************************)
(* Receiver::Receiver and Router::publish.                                 *)
(***************************************************************************)
NewReceiver(r) ==
    /\ phase[r] = "none"
    /\ phase' = [phase EXCEPT ![r] = "alive"]
    /\ out' = {}
    /\ UNCHANGED <<table, peer_node_ids, next_sub_id, owned>>

Publish(m) ==
    /\ out' = {publish_internal(subscriptions, constraints, no_requirements, m)}
    /\ UNCHANGED <<table, peer_node_ids, next_sub_id, phase, owned>>

(***************************************************************************)
(* Receiver::subscribe with Router::add_subscription.                      *)
(***************************************************************************)
\* A subscription that came from a peer is not announced back to it.
ExcludedBy(source) == IF source = Local THEN NoNode ELSE source

Same(f, a) == {i \in DOMAIN subscriptions :
                  subscriptions[i].filter = f /\ subscriptions[i].args = a}

is_fetch_meta_subscription(f, a) ==
    a.fetch \in {"FETCH", "FETCH_FUTURE"} /\ AnnounceConstraint \in f.required

\* handle_meta_subscription: tell the subscriber of what exists already.
MetaReplies(f, a, source) ==
    {publish_internal(subscriptions, constraints, no_requirements,
                      UnicastWrapper(Wire(stored, subscriptions[i].filter),
                                     subscriptions[i].args, source)) :
        i \in {j \in DOMAIN subscriptions :
                  /\ is_fetch_meta_subscription(f, a)
                  /\ Selects(f, Wire(stored, subscriptions[j].filter))}}

SubscribeFetch(r, f, source, a) ==
    /\ phase[r] = "alive"
    /\ a.fetch = "FETCH"
    /\ owned' = [owned EXCEPT ![r] = @ \cup {FetchId}]
    /\ out' = MetaReplies(f, a, source) \cup
              {publish_internal(subscriptions, constraints, no_requirements,
                   Added(f, a, source, ExcludedBy(source), NoNode))}
    /\ UNCHANGED <<table, peer_node_ids, next_sub_id, phase>>

\* Mutant: the one node that was behind the subscription is not told.
JoinAnnouncementLocal(f, a, source, ns) ==
    IF source = Local THEN {Added(f, a, source, NoNode, Local)} ELSE {}

\* What joining an existing subscription announces; ns are its nodes then.
JoinAnnouncement(f, a, source, ns) ==
    IF Cardinality(ns) = 2
    THEN {Added(f, a, source, NoNode, n) : n \in ns \ {source}}
    ELSE IF a.fetch = "FETCH_FUTURE"
    THEN {Added(f, a, source, ExcludedBy(source), NoNode)}
    ELSE IF source = Local THEN {Added(f, a, source, NoNode, Local)}
    ELSE {}

SubscribeExisting(r, f, source, a, i) ==
    LET rs == subscriptions[i].receivers
        updated == source \notin rs[r]
        rs2 == [rs EXCEPT ![r] = @ \cup {source}]
        ss2 == SetReceivers(subscriptions, i, rs2)
    IN
    /\ phase[r] = "alive"
    /\ a.fetch # "FETCH"
    /\ i \in Same(f, a)
    /\ \A j \in Same(f, a) : i <= j
    /\ peer_node_ids' = peer_node_ids \cup {source}
    /\ subscriptions' = ss2
    /\ owned' = [owned EXCEPT ![r] = @ \cup {i}]
    /\ out' = MetaReplies(f, a, source) \cup
              {publish_internal(ss2, constraints, no_requirements, p) :
                  p \in IF updated THEN JoinAnnouncement(f, a, source, nodes(rs2))
                        ELSE {}}
    /\ UNCHANGED <<constraints, stored, no_requirements, next_sub_id, phase>>

SubscribeNew(r, f, source, a) ==
    LET i == next_sub_id
        sub == [filter |-> f, args |-> a,
                receivers |-> [q \in Receiver |->
                                  IF q = r THEN {source} ELSE {}]]
        ss2 == Emplace(subscriptions, i, sub)
        idx2 == IndexInsert(constraints, f, i)
        nr2 == NoReqInsert(no_requirements, f, i)
    IN
    /\ phase[r] = "alive"
    /\ a.fetch # "FETCH"
    /\ Same(f, a) = {}
    /\ i \in SubId
    /\ next_sub_id' = i + 1
    /\ peer_node_ids' = peer_node_ids \cup {source}
    /\ subscriptions' = ss2
    /\ constraints' = idx2
    /\ stored' = StoredInsert(constraints, stored, f)
    /\ no_requirements' = nr2
    /\ owned' = [owned EXCEPT ![r] = @ \cup {i}]
    /\ out' = MetaReplies(f, a, source) \cup
              {publish_internal(ss2, idx2, nr2,
                   Added(f, a, source, ExcludedBy(source), NoNode))}
    /\ UNCHANGED phase

(***************************************************************************)
(* Router::remove_subscription(i, r, n).                                   *)
(***************************************************************************)
\* Mutant: the empty name removes no node instead of all.
RemoveReceiverNamed(rs, r, n) ==
    [rs EXCEPT ![r] = IF n \in peer_node_ids THEN @ \ {n} ELSE @]

\* Subscription::remove_receiver; an unregistered name is the internal id 0.
RemoveReceiver(rs, r, n) ==
    [rs EXCEPT ![r] = IF n \in peer_node_ids THEN @ \ {n} ELSE {}]

RemoveLast(i) ==
    LET s == subscriptions[i]
        f == s.filter
        ss2 == Erase(subscriptions, i)
        idx2 == IndexRemove(constraints, f, i)
        nr2 == NoReqRemove(no_requirements, f, i)
    IN
    /\ subscriptions' = ss2
    /\ constraints' = idx2
    /\ no_requirements' = nr2
    /\ out' = {publish_internal(ss2, idx2, nr2,
                   Removed(Wire(stored, f), s.args, NoNode))}
    /\ stored' = StoredRemove(idx2, stored)

RemoveSome(i, rs2) ==
    LET s == subscriptions[i]
        ss2 == SetReceivers(subscriptions, i, rs2)
        ns == nodes(rs2)
    IN
    /\ subscriptions' = ss2
    /\ out' = {publish_internal(ss2, constraints, no_requirements,
                   Removed(Wire(stored, s.filter), s.args, n)) :
                  n \in IF Cardinality(ns) = 1 THEN ns \ {Local} ELSE {}}
    /\ UNCHANGED <<constraints, stored, no_requirements>>

remove_subscription(i, r, n) ==
    IF i \in DOMAIN subscriptions
    THEN LET rs2 == RemoveReceiver(subscriptions[i].receivers, r, n) IN
         IF nodes(rs2) = {} THEN RemoveLast(i) ELSE RemoveSome(i, rs2)
    ELSE out' = {} /\ UNCHANGED table

\* How many nodes the receiver still holds the subscription for.
Remaining(i, r, n) ==
    IF i \in DOMAIN subscriptions
    THEN Cardinality(RemoveReceiver(subscriptions[i].receivers, r, n)[r])
    ELSE 0

Unsubscribe(r, i, n) ==
    /\ phase[r] = "alive"
    /\ i \in owned[r]
    /\ remove_subscription(i, r, n)
    /\ owned' = [owned EXCEPT ![r] = IF Remaining(i, r, n) = 0 THEN @ \ {i}
                                     ELSE @]
    /\ UNCHANGED <<peer_node_ids, next_sub_id, phase>>

(***************************************************************************)
(* Receiver::~Receiver: one remove_subscription per id, each taking the    *)
(* router's lock anew, in the order of the set.                            *)
(***************************************************************************)
Close(r) ==
    /\ phase[r] = "alive"
    /\ phase' = [phase EXCEPT ![r] = "closing"]
    /\ out' = {}
    /\ UNCHANGED <<table, peer_node_ids, next_sub_id, owned>>

CloseStep(r, i) ==
    /\ phase[r] = "closing"
    /\ i \in owned[r]
    /\ \A j \in owned[r] : i <= j
    /\ remove_subscription(i, r, NoNode)
    /\ owned' = [owned EXCEPT ![r] = @ \ {i}]
    /\ UNCHANGED <<peer_node_ids, next_sub_id, phase>>

Closed(r) ==
    /\ phase[r] = "closing"
    /\ owned[r] = {}
    /\ phase' = [phase EXCEPT ![r] = "none"]
    /\ out' = {}
    /\ UNCHANGED <<table, peer_node_ids, next_sub_id, owned>>

(***************************************************************************)
(* Router::subscription_lists_for.                                         *)
(***************************************************************************)
\* The subscriptions that somebody other than the peer is behind.
Fulfillable(p) ==
    {i \in DOMAIN subscriptions :
        LET ns == nodes(subscriptions[i].receivers)
        IN  Cardinality(ns) >= 2 \/ p \notin ns}

SubscriptionListsFor(p) ==
    /\ peer_node_ids' = peer_node_ids \cup {p}
    /\ out' = {}
    /\ UNCHANGED <<table, next_sub_id, phase, owned>>

(***************************************************************************)
(* The specification.                                                      *)
(***************************************************************************)
Subscribe(r) ==
    \E f \in Filter, source \in Node, a \in Argument :
        \/ SubscribeFetch(r, f, source, a)
        \/ \E i \in SubId : SubscribeExisting(r, f, source, a, i)
        \/ SubscribeNew(r, f, source, a)

Next ==
    \/ \E m \in Message : Publish(m)
    \/ \E p \in Peer : SubscriptionListsFor(p)
    \/ \E r \in Receiver :
        \/ NewReceiver(r)
        \/ Subscribe(r)
        \/ \E i \in SubId \cup {FetchId}, n \in Node \cup {NoNode} :
               Unsubscribe(r, i, n)
        \/ Close(r)
        \/ \E i \in SubId \cup {FetchId} : CloseStep(r, i)
        \/ Closed(r)

Spec == Init /\ [][Next]_vars

(***************************************************************************)
(* Properties.                                                             *)
(***************************************************************************)
\* The attributes that notices carry, for TypeOK.
Notice == [type : {"local_subscription_added", "local_subscription_removed",
                   "__unicast_wrapper"},
           publisher : Node,
           filter : [required : SUBSET Constraint, optional : SUBSET Constraint],
           args : Argument,
           exclude : Node \cup {NoNode}, include : Node \cup {NoNode}]

\* The type invariant: every table of the router and of the receivers holds
\* what its declaration says; ids are handed out below next_sub_id only.
TypeOK ==
    /\ next_sub_id \in FirstSubId .. (FirstSubId + MaxSubs)
    /\ DOMAIN subscriptions \subseteq FirstSubId .. (next_sub_id - 1)
    /\ subscriptions \in [DOMAIN subscriptions -> Subscription]
    /\ constraints \in [Constraint -> SUBSET (SubId \X BOOLEAN)]
    /\ stored \in [Constraint -> BOOLEAN]
    /\ no_requirements \in SUBSET SubId
    /\ peer_node_ids \in SUBSET Node
    /\ phase \in [Receiver -> {"none", "alive", "closing"}]
    /\ owned \in [Receiver -> SUBSET (SubId \cup {FetchId})]
    /\ out \in SUBSET [pub : Message \cup Notice,
                       to : SUBSET (Receiver \X SubId)]

\* The index idx and the set nr list, for every constraint, exactly the
\* subscriptions of ss that use it and how.
IndexedBy(ss, idx, nr) ==
    /\ \A c \in Constraint, i \in SubId :
        /\ <<i, FALSE>> \in idx[c] <=> i \in DOMAIN ss /\ c \in ss[i].filter.required
        /\ <<i, TRUE>> \in idx[c] <=> i \in DOMAIN ss /\ c \in ss[i].filter.optional
    /\ \A i \in SubId :
        i \in nr <=> i \in DOMAIN ss /\ ss[i].filter.required = {}

\* add_subscription and remove_subscription keep the index exact: an entry of a
\* live subscription is never lost, one of a removed subscription never stays.
IndexExact == IndexedBy(subscriptions, constraints, no_requirements)

\* Two live subscriptions differ in filter or arguments, so that find_sub_id
\* and the find_if of add_subscription have one answer.
UniqueSubscriptions ==
    \A i, j \in DOMAIN subscriptions :
        /\ subscriptions[i].filter = subscriptions[j].filter
        /\ subscriptions[i].args = subscriptions[j].args
        => i = j

\* remove_subscription frees a subscription with its last receiver.
NoAbandonedSubscription ==
    \A i \in DOMAIN subscriptions : nodes(subscriptions[i].receivers) # {}

\* The router holds a pointer to a receiver only while the receiver exists and
\* only in subscriptions that the receiver's destructor will visit: delivering
\* never touches a destroyed receiver.
NoDanglingReceiver ==
    \A i \in DOMAIN subscriptions, r \in Receiver :
        subscriptions[i].receivers[r] # {} =>
            phase[r] # "none" /\ i \in owned[r]

\* The table of subscriptions is sound after any calls of any receivers, also in
\* the middle of a destructor: its ids are below next_sub_id, no filter is in it
\* twice, and each subscription has receivers, all of which exist.
TableSound ==
    TypeOK /\ UniqueSubscriptions /\ NoAbandonedSubscription /\ NoDanglingReceiver

\* The meaning of a filter, as InternalFilter gives it without any index.
Matches(f, p) == f.required \subseteq Accepts(p) /\ check_optionals(f, p)

\* Who should receive p, by the filters of ss alone.
Recipients(ss, p) ==
    LET M == {i \in DOMAIN ss : Matches(ss[i].filter, p)}
    IN  {d \in Receiver \X SubId :
            /\ d[2] \in TopPriority(ss, M)
            /\ ss[d[2]].receivers[d[1]] # {}}

\* publish_internal delivers a publication exactly to the receivers of the
\* matching subscriptions of the highest priority, though it decides by
\* counting index hits that earlier subscribes and unsubscribes of other
\* receivers have left.  (The replies to a meta subscription are published
\* before the subscription is entered, on the table of the step's beginning.)
DeliveredAsFiltered ==
    \A o \in out : o.pub.type # "__unicast_wrapper" =>
        o.to = Recipients(subscriptions, o.pub)

\* What the router writes out of a live subscription's filter when it replays
\* or withdraws it is the filter that was subscribed to.
WireFaithful ==
    \A i \in DOMAIN subscriptions :
        Wire(stored, subscriptions[i].filter) = subscriptions[i].filter
=============================================================================
