------------------------ MODULE SubscriptionProcessors -----------------------
(***************************************************************************)
(* What a connection makes of the subscriptions of its node before the     *)
(* peer hears of them (uActor/include/remote/subscription_processors).  A  *)
(* chain of processors changes or drops each subscription that is added or *)
(* removed; two of them stand for many subscriptions with one wider rule   *)
(* and count what the rule stands for.  A peer that is a leaf does the     *)
(* same to the rules that arrive.                                          *)
(*                                                                         *)
(* The peer keeps the rules by filter and arguments.  A connection does    *)
(* not hear of each subscription once: the router announces every fetch    *)
(* and never the end of one, announces a subscription again when others    *)
(* join it or when it falls between the connection's first subscription    *)
(* and its list, and tells everybody of the end of subscriptions whose     *)
(* addition they never heard of.  So any announcement may come at any time *)
(* here, and odd records those that were out of turn.                      *)
(***************************************************************************)
EXTENDS Integers, FiniteSets

CONSTANTS
    SFilter,         \* filters, as [required, optional] sets of constraints
    Arguments,       \* subscription arguments, [scope, fetch]
    LocalId, PeerId, \* node ids
    Label,           \* the cluster label constraint of this node
    Publications,    \* publications, functions on some attributes
    CountModulus,    \* 2^32 in the code: the counts are unsigned
    MaxSubscribed    \* bound: different subscriptions of the node

VARIABLES
    peer,            \* [labels, cluster, leaf]: whether the peer has the same
                     \* cluster labels, is in the cluster, and is a leaf
    used,            \* the subscriptions there may be, <<filter, arguments>>
    known,           \* those the connection heard of and not of their end
    odd,             \* those it heard of out of turn
    counts,          \* [node, cluster, leaf]: what the aggregates stand for
    rules            \* the rules the peer has, <<filter, arguments>>

pcvars == <<peer, used, known, odd, counts, rules>>

\* A cluster is not made of the ids of nodes.
ASSUME ProcessorAssumption ==
    /\ \A f \in SFilter : f = [required |-> f.required, optional |-> f.optional]
    /\ LocalId # PeerId
    /\ Label.attr # "node_id"
    /\ MaxSubscribed \in Nat /\ CountModulus \in Nat /\ CountModulus > MaxSubscribed

Eq(a, v) == [attr |-> a, pred |-> "EQ", value |-> v]
Ne(a, v) == [attr |-> a, pred |-> "NE", value |-> v]
Rule(C) == [required |-> C, optional |-> {}]

\* Constraint::operator(), for a publication that has the attribute.
Meets(c, p) == IF c.pred = "EQ" THEN p[c.attr] = c.value ELSE p[c.attr] # c.value

\* Filter::matches.
FilterMatches(f, p) ==
    /\ \A c \in f.required : c.attr \in DOMAIN p /\ Meets(c, p)
    /\ \A c \in f.optional : c.attr \in DOMAIN p => Meets(c, p)

(***************************************************************************)
(* The processors.  Each takes and returns what goes through the chain:    *)
(* the filter, its arguments, whether it was dropped, and the counts.  d is 1  *)
(* for a subscription that is added and -1 for one that is removed.        *)
(***************************************************************************)
DropIf(w, b) == [w EXCEPT !.drop = b]

NodeLocalFilterDrop(w, d) == DropIf(w, Eq("publisher_node_id", LocalId) \in w.filter.required)

\* Mutant: a subscription that is removed is taken for the last.
Aggregate_last(w, d, which, rule) ==
    LET n == (w.counts[which] + d) % CountModulus
    IN  [w EXCEPT !.counts[which] = n,
                  !.filter = IF d = 1 => n = 1 THEN rule ELSE @,
                  !.drop = ~(d = 1 => n = 1)]

\* The first that is added and the last that is removed become the rule.
Aggregate(w, d, which, rule) ==
    LET n == (w.counts[which] + d) % CountModulus
        edge == IF d = 1 THEN n = 1 ELSE n = 0
    IN  [w EXCEPT !.counts[which] = n, !.filter = IF edge THEN rule ELSE @,
                  !.drop = ~edge]

NodeIdAggregator(w, d) ==
    IF Eq("node_id", LocalId) \in w.filter.required
    THEN Aggregate(w, d, "node", Rule({Eq("node_id", LocalId)})) ELSE w

ClusterAggregator(w, d) ==
    IF ~peer.labels /\ Label \in w.filter.required
    THEN Aggregate(w, d, "cluster", Rule({Label})) ELSE w

\* The nodes that a filter is addressed to.
Addressees(f) == {c \in f.required : c.attr = "node_id" /\ c.pred = "EQ"}

ClusterBarrier(w, d) == DropIf(w, ~peer.labels /\ Addressees(w.filter) # {})

ScopeLocal(w, d) == DropIf(w, w.args.scope = "LOCAL")

ScopeCluster(w, d) == DropIf(w, w.args.scope = "CLUSTER" /\ ~peer.cluster)

\* Mutant: the constraint is dropped only when the subscription is added.
OptionalConstraintDrop_added(w, d) ==
    IF d = 1 THEN [w EXCEPT !.filter.optional = @ \ {Eq("node_id", LocalId)}] ELSE w

OptionalConstraintDrop(w, d) ==
    [w EXCEPT !.filter.optional = @ \ {Eq("node_id", LocalId)}]

\* On the peer's side, for the node ids of others.
ForOthers(f) == \E c \in Addressees(f) : c.value # PeerId
LeafRule == Rule({Ne("node_id", PeerId)})

LeafNodeIdGateway(w, d) ==
    IF peer.leaf /\ ForOthers(w.filter) THEN Aggregate(w, d, "leaf", LeafRule) ELSE w

\* The chain that handle_remote_hello sets up; it ends at the first drop.
Chain(f, a, d, n) ==
    LET w0 == [filter |-> f, args |-> a, drop |-> FALSE, counts |-> n]
        w1 == NodeLocalFilterDrop(w0, d)
        w2 == IF w1.drop THEN w1 ELSE NodeIdAggregator(w1, d)
        w3 == IF w2.drop THEN w2 ELSE ClusterAggregator(w2, d)
        w4 == IF w3.drop THEN w3 ELSE ClusterBarrier(w3, d)
        w5 == IF w4.drop THEN w4 ELSE ScopeLocal(w4, d)
        w6 == IF w5.drop THEN w5 ELSE ScopeCluster(w5, d)
        w7 == IF w6.drop THEN w6 ELSE OptionalConstraintDrop(w6, d)
    IN  IF w7.drop THEN w7 ELSE LeafNodeIdGateway(w7, d)

PCInit ==
    /\ peer \in [labels : BOOLEAN, cluster : BOOLEAN, leaf : BOOLEAN]
    /\ used \in {{g[i] : i \in DOMAIN g} : g \in [1 .. MaxSubscribed -> SFilter \X Arguments]}
    /\ known = {} /\ odd = {} /\ rules = {}
    /\ counts = [node |-> 0, cluster |-> 0, leaf |-> 0]

\* A fetch asks once: no router keeps it.
Fetches(a) == a.fetch = "FETCH"

\* handle_local_subscription_added, also for the list that follows the hello, and
\* handle_remote_subscriptions_added.
SubscriptionAdded(f, a) ==
    /\ known' = IF Fetches(a) THEN known ELSE known \cup {<<f, a>>}
    /\ odd' = IF Fetches(a) \/ <<f, a>> \in known THEN odd \cup {<<f, a>>} ELSE odd
    /\ UNCHANGED <<peer, used>>
    /\ \E w \in {Chain(f, a, 1, counts)} :
           /\ counts' = w.counts
           /\ rules' = IF w.drop \/ Fetches(a) THEN rules ELSE rules \cup {<<w.filter, a>>}

\* handle_local_subscription_removed, handle_remote_subscriptions_removed.  The
\* peer finds the rule by its filter and arguments.
SubscriptionRemoved(f, a) ==
    /\ ~Fetches(a)
    /\ known' = known \ {<<f, a>>}
    /\ odd' = IF <<f, a>> \notin known THEN odd \cup {<<f, a>>} ELSE odd
    /\ UNCHANGED <<peer, used>>
    /\ \E w \in {Chain(f, a, -1, counts)} :
           /\ counts' = w.counts
           /\ rules' = IF w.drop THEN rules ELSE rules \ {<<w.filter, a>>}

PCNext == \E x \in used : SubscriptionAdded(x[1], x[2]) \/ SubscriptionRemoved(x[1], x[2])

PCSpec == PCInit /\ [][PCNext]_pcvars

(***************************************************************************)
(* Properties.                                                             *)
(***************************************************************************)
\* The constraints for which subscriptions are aggregated.
Aggregated == {Eq("node_id", LocalId), Label}

\* A filter without the constraint that is dropped.
Trimmed(f) == [f EXCEPT !.optional = @ \ {Eq("node_id", LocalId)}]

\* The subscriptions that some aggregate may count, and the pairs that share one.
Countable(x) == \/ x[1].required \cap Aggregated # {}
                \/ peer.leaf /\ ForOthers(x[1])
Pooled(x, y) == \/ x[1].required \cap y[1].required \cap Aggregated # {}
                \/ peer.leaf /\ ForOthers(x[1]) /\ ForOthers(y[1])

\* The subscriptions that routers keep.
Kept == {x \in used : ~Fetches(x[2])}

\* Each aggregate is used with the same arguments, and no two filters become the same
\* rule but by aggregation.  The counts do not tell arguments apart: otherwise a LOCAL
\* subscription may keep others from the peer, and a rule may stay there with the
\* arguments of a subscription that is gone.
Uniform ==
    /\ \A x, y \in Kept : Pooled(x, y) => x[2] = y[2]
    /\ \A x, y \in Kept : Trimmed(x[1]) = Trimmed(y[1]) => x[1] = y[1] \/ x[2] # y[2]
    /\ peer.leaf => \A x \in Kept : Trimmed(x[1]) # LeafRule

\* Nothing that is counted was heard of out of turn.  The counts do not tell
\* subscriptions apart either: one that is counted twice, or was never counted and is
\* removed, makes an aggregate stay, go early, or never come.
Orderly == \A x \in odd : ~Countable(x)

\* The subscriptions that the peer should know of: in scope, and for another cluster
\* not addressed to a single node, unless they are for the own cluster only.
Concerned ==
    {x \in known :
        /\ x[2].scope # "LOCAL" /\ (x[2].scope = "CLUSTER" => peer.cluster)
        /\ \/ peer.labels \/ Addressees(x[1]) = {}
           \/ Label \in x[1].required /\ Eq("node_id", LocalId) \notin x[1].required}

\* The peer sends what is wanted: for every publication of another node that a
\* subscription in its scope matches there is a rule, whatever subscriptions came
\* and went before, as long as those that are counted came and went in turn.  The others
\* may be announced again, or their end may be, without harm.
PeerCovers ==
    Uniform /\ Orderly => \A x \in Concerned, p \in Publications :
        (FilterMatches(x[1], p) /\ ~FilterMatches(Rule({Eq("publisher_node_id", LocalId)}), p)
         /\ (peer.leaf => p["node_id"] # PeerId))
            => \E r \in rules : FilterMatches(r[1], p)

\* The peer sends nothing for subscriptions that are gone: each rule is the wider form
\* of a subscription in its scope that is still there.  And no count wraps or stands
\* for one that is gone: the next that is added would not be the first.
NoStaleRule ==
    Uniform /\ Orderly =>
        /\ \A k \in DOMAIN counts : counts[k] <= Cardinality(known)
        /\ \A r \in rules : \E x \in Concerned :
              /\ x[2] = r[2]
              /\ \A p \in Publications : FilterMatches(x[1], p) => FilterMatches(r[1], p)
=============================================================================
