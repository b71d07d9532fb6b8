--------------------------- MODULE ProcessorProofs ---------------------------
(***************************************************************************)
(* Proofs about the subscription processors: for any filters and any       *)
(* announcements, as long as those of the subscriptions that are counted   *)
(* come in turn, the counts of the aggregates are exact, the peer has a    *)
(* rule for all that is wanted, and none for what is gone.                 *)
(***************************************************************************)
EXTENDS SubscriptionProcessors, FiniteSetTheorems, TLAPS

(***************************************************************************)
(* What the chain makes of a subscription.                                 *)
(***************************************************************************)
NodeEq == Eq("node_id", LocalId)

OwnOnly(f) == Eq("publisher_node_id", LocalId) \in f.required
ByNode(f) == ~OwnOnly(f) /\ NodeEq \in f.required
ByCluster(f) == ~OwnOnly(f) /\ NodeEq \notin f.required /\ ~peer.labels /\ Label \in f.required
InScope(s) == s.scope # "LOCAL" /\ (s.scope = "CLUSTER" => peer.cluster)
Crosses(f) == peer.labels \/ Addressees(f) = {}

\* The subscriptions that the peer has a rule for, and the filter of that rule before
\* a leaf looks at it.
Sent(x) == /\ InScope(x[2]) /\ ~OwnOnly(x[1])
           /\ ByCluster(x[1]) \/ Crosses(x[1])
Wider(f) == IF ByNode(f) THEN Rule({NodeEq})
            ELSE IF ByCluster(f) THEN Rule({Label}) ELSE Trimmed(f)
Wide(x) == <<Wider(x[1]), x[2]>>

Noded(P) == {x \in P : ByNode(x[1])}
Clustered(P) == {x \in P : ByCluster(x[1])}
Told(P) == {Wide(x) : x \in {y \in P : Sent(y)}}

\* What a leaf makes of the rules it is told.
Gated(M) == {m \in M : peer.leaf /\ ForOthers(m[1])}
AtPeer(M) == {m \in M : ~(peer.leaf /\ ForOthers(m[1]))} \cup {<<LeafRule, m[2]>> : m \in Gated(M)}

\* The chain up to the connection, and the work that goes through it.
Work(f, s, b, n) == [filter |-> f, args |-> s, drop |-> b, counts |-> n]

Fore(f, s, d, n) ==
    LET w1 == NodeLocalFilterDrop(Work(f, s, FALSE, n), d)
        w2 == IF w1.drop THEN w1 ELSE NodeIdAggregator(w1, d)
    IN  IF w2.drop THEN w2 ELSE ClusterAggregator(w2, d)

Aft(w3, d) ==
    LET w4 == IF w3.drop THEN w3 ELSE ClusterBarrier(w3, d)
        w5 == IF w4.drop THEN w4 ELSE ScopeLocal(w4, d)
        w6 == IF w5.drop THEN w5 ELSE ScopeCluster(w5, d)
    IN  IF w6.drop THEN w6 ELSE OptionalConstraintDrop(w6, d)

Egress(f, s, d, n) == Aft(Fore(f, s, d, n), d)

\* The chain is that of the connection and that of the leaf.
LEMMA ChainSplits ==
    ASSUME NEW f, NEW s, NEW d, NEW n
    PROVE  LET w == Egress(f, s, d, n)
           IN  Chain(f, s, d, n) = IF w.drop THEN w ELSE LeafNodeIdGateway(w, d)
  BY Zenon DEF Chain, Egress, Fore, Aft, Work

\* Whether the first was added or the last removed.
Edge(d, k) == IF d = 1 THEN k = 1 ELSE k = 0

AggregateMakes(w, f, s, d, n, k, r) ==
    LET m == (n[k] + d) % CountModulus
    IN  w = Work(IF Edge(d, m) THEN r ELSE f, s, ~Edge(d, m), [n EXCEPT ![k] = m])

LEMMA AggregateWorks ==
    ASSUME NEW f, NEW s, NEW b, NEW d, NEW n, NEW k \in {"node", "cluster", "leaf"}, NEW r
    PROVE  AggregateMakes(Aggregate(Work(f, s, b, n), d, k, r), f, s, d, n, k, r)
<1> DEFINE m == (n[k] + d) % CountModulus
           w == Work(f, s, b, n)
           g == IF Edge(d, m) THEN r ELSE f
           l == [n EXCEPT ![k] = m]
<1>1. w.counts = n /\ w.filter = f
  BY DEF Work
<1> HIDE DEF l, g, m
<1>2. Aggregate(w, d, k, r) = [[[w EXCEPT !.counts = l] EXCEPT !.filter = g] EXCEPT !.drop = ~Edge(d, m)]
  <2> HIDE DEF w
  <2>1. [w EXCEPT !.counts = l].filter = f
    BY <1>1
  <2> QED
    BY <1>1, <2>1, Zenon DEF Aggregate, Edge, l, g, m
<1>3. [w EXCEPT !.counts = l] = Work(f, s, b, l)
  BY DEF Work
<1>4. [Work(f, s, b, l) EXCEPT !.filter = g] = Work(g, s, b, l)
  BY DEF Work
<1>5. [Work(g, s, b, l) EXCEPT !.drop = ~Edge(d, m)] = Work(g, s, ~Edge(d, m), l)
  BY DEF Work
<1> HIDE DEF w
<1>6. Aggregate(w, d, k, r) = Work(g, s, ~Edge(d, m), l)
  BY <1>2, <1>3, <1>4, <1>5, Zenon
<1> QED
  BY <1>6, Zenon DEF w, l, g, m, AggregateMakes

\* A filter is its two sets of constraints.
IsFilter(f) == f = [required |-> f.required, optional |-> f.optional]

LEMMA RuleIsFilter ==
    ASSUME NEW C
    PROVE  /\ IsFilter(Rule(C)) /\ Trimmed(Rule(C)) = Rule(C)
           /\ Rule(C).required = C
  BY DEF IsFilter, Rule, Trimmed

LEMMA TrimmedFilter ==
    ASSUME NEW f, IsFilter(f)
    PROVE  /\ Trimmed(f) = [required |-> f.required, optional |-> f.optional \ {NodeEq}]
           /\ Trimmed(f).required = f.required
           /\ Trimmed(f).optional = f.optional \ {NodeEq}
  BY DEF IsFilter, Trimmed, NodeEq

\* The first three processors.
ForeMakes(w, f, s, d, n) ==
    LET a == (n["node"] + d) % CountModulus
        c == (n["cluster"] + d) % CountModulus
        na == [n EXCEPT !["node"] = a]
        nc == [n EXCEPT !["cluster"] = c]
    IN  /\ OwnOnly(f) => w = Work(f, s, TRUE, n)
        /\ ByNode(f) => w = IF Edge(d, a) THEN Work(Rule({NodeEq}), s, FALSE, na)
                            ELSE Work(f, s, TRUE, na)
        /\ ByCluster(f) => w = IF Edge(d, c) THEN Work(Rule({Label}), s, FALSE, nc)
                               ELSE Work(f, s, TRUE, nc)
        /\ ~OwnOnly(f) /\ ~ByNode(f) /\ ~ByCluster(f) => w = Work(f, s, FALSE, n)

LEMMA ForeWorks ==
    ASSUME NEW f, NEW s, NEW d, NEW n
    PROVE  ForeMakes(Fore(f, s, d, n), f, s, d, n)
<1> DEFINE w0 == Work(f, s, FALSE, n)
           w1 == NodeLocalFilterDrop(w0, d)
           w2 == IF w1.drop THEN w1 ELSE NodeIdAggregator(w1, d)
           w3 == IF w2.drop THEN w2 ELSE ClusterAggregator(w2, d)
           a == (n["node"] + d) % CountModulus
           c == (n["cluster"] + d) % CountModulus
           na == [n EXCEPT !["node"] = a]
           nc == [n EXCEPT !["cluster"] = c]
<1>1. w3 = Fore(f, s, d, n)
  BY Zenon DEF Fore
<1>2. w1 = Work(f, s, OwnOnly(f), n)
  BY DEF NodeLocalFilterDrop, DropIf, Work, OwnOnly
<1>3. ASSUME NEW w, NEW g, NEW b, NEW k, w = Work(g, s, b, k)
      PROVE  w.filter = g /\ w.drop = b /\ w.counts = k
  BY <1>3 DEF Work
<1> HIDE DEF w1
<1>4. w1.drop = OwnOnly(f) /\ w1.filter = f
  BY <1>2, <1>3, Zenon
<1> HIDE DEF a, c, na, nc
<1>5. CASE OwnOnly(f)
  <2>1. w1 = Work(f, s, TRUE, n) /\ w1.drop
    BY <1>2, <1>4, <1>5, Zenon
  <2>2. w3 = w1
    BY <2>1, Zenon
  <2> QED
    BY <1>1, <1>5, <2>1, <2>2, Zenon DEF ForeMakes, ByNode, ByCluster
<1>6. CASE ByNode(f)
  <2>1. ~w1.drop /\ NodeEq \in w1.filter.required
    BY <1>4, <1>6, Zenon DEF ByNode
  <2>2. w2 = Aggregate(w1, d, "node", Rule({NodeEq}))
    BY <2>1, Zenon DEF NodeIdAggregator, NodeEq
  <2>3. AggregateMakes(w2, f, s, d, n, "node", Rule({NodeEq}))
    <3>1. "node" \in {"node", "cluster", "leaf"}
      OBVIOUS
    <3> HIDE DEF w2
    <3> QED
      BY <1>2, <2>2, <3>1, AggregateWorks, Zenon
  <2> HIDE DEF w2
  <2>4. w2 = Work(IF Edge(d, a) THEN Rule({NodeEq}) ELSE f, s, ~Edge(d, a), na)
    BY <2>3, Zenon DEF AggregateMakes, a, na
  <2>5. CASE Edge(d, a)
    <3>1. w2 = Work(Rule({NodeEq}), s, FALSE, na)
      BY <2>4, <2>5, Zenon
    <3>2. w2.drop = FALSE /\ w2.filter = Rule({NodeEq})
      BY <1>3, <3>1, Zenon
    <3>3. Label \notin w2.filter.required
      BY <3>2, ProcessorAssumption, RuleIsFilter DEF NodeEq, Eq
    <3>4. w3 = w2
      BY <3>2, <3>3, Zenon DEF ClusterAggregator
    <3> QED
      BY <1>1, <1>6, <2>5, <3>1, <3>4, Zenon DEF ForeMakes, ByNode, ByCluster, a, na
  <2>6. CASE ~Edge(d, a)
    <3>1. w2 = Work(f, s, TRUE, na)
      BY <2>4, <2>6, Zenon
    <3>2. w2.drop
      BY <3>1 DEF Work
    <3>3. w3 = w2
      BY <3>2, Zenon
    <3> QED
      BY <1>1, <1>6, <2>6, <3>1, <3>3, Zenon DEF ForeMakes, ByNode, ByCluster, a, na
  <2> QED
    BY <2>5, <2>6, Zenon
<1>7. CASE ~OwnOnly(f) /\ ~ByNode(f)
  <2>1. w1 = Work(f, s, FALSE, n) /\ ~w1.drop /\ w1.filter = f
    <3>1. OwnOnly(f) = FALSE
      BY <1>7 DEF OwnOnly
    <3> QED
      BY <1>2, <1>4, <3>1, Zenon
  <2>2. w2 = w1
    BY <1>7, <2>1, Zenon DEF NodeIdAggregator, ByNode, NodeEq
  <2> HIDE DEF w2
  <2>3. CASE ByCluster(f)
    <3>1. w3 = Aggregate(w1, d, "cluster", Rule({Label}))
      BY <2>1, <2>2, <2>3, Zenon DEF ClusterAggregator, ByCluster
    <3>2. AggregateMakes(w3, f, s, d, n, "cluster", Rule({Label}))
      <4>1. "cluster" \in {"node", "cluster", "leaf"}
        OBVIOUS
      <4> HIDE DEF w3
      <4> QED
        BY <1>2, <3>1, <4>1, AggregateWorks, Zenon
    <3> HIDE DEF w3
    <3>3. w3 = Work(IF Edge(d, c) THEN Rule({Label}) ELSE f, s, ~Edge(d, c), nc)
      BY <3>2, Zenon DEF AggregateMakes, c, nc
    <3>4. w3 = IF Edge(d, c) THEN Work(Rule({Label}), s, FALSE, nc) ELSE Work(f, s, TRUE, nc)
      <4>1. CASE Edge(d, c)
        BY <3>3, <4>1, Zenon
      <4>2. CASE ~Edge(d, c)
        BY <3>3, <4>2, Zenon
      <4> QED
        BY <4>1, <4>2, Zenon
    <3> QED
      BY <1>1, <1>7, <2>3, <3>4, Zenon DEF ForeMakes, c, nc
  <2>4. CASE ~ByCluster(f)
    <3>1. w3 = w1
      BY <1>7, <2>1, <2>2, <2>4, Zenon DEF ClusterAggregator, ByCluster, ByNode
    <3> QED
      BY <1>1, <1>7, <2>1, <2>4, <3>1, Zenon DEF ForeMakes
  <2> QED
    BY <2>3, <2>4, Zenon
<1> QED
  BY <1>5, <1>6, <1>7, Zenon

\* The other four processors, on what the first three let through.
AftMakes(w, f, s, n) ==
    /\ w.counts = n
    /\ w.drop <=> ~(Crosses(f) /\ InScope(s))
    /\ ~w.drop => w = Work(Trimmed(f), s, FALSE, n)

LEMMA AftWorks ==
    ASSUME NEW f, NEW s, NEW d, NEW n
    PROVE  AftMakes(Aft(Work(f, s, FALSE, n), d), f, s, n)
<1> DEFINE w3 == Work(f, s, FALSE, n)
           w4 == IF w3.drop THEN w3 ELSE ClusterBarrier(w3, d)
           w5 == IF w4.drop THEN w4 ELSE ScopeLocal(w4, d)
           w6 == IF w5.drop THEN w5 ELSE ScopeCluster(w5, d)
           w7 == IF w6.drop THEN w6 ELSE OptionalConstraintDrop(w6, d)
<1>1. w7 = Aft(Work(f, s, FALSE, n), d)
  BY Zenon DEF Aft
<1>2. ASSUME NEW b \in BOOLEAN
      PROVE  LET w == Work(f, s, b, n)
             IN  /\ w.filter = f /\ w.args = s /\ w.drop = b /\ w.counts = n
                 /\ \A c \in BOOLEAN : DropIf(w, c) = Work(f, s, c, n)
  BY DEF Work, DropIf
<1>3. w4 = Work(f, s, ~Crosses(f), n)
  BY <1>2, Zenon DEF ClusterBarrier, Crosses
<1> HIDE DEF w4
<1>4. CASE ~Crosses(f)
  <2>1. w4 = Work(f, s, TRUE, n)
    BY <1>3, <1>4, Zenon
  <2>2. w4.drop /\ w4.counts = n
    BY <1>2, <2>1, Zenon
  <2>3. w7 = w4
    BY <2>2, Zenon
  <2> QED
    BY <1>1, <1>4, <2>2, <2>3, Zenon DEF AftMakes
<1>5. CASE Crosses(f) /\ s.scope = "LOCAL"
  <2>1. w4 = Work(f, s, FALSE, n)
    BY <1>3, <1>5, Zenon
  <2>2. ~w4.drop /\ w4.args = s /\ DropIf(w4, TRUE) = Work(f, s, TRUE, n)
    BY <1>2, <2>1, Zenon
  <2>3. w5 = Work(f, s, TRUE, n)
    BY <1>5, <2>2, Zenon DEF ScopeLocal
  <2> HIDE DEF w5
  <2>4. w5.drop /\ w5.counts = n
    BY <1>2, <2>3, Zenon
  <2>5. w7 = w5
    BY <2>4, Zenon
  <2> QED
    BY <1>1, <1>5, <2>4, <2>5, Zenon DEF AftMakes, InScope
<1>6. CASE Crosses(f) /\ s.scope # "LOCAL"
  <2>1. w4 = Work(f, s, FALSE, n)
    BY <1>3, <1>6, Zenon
  <2>2. ~w4.drop /\ w4.args = s /\ DropIf(w4, FALSE) = Work(f, s, FALSE, n)
    BY <1>2, <2>1, Zenon
  <2>3. w5 = Work(f, s, FALSE, n)
    BY <1>6, <2>2, Zenon DEF ScopeLocal
  <2> HIDE DEF w5
  <2>4. /\ ~w5.drop /\ w5.args = s /\ DropIf(w5, FALSE) = Work(f, s, FALSE, n)
        /\ DropIf(w5, TRUE) = Work(f, s, TRUE, n)
    BY <1>2, <2>3, Zenon
  <2>5. CASE ~InScope(s)
    <3>1. w6 = Work(f, s, TRUE, n)
      BY <1>6, <2>4, <2>5, Zenon DEF ScopeCluster, InScope
    <3> HIDE DEF w6
    <3>2. w6.drop /\ w6.counts = n
      BY <1>2, <3>1, Zenon
    <3>3. w7 = w6
      BY <3>2, Zenon
    <3> QED
      BY <1>1, <2>5, <3>2, <3>3, Zenon DEF AftMakes
  <2>6. CASE InScope(s)
    <3>1. w6 = Work(f, s, FALSE, n)
      BY <1>6, <2>4, <2>6, Zenon DEF ScopeCluster, InScope
    <3>2. OptionalConstraintDrop(Work(f, s, FALSE, n), d) = Work(Trimmed(f), s, FALSE, n)
      <4>1. ASSUME NEW b
            PROVE  OptionalConstraintDrop(Work(f, s, b, n), d) = Work(Trimmed(f), s, b, n)
        BY DEF OptionalConstraintDrop, Work, Trimmed
      <4> QED
        BY <4>1, Zenon
    <3>3. w7 = Work(Trimmed(f), s, FALSE, n)
      <4> HIDE DEF w6
      <4> QED
        BY <1>2, <3>1, <3>2, Zenon
    <3> HIDE DEF w7
    <3>4. w7.counts = n /\ ~w7.drop
      BY <3>3 DEF Work
    <3> QED
      BY <1>1, <1>6, <2>6, <3>3, <3>4, Zenon DEF AftMakes
  <2> QED
    BY <2>5, <2>6, Zenon
<1> QED
  BY <1>4, <1>5, <1>6, Zenon

\* What the connection tells the peer, by how the subscription is aggregated.
EgressMakes(w, f, s, d, n) ==
    LET a == (n["node"] + d) % CountModulus
        c == (n["cluster"] + d) % CountModulus
    IN  /\ OwnOnly(f) => w.drop /\ w.counts = n
        /\ ByNode(f) => /\ w.counts = [n EXCEPT !["node"] = a]
                        /\ ~w.drop <=> Edge(d, a) /\ peer.labels /\ InScope(s)
        /\ ByCluster(f) => /\ w.counts = [n EXCEPT !["cluster"] = c]
                           /\ ~w.drop <=> Edge(d, c) /\ InScope(s)
        /\ ~OwnOnly(f) /\ ~ByNode(f) /\ ~ByCluster(f) =>
               w.counts = n /\ (~w.drop <=> Crosses(f) /\ InScope(s))
        /\ ~w.drop => w = Work(Wider(f), s, FALSE, w.counts)

LEMMA EgressWorks ==
    ASSUME NEW f, NEW s, NEW d, NEW n
    PROVE  EgressMakes(Egress(f, s, d, n), f, s, d, n)
<1> DEFINE w3 == Fore(f, s, d, n)
           w == Aft(w3, d)
           a == (n["node"] + d) % CountModulus
           c == (n["cluster"] + d) % CountModulus
           na == [n EXCEPT !["node"] = a]
           nc == [n EXCEPT !["cluster"] = c]
<1>1. w = Egress(f, s, d, n)
  BY Zenon DEF Egress
<1>2. /\ OwnOnly(f) => w3 = Work(f, s, TRUE, n)
      /\ ByNode(f) => w3 = IF Edge(d, a) THEN Work(Rule({NodeEq}), s, FALSE, na)
                           ELSE Work(f, s, TRUE, na)
      /\ ByCluster(f) => w3 = IF Edge(d, c) THEN Work(Rule({Label}), s, FALSE, nc)
                              ELSE Work(f, s, TRUE, nc)
      /\ ~OwnOnly(f) /\ ~ByNode(f) /\ ~ByCluster(f) => w3 = Work(f, s, FALSE, n)
  <2>1. ForeMakes(w3, f, s, d, n)
    BY ForeWorks, Zenon
  <2> QED
    BY <2>1, Zenon DEF ForeMakes
<1> HIDE DEF w3
<1>3. ASSUME NEW k, w3 = Work(f, s, TRUE, k) PROVE w.drop /\ w.counts = k
  <2>1. w3.drop /\ w3.counts = k
    BY <1>3 DEF Work
  <2> QED
    BY <2>1, Zenon DEF Aft
<1>4. ASSUME NEW g, NEW k, w3 = Work(g, s, FALSE, k) PROVE AftMakes(w, g, s, k)
  BY <1>4, AftWorks, Zenon
<1>5. NodeEq \in Addressees(Rule({NodeEq})) /\ Addressees(Rule({Label})) = {}
  BY RuleIsFilter, ProcessorAssumption DEF Addressees, NodeEq, Eq
<1>6. /\ Crosses(Rule({NodeEq})) <=> peer.labels
      /\ Crosses(Rule({Label}))
  BY <1>5, Zenon DEF Crosses
<1>7. Trimmed(Rule({NodeEq})) = Rule({NodeEq}) /\ Trimmed(Rule({Label})) = Rule({Label})
  BY RuleIsFilter
<1> HIDE DEF w, a, c, na, nc
<1>8. CASE OwnOnly(f)
  <2>1. w.drop /\ w.counts = n
    BY <1>2, <1>3, <1>8, Zenon
  <2> QED
    BY <1>1, <1>8, <2>1, Zenon DEF ByNode, ByCluster, EgressMakes
<1>9. CASE ByNode(f)
  <2>1. CASE Edge(d, a)
    <3>1. w3 = Work(Rule({NodeEq}), s, FALSE, na) /\ Wider(f) = Rule({NodeEq})
      BY <1>2, <1>9, <2>1, Zenon DEF Wider
    <3>2. AftMakes(w, Rule({NodeEq}), s, na)
      BY <1>4, <3>1, Zenon
    <3>3. /\ w.counts = na
          /\ ~w.drop <=> peer.labels /\ InScope(s)
          /\ ~w.drop => w = Work(Wider(f), s, FALSE, w.counts)
      BY <1>6, <1>7, <3>1, <3>2, Zenon DEF AftMakes
    <3> QED
      BY <1>1, <1>9, <2>1, <3>3, Zenon DEF ByNode, ByCluster, EgressMakes, a, na
  <2>2. CASE ~Edge(d, a)
    <3>1. w3 = Work(f, s, TRUE, na)
      BY <1>2, <1>9, <2>2, Zenon
    <3>2. w.drop /\ w.counts = na
      BY <1>3, <3>1, Zenon
    <3> QED
      BY <1>1, <1>9, <2>2, <3>2, Zenon DEF ByNode, ByCluster, EgressMakes, a, na
  <2> QED
    BY <2>1, <2>2, Zenon
<1>10. CASE ByCluster(f)
  <2>1. CASE Edge(d, c)
    <3>1. w3 = Work(Rule({Label}), s, FALSE, nc) /\ Wider(f) = Rule({Label})
      BY <1>2, <1>10, <2>1, Zenon DEF Wider, ByNode, ByCluster
    <3>2. AftMakes(w, Rule({Label}), s, nc)
      BY <1>4, <3>1, Zenon
    <3>3. /\ w.counts = nc
          /\ ~w.drop <=> InScope(s)
          /\ ~w.drop => w = Work(Wider(f), s, FALSE, w.counts)
      BY <1>6, <1>7, <3>1, <3>2, Zenon DEF AftMakes
    <3> QED
      BY <1>1, <1>10, <2>1, <3>3, Zenon DEF ByNode, ByCluster, EgressMakes, c, nc
  <2>2. CASE ~Edge(d, c)
    <3>1. w3 = Work(f, s, TRUE, nc)
      BY <1>2, <1>10, <2>2, Zenon
    <3>2. w.drop /\ w.counts = nc
      BY <1>3, <3>1, Zenon
    <3> QED
      BY <1>1, <1>10, <2>2, <3>2, Zenon DEF ByNode, ByCluster, EgressMakes, c, nc
  <2> QED
    BY <2>1, <2>2, Zenon
<1>11. CASE ~OwnOnly(f) /\ ~ByNode(f) /\ ~ByCluster(f)
  <2>1. w3 = Work(f, s, FALSE, n) /\ Wider(f) = Trimmed(f)
    BY <1>2, <1>11, Zenon DEF Wider
  <2>2. AftMakes(w, f, s, n)
    BY <1>4, <2>1, Zenon
  <2>3. /\ w.counts = n /\ (~w.drop <=> Crosses(f) /\ InScope(s))
        /\ ~w.drop => w = Work(Wider(f), s, FALSE, w.counts)
    BY <2>1, <2>2, Zenon DEF AftMakes
  <2> QED
    BY <1>1, <1>11, <2>3, Zenon DEF EgressMakes
<1> QED
  BY <1>8, <1>9, <1>10, <1>11, Zenon

(***************************************************************************)
(* The rules that stand for a set of subscriptions, when one comes or      *)
(* goes.                                                                   *)
(***************************************************************************)
Uses == used \in SUBSET (SFilter \X Arguments)

\* The filters in use are filters.
LEMMA UsedFilters ==
    ASSUME Uses, NEW x \in used
    PROVE  x = <<x[1], x[2]>> /\ x[1] \in SFilter /\ x[2] \in Arguments /\ IsFilter(x[1])
  BY ProcessorAssumption DEF Uses, IsFilter

LEMMA KeptFilters ==
    ASSUME Uses, NEW x \in Kept
    PROVE  x = <<x[1], x[2]>> /\ IsFilter(x[1])
  BY UsedFilters DEF Kept

\* What a subscription that is sent has in common with one that it shares a rule with.
LEMMA SharesRule ==
    ASSUME Uses, Uniform, NEW x \in Kept, NEW y \in Kept, Sent(x), Sent(y), Wide(x) = Wide(y)
    PROVE  \/ x = y
           \/ ByNode(x[1]) /\ ByNode(y[1])
           \/ ByCluster(x[1]) /\ ByCluster(y[1])
<1>1. /\ x = <<x[1], x[2]>> /\ y = <<y[1], y[2]>> /\ IsFilter(x[1]) /\ IsFilter(y[1])
  BY KeptFilters
<1>2. Wider(x[1]) = Wider(y[1]) /\ x[2] = y[2]
  BY DEF Wide
<1>3. ASSUME NEW z \in Kept, Sent(z), Wider(z[1]) = Rule({NodeEq}) PROVE ByNode(z[1])
  <2>1. IsFilter(z[1]) /\ ~OwnOnly(z[1])
    BY <1>3, KeptFilters DEF Sent
  <2>2. SUFFICES ASSUME ~ByNode(z[1]) PROVE FALSE
    OBVIOUS
  <2>3. CASE ByCluster(z[1])
    <3>1. Rule({Label}) = Rule({NodeEq})
      BY <1>3, <2>2, <2>3 DEF Wider
    <3>2. Label = NodeEq
      BY <3>1, RuleIsFilter
    <3> QED
      BY <3>2, ProcessorAssumption DEF NodeEq, Eq
  <2>4. CASE ~ByCluster(z[1])
    <3>1. Trimmed(z[1]) = Rule({NodeEq})
      BY <1>3, <2>2, <2>4 DEF Wider
    <3>2. z[1].required = {NodeEq}
      BY <2>1, <3>1, TrimmedFilter, RuleIsFilter
    <3> QED
      BY <2>1, <2>2, <3>2 DEF ByNode
  <2> QED
    BY <2>3, <2>4
<1>4. ASSUME NEW z \in Kept, Sent(z), ~peer.labels, Wider(z[1]) = Rule({Label})
      PROVE  ByCluster(z[1])
  <2>1. IsFilter(z[1]) /\ ~OwnOnly(z[1])
    BY <1>4, KeptFilters DEF Sent
  <2>2. Label # NodeEq
    BY ProcessorAssumption DEF NodeEq, Eq
  <2>3. ~ByNode(z[1])
    BY <1>4, <2>2, RuleIsFilter DEF Wider
  <2>4. SUFFICES ASSUME ~ByCluster(z[1]) PROVE FALSE
    OBVIOUS
  <2>5. Trimmed(z[1]) = Rule({Label})
    BY <1>4, <2>3, <2>4 DEF Wider
  <2>6. z[1].required = {Label}
    BY <2>1, <2>5, TrimmedFilter, RuleIsFilter
  <2> QED
    BY <1>4, <2>1, <2>2, <2>4, <2>6 DEF ByCluster
<1>5. CASE ByNode(x[1]) \/ ByNode(y[1])
  BY <1>2, <1>3, <1>5 DEF Wider
<1>6. CASE ~ByNode(x[1]) /\ ~ByNode(y[1]) /\ (ByCluster(x[1]) \/ ByCluster(y[1]))
  <2>1. ~peer.labels
    BY <1>6 DEF ByCluster
  <2> QED
    BY <1>2, <1>4, <1>6, <2>1 DEF Wider
<1>7. CASE ~ByNode(x[1]) /\ ~ByNode(y[1]) /\ ~ByCluster(x[1]) /\ ~ByCluster(y[1])
  <2>1. Trimmed(x[1]) = Trimmed(y[1])
    BY <1>2, <1>7 DEF Wider
  <2>2. x[1] = y[1]
    BY <1>2, <2>1 DEF Uniform
  <2> QED
    BY <1>1, <1>2, <2>2
<1> QED
  BY <1>5, <1>6, <1>7

\* Subscriptions of one aggregate are sent together, as one rule.
LEMMA AggregatesAgree ==
    ASSUME Uniform, NEW x \in Kept, NEW y \in Kept, Sent(x),
           (ByNode(x[1]) /\ ByNode(y[1])) \/ (ByCluster(x[1]) /\ ByCluster(y[1]))
    PROVE  Sent(y) /\ Wide(y) = Wide(x)
<1>1. x[1].required \cap y[1].required \cap Aggregated # {}
  BY DEF ByNode, ByCluster, Aggregated, NodeEq
<1>2. x[2] = y[2]
  BY <1>1 DEF Uniform, Pooled
<1>3. CASE ByNode(x[1]) /\ ByNode(y[1])
  <2>1. NodeEq \in Addressees(x[1]) /\ ~ByCluster(x[1])
    BY <1>3 DEF ByNode, ByCluster, Addressees, NodeEq, Eq
  <2>2. peer.labels
    BY <2>1 DEF Sent, Crosses
  <2> QED
    BY <1>2, <1>3, <2>2 DEF Sent, Crosses, ByNode, Wide, Wider
<1>4. CASE ByCluster(x[1]) /\ ByCluster(y[1])
  BY <1>2, <1>4 DEF Sent, ByCluster, ByNode, Wide, Wider
<1> QED
  BY <1>3, <1>4

\* A subscription brings a rule that was not there, unless its aggregate has others.
LEMMA ToldFresh ==
    ASSUME Uses, Uniform, NEW Q \in SUBSET Kept, NEW x \in Kept, x \notin Q, Sent(x)
    PROVE  Wide(x) \in Told(Q) <=> \/ ByNode(x[1]) /\ Noded(Q) # {}
                                   \/ ByCluster(x[1]) /\ Clustered(Q) # {}
<1>1. ASSUME Wide(x) \in Told(Q)
      PROVE  \/ ByNode(x[1]) /\ Noded(Q) # {}
             \/ ByCluster(x[1]) /\ Clustered(Q) # {}
  <2>1. PICK y \in Q : Sent(y) /\ Wide(x) = Wide(y)
    BY <1>1 DEF Told
  <2>2. \/ ByNode(x[1]) /\ ByNode(y[1])
        \/ ByCluster(x[1]) /\ ByCluster(y[1])
    BY <2>1, SharesRule
  <2> QED
    BY <2>2 DEF Noded, Clustered
<1>2. ASSUME \/ ByNode(x[1]) /\ Noded(Q) # {}
             \/ ByCluster(x[1]) /\ Clustered(Q) # {}
      PROVE  Wide(x) \in Told(Q)
  <2>1. \E y \in Q : (ByNode(x[1]) /\ ByNode(y[1])) \/ (ByCluster(x[1]) /\ ByCluster(y[1]))
    <3>1. CASE ByNode(x[1]) /\ Noded(Q) # {}
      <4>1. PICK y \in Q : ByNode(y[1])
        BY <3>1 DEF Noded
      <4> QED
        BY <3>1, <4>1, Zenon
    <3>2. CASE ByCluster(x[1]) /\ Clustered(Q) # {}
      <4>1. PICK y \in Q : ByCluster(y[1])
        BY <3>2 DEF Clustered
      <4> QED
        BY <3>2, <4>1, Zenon
    <3> QED
      BY <1>2, <3>1, <3>2, Zenon
  <2>2. PICK y \in Q : (ByNode(x[1]) /\ ByNode(y[1])) \/ (ByCluster(x[1]) /\ ByCluster(y[1]))
    BY <2>1, Zenon
  <2>3. Sent(y) /\ Wide(y) = Wide(x)
    BY <2>2, AggregatesAgree, SMTT(30)
  <2> QED
    BY <2>3 DEF Told
<1> QED
  BY <1>1, <1>2

\* Told, as subscriptions come and go.
LEMMA ToldAdds ==
    ASSUME NEW Q, NEW x
    PROVE  Told(Q \cup {x}) = IF Sent(x) THEN Told(Q) \cup {Wide(x)} ELSE Told(Q)
  BY DEF Told

\* The rules are finitely many, no more than the subscriptions.
LEMMA ToldFinite ==
    ASSUME NEW P, IsFiniteSet(P)
    PROVE  IsFiniteSet(Told(P)) /\ Cardinality(Told(P)) <= Cardinality(P)
<1> DEFINE S == {y \in P : Sent(y)}
           g == [y \in S |-> Wide(y)]
<1>1. S \in SUBSET P
  OBVIOUS
<1>2. IsFiniteSet(S) /\ Cardinality(S) <= Cardinality(P)
  BY <1>1, FS_Subset
<1>3. g \in Surjection(S, Told(P))
  BY DEF Surjection, Told
<1>4. IsFiniteSet(Told(P)) /\ Cardinality(Told(P)) <= Cardinality(S)
  BY <1>2, <1>3, FS_Surjection
<1>5. Cardinality(P) \in Nat /\ Cardinality(S) \in Nat /\ Cardinality(Told(P)) \in Nat
  BY <1>2, <1>4, FS_CardinalityType
<1> HIDE DEF S
<1> QED
  BY <1>2, <1>4, <1>5

\* All that a leaf gates has the same arguments, and none of its rules is there without it.
LEMMA GatedAlike ==
    ASSUME Uses, Uniform, NEW P \in SUBSET Kept
    PROVE  /\ \A m, k \in Gated(Told(P)) : m[2] = k[2]
           /\ peer.leaf => \A m \in Told(P) : m[1] # LeafRule
<1>1. ASSUME NEW m \in Gated(Told(P))
      PROVE  \E x \in P : ForOthers(x[1]) /\ peer.leaf /\ x[2] = m[2]
  <2>1. PICK x \in P : Sent(x) /\ m = Wide(x)
    BY <1>1 DEF Gated, Told
  <2>2. ForOthers(Wider(x[1])) /\ x[2] = m[2] /\ peer.leaf
    BY <1>1, <2>1 DEF Gated, Wide
  <2>3. CASE ByNode(x[1])
    <3>1. NodeEq \in Addressees(x[1]) /\ NodeEq.value # PeerId
      BY <2>3, ProcessorAssumption DEF ByNode, Addressees, NodeEq, Eq
    <3> QED
      BY <2>2, <3>1 DEF ForOthers
  <2>4. CASE ~ByNode(x[1]) /\ ByCluster(x[1])
    <3>1. Addressees(Wider(x[1])) = {}
      BY <2>4, RuleIsFilter, ProcessorAssumption DEF Wider, Addressees
    <3> QED
      BY <2>2, <3>1 DEF ForOthers
  <2>5. CASE ~ByNode(x[1]) /\ ~ByCluster(x[1])
    <3>1. Wider(x[1]).required = x[1].required
      BY <2>5, KeptFilters, TrimmedFilter DEF Wider
    <3> QED
      BY <2>2, <3>1 DEF ForOthers, Addressees
  <2> QED
    BY <2>3, <2>4, <2>5
<1>2. ASSUME NEW m \in Gated(Told(P)), NEW k \in Gated(Told(P)) PROVE m[2] = k[2]
  <2>1. PICK x \in P : ForOthers(x[1]) /\ peer.leaf /\ x[2] = m[2]
    BY <1>1
  <2>2. PICK y \in P : ForOthers(y[1]) /\ peer.leaf /\ y[2] = k[2]
    BY <1>1
  <2>3. x[2] = y[2]
    BY <2>1, <2>2 DEF Uniform, Pooled
  <2> QED
    BY <2>1, <2>2, <2>3
<1>3. ASSUME peer.leaf, NEW m \in Told(P) PROVE m[1] # LeafRule
  <2>1. PICK x \in P : Sent(x) /\ m = Wide(x)
    BY DEF Told
  <2>2. m[1] = Wider(x[1]) /\ x \in Kept
    BY <2>1 DEF Wide
  <2>3. Ne("node_id", PeerId) # NodeEq /\ Ne("node_id", PeerId) # Label
    BY ProcessorAssumption DEF NodeEq, Eq, Ne
  <2>4. Rule({NodeEq}) # LeafRule /\ Rule({Label}) # LeafRule
    BY <2>3, RuleIsFilter DEF LeafRule
  <2>5. Trimmed(x[1]) # LeafRule
    BY <1>3, <2>2 DEF Uniform
  <2> QED
    BY <2>2, <2>4, <2>5 DEF Wider
<1> QED
  BY <1>2, <1>3

Counts == [node : Nat, cluster : Nat, leaf : Nat]

\* The leaf's processor, on a rule m that comes or goes.
LeafTold(T, g, s, n, d) ==
    /\ n \in Counts /\ d \in {1, -1}
    /\ IsFiniteSet(T) /\ <<g, s>> \notin T /\ Cardinality(T) + 1 < CountModulus
    /\ \A m, k \in Gated(T \cup {<<g, s>>}) : m[2] = k[2]
    /\ peer.leaf => \A m \in T \cup {<<g, s>>} : m[1] # LeafRule
    /\ n["leaf"] = Cardinality(Gated(IF d = 1 THEN T ELSE T \cup {<<g, s>>}))

LeafMakes(w, T, M, s, n, d) ==
    /\ w.counts \in Counts
    /\ w.counts["node"] = n["node"] /\ w.counts["cluster"] = n["cluster"]
    /\ w.counts["leaf"] = Cardinality(Gated(IF d = 1 THEN M ELSE T))
    /\ AtPeer(M) = IF w.drop THEN AtPeer(T) ELSE AtPeer(T) \cup {<<w.filter, s>>}
    /\ AtPeer(T) = IF w.drop THEN AtPeer(M) ELSE AtPeer(M) \ {<<w.filter, s>>}

LEMMA LeafWorks ==
    ASSUME NEW T, NEW g, NEW s, NEW n, NEW d, LeafTold(T, g, s, n, d)
    PROVE  LeafMakes(LeafNodeIdGateway(Work(g, s, FALSE, n), d), T, T \cup {<<g, s>>}, s, n, d)
<1> DEFINE m == <<g, s>>
           M == T \cup {m}
           w0 == Work(g, s, FALSE, n)
           w == LeafNodeIdGateway(w0, d)
<1>0. /\ n \in Counts /\ d \in {1, -1}
      /\ IsFiniteSet(T) /\ Cardinality(T) + 1 < CountModulus
      /\ n["leaf"] = Cardinality(Gated(IF d = 1 THEN T ELSE M))
  BY Zenon DEF LeafTold
<1>1. w0.filter = g /\ w0.counts = n /\ w0.drop = FALSE
  BY DEF Work
<1>2. /\ T \subseteq M /\ m[1] = g /\ m[2] = s /\ m \notin T
      /\ \A k, l \in Gated(M) : k[2] = l[2]
      /\ peer.leaf => \A k \in M : k[1] # LeafRule
  BY SMTT(30) DEF LeafTold
<1>3. /\ IsFiniteSet(Gated(T)) /\ Cardinality(Gated(T)) \in Nat
      /\ Cardinality(Gated(T)) <= Cardinality(T) /\ Cardinality(T) \in Nat
  <2>1. Gated(T) \in SUBSET T
    BY DEF Gated
  <2>2. IsFiniteSet(Gated(T)) /\ Cardinality(Gated(T)) <= Cardinality(T)
    BY <1>0, <2>1, FS_Subset
  <2> QED
    BY <1>0, <2>2, FS_CardinalityType
<1>4. CountModulus \in Nat
  BY ProcessorAssumption
<1>5. CASE ~(peer.leaf /\ ForOthers(g))
  <2>1. w = w0
    BY <1>1, <1>5, Zenon DEF LeafNodeIdGateway
  <2>2. Gated(M) = Gated(T)
    BY <1>2, <1>5 DEF Gated
  <2>3. AtPeer(M) = AtPeer(T) \cup {m}
    BY <1>2, <1>5, <2>2 DEF AtPeer
  <2>4. m \notin AtPeer(T)
    <3>1. \A k \in Gated(T) : <<LeafRule, k[2]>> # m
      BY <1>2 DEF Gated
    <3> QED
      BY <1>2, <3>1 DEF AtPeer
  <2>5. AtPeer(T) = AtPeer(M) \ {m}
    BY <2>3, <2>4
  <2>6. n["leaf"] = Cardinality(Gated(T)) /\ n \in Counts
    BY <1>0, <2>2
  <2>7. w.counts = n /\ ~w.drop /\ w.filter = g
    BY <1>1, <2>1, Zenon
  <2> HIDE DEF w, M
  <2> QED
    BY <2>2, <2>3, <2>5, <2>6, <2>7, Zenon DEF w, M, LeafMakes
<1>6. CASE peer.leaf /\ ForOthers(g)
  <2> DEFINE e == (n["leaf"] + d) % CountModulus
  <2>1. w = Work(IF Edge(d, e) THEN LeafRule ELSE g, s, ~Edge(d, e), [n EXCEPT !["leaf"] = e])
    <3>1. w = Aggregate(w0, d, "leaf", LeafRule)
      BY <1>1, <1>6, Zenon DEF LeafNodeIdGateway
    <3>2. "leaf" \in {"node", "cluster", "leaf"}
      OBVIOUS
    <3> HIDE DEF w
    <3>3. AggregateMakes(w, g, s, d, n, "leaf", LeafRule)
      BY <3>1, <3>2, AggregateWorks, Zenon
    <3> QED
      BY <3>3, Zenon DEF AggregateMakes
  <2>2. Gated(M) = Gated(T) \cup {m} /\ m \notin Gated(T)
    BY <1>2, <1>6 DEF Gated
  <2>3. Cardinality(Gated(M)) = Cardinality(Gated(T)) + 1
    BY <1>3, <2>2, FS_AddElement, Zenon
  <2>4. n["leaf"] = IF d = 1 THEN Cardinality(Gated(T)) ELSE Cardinality(Gated(T)) + 1
    BY <1>0, <2>3
  <2>5. /\ e = Cardinality(Gated(IF d = 1 THEN M ELSE T))
        /\ Edge(d, e) <=> Cardinality(Gated(T)) = 0
    <3> DEFINE c == Cardinality(Gated(T))
    <3>1. c \in Nat /\ c + 1 < CountModulus /\ c >= 0
      BY <1>0, <1>3, <1>4
    <3> HIDE DEF c
    <3>2. (c + 1) % CountModulus = c + 1 /\ (c + 1 + (-1)) % CountModulus = c
      BY <1>4, <3>1
    <3>3. CASE d = 1
      BY <2>3, <2>4, <3>1, <3>2, <3>3 DEF Edge, c
    <3>4. CASE d = -1
      BY <2>4, <3>1, <3>2, <3>4 DEF Edge, c
    <3> QED
      BY <1>0, <3>3, <3>4
  <2>6. Edge(d, e) <=> Gated(T) = {}
    BY <1>3, <2>5, FS_EmptySet
  <2>7. e \in Nat
    BY <1>3, <2>3, <2>5
  <2> HIDE DEF e
  <2> DEFINE b == ~Edge(d, e)
  <2> HIDE DEF w, b
  <2>8. /\ w.counts = [n EXCEPT !["leaf"] = e] /\ w.drop = b
         /\ w.filter = IF Edge(d, e) THEN LeafRule ELSE g
    BY <2>1 DEF Work, b
  <2>9. /\ w.counts \in Counts /\ w.counts["node"] = n["node"]
        /\ w.counts["cluster"] = n["cluster"] /\ w.counts["leaf"] = e
    BY <1>0, <2>7, <2>8 DEF Counts
  <2>10. CASE Gated(T) = {}
    <3>1. ~w.drop /\ w.filter = LeafRule
      BY <2>6, <2>10, <2>8, Zenon DEF b
    <3>2. AtPeer(T) = T
      BY <2>10 DEF AtPeer, Gated
    <3>3. AtPeer(M) = T \cup {<<LeafRule, s>>}
      <4>1. Gated(M) = {m}
        BY <2>2, <2>10
      <4>2. {k \in M : ~(peer.leaf /\ ForOthers(k[1]))} = T
        BY <1>2, <1>6, <2>10 DEF Gated
      <4> QED
        BY <1>2, <4>1, <4>2, Zenon DEF AtPeer
    <3>4. <<LeafRule, s>> \notin T
      BY <1>2, <1>6
    <3> HIDE DEF w, M
    <3> QED
      <4>1. AtPeer(M) = AtPeer(T) \cup {<<LeafRule, s>>} /\ AtPeer(T) = AtPeer(M) \ {<<LeafRule, s>>}
        BY <3>2, <3>3, <3>4
      <4> QED
        BY <2>5, <2>9, <3>1, <4>1, Zenon DEF w, M, LeafMakes
  <2>11. CASE Gated(T) # {}
    <3>1. w.drop
      BY <2>6, <2>11, <2>8, Zenon DEF b
    <3>2. PICK k \in Gated(T) : TRUE
      BY <2>11
    <3>3. k[2] = s
      BY <1>2, <2>2, <3>2, Zenon
    <3>4. <<LeafRule, s>> \in {<<LeafRule, l[2]>> : l \in Gated(T)}
      BY <3>2, <3>3
    <3>5. {<<LeafRule, l[2]>> : l \in Gated(M)} = {<<LeafRule, l[2]>> : l \in Gated(T)}
      BY <1>2, <2>2, <3>4, ZenonT(30)
    <3>6. {l \in M : ~(peer.leaf /\ ForOthers(l[1]))} = {l \in T : ~(peer.leaf /\ ForOthers(l[1]))}
      BY <1>2, <1>6
    <3>7. AtPeer(M) = AtPeer(T)
      BY <3>5, <3>6, Zenon DEF AtPeer
    <3> HIDE DEF w, M
    <3> QED
      BY <2>5, <2>9, <3>1, <3>7, Zenon DEF w, M, LeafMakes
  <2> QED
    BY <2>10, <2>11, Zenon
<1> QED
  BY <1>5, <1>6, Zenon

(***************************************************************************)
(* The invariant.                                                          *)
(***************************************************************************)
\* The counts are those of the subscriptions P that the aggregates stand for.
ExactFor(P, n) ==
    /\ n \in Counts
    /\ n["node"] = Cardinality(Noded(P)) /\ n["cluster"] = Cardinality(Clustered(P))
    /\ n["leaf"] = Cardinality(Gated(Told(P)))

\* The counts are exact, and the peer has the rules of the subscriptions that there are.
Exact == ExactFor(known, counts) /\ rules = AtPeer(Told(known))

PCInv ==
    /\ Uses /\ IsFiniteSet(used) /\ Cardinality(used) <= MaxSubscribed
    /\ known \in SUBSET Kept
    /\ Uniform /\ Orderly => Exact

\* The count of a set S that becomes R (d = 1), or that R becomes (d = -1).
Counted(S, R, d) ==
    LET l == (Cardinality(IF d = 1 THEN S ELSE R) + d) % CountModulus
    IN  /\ l = Cardinality(IF d = 1 THEN R ELSE S) /\ l \in Nat
        /\ Edge(d, l) <=> S = {}

\* A subscription x comes (d = 1) to the others, Q, or goes (d = -1) from them.
RulesFollow(w, x, Q, P) ==
    /\ AtPeer(Told(P)) = IF w.drop THEN AtPeer(Told(Q))
                         ELSE AtPeer(Told(Q)) \cup {<<w.filter, x[2]>>}
    /\ AtPeer(Told(Q)) = IF w.drop THEN AtPeer(Told(P))
                         ELSE AtPeer(Told(P)) \ {<<w.filter, x[2]>>}

LEMMA ChainExact ==
    ASSUME Uses, Uniform, IsFiniteSet(Kept), Cardinality(Kept) <= MaxSubscribed,
           NEW x \in Kept, NEW Q \in SUBSET Kept, x \notin Q, NEW P, P = Q \cup {x},
           NEW n, NEW d \in {1, -1}, ExactFor(IF d = 1 THEN Q ELSE P, n)
    PROVE  LET w == Chain(x[1], x[2], d, n)
           IN  ExactFor(IF d = 1 THEN P ELSE Q, w.counts) /\ RulesFollow(w, x, Q, P)
<1> DEFINE v == Egress(x[1], x[2], d, n)
           w == Chain(x[1], x[2], d, n)
           From == IF d = 1 THEN Q ELSE P
           To == IF d = 1 THEN P ELSE Q
           a == (n["node"] + d) % CountModulus
           c == (n["cluster"] + d) % CountModulus
           m == Wide(x)
<1>0. /\ n \in Counts
      /\ n["node"] = Cardinality(Noded(From)) /\ n["cluster"] = Cardinality(Clustered(From))
      /\ n["leaf"] = Cardinality(Gated(Told(From)))
  BY Zenon DEF ExactFor
<1>1. /\ CountModulus \in Nat /\ MaxSubscribed \in Nat /\ MaxSubscribed < CountModulus
      /\ P \in SUBSET Kept /\ IsFiniteSet(P) /\ IsFiniteSet(Q)
      /\ Cardinality(Q) \in Nat /\ Cardinality(P) = Cardinality(Q) + 1
      /\ Cardinality(P) <= MaxSubscribed
  <2>1. P \in SUBSET Kept /\ CountModulus \in Nat /\ MaxSubscribed \in Nat /\ MaxSubscribed < CountModulus
    BY ProcessorAssumption
  <2>2. IsFiniteSet(P) /\ IsFiniteSet(Q) /\ Cardinality(P) <= Cardinality(Kept)
    BY <2>1, FS_Subset
  <2>3. Cardinality(P) = Cardinality(Q) + 1
    BY <2>2, FS_AddElement
  <2>4. Cardinality(Q) \in Nat /\ Cardinality(Kept) \in Nat
    BY <2>2, FS_CardinalityType
  <2> QED
    BY <2>1, <2>2, <2>3, <2>4
\* A count of the subscriptions with a property.
<1>2. ASSUME NEW S, NEW R, S \subseteq Q, R = S \cup {x}
      PROVE  Counted(S, R, d)
  <2>1. IsFiniteSet(S) /\ Cardinality(S) <= Cardinality(Q)
    BY <1>1, <1>2, FS_Subset
  <2>2. Cardinality(S) \in Nat
    BY <2>1, FS_CardinalityType
  <2>3. Cardinality(R) = Cardinality(S) + 1
    BY <1>2, <2>1, FS_AddElement, Zenon
  <2>4. Cardinality(S) = 0 <=> S = {}
    BY <2>1, FS_EmptySet
  <2> DEFINE k == Cardinality(S)
  <2>5. k \in Nat /\ k + 1 < CountModulus
    BY <1>1, <2>1, <2>2
  <2> HIDE DEF k
  <2>6. (k + 1) % CountModulus = k + 1 /\ (k + 1 + (-1)) % CountModulus = k
    BY <1>1, <2>5
  <2>7. CASE d = 1
    BY <2>3, <2>4, <2>5, <2>6, <2>7 DEF Counted, Edge, k
  <2>8. CASE d = -1
    BY <2>3, <2>4, <2>5, <2>6, <2>8 DEF Counted, Edge, k
  <2> QED
    BY <2>7, <2>8
<1>3. /\ Noded(P) = IF ByNode(x[1]) THEN Noded(Q) \cup {x} ELSE Noded(Q)
      /\ Clustered(P) = IF ByCluster(x[1]) THEN Clustered(Q) \cup {x} ELSE Clustered(Q)
      /\ Noded(Q) \subseteq Q /\ Clustered(Q) \subseteq Q
  BY DEF Noded, Clustered
<1>4. ByNode(x[1]) => a = Cardinality(Noded(To)) /\ a \in Nat /\ (Edge(d, a) <=> Noded(Q) = {})
  <2> SUFFICES ASSUME ByNode(x[1])
               PROVE  a = Cardinality(Noded(To)) /\ a \in Nat /\ (Edge(d, a) <=> Noded(Q) = {})
    OBVIOUS
  <2>1. Noded(P) = Noded(Q) \cup {x} /\ Noded(Q) \subseteq Q
    BY <1>3
  <2>2. /\ Noded(From) = IF d = 1 THEN Noded(Q) ELSE Noded(P)
        /\ Noded(To) = IF d = 1 THEN Noded(P) ELSE Noded(Q)
    OBVIOUS
  <2>3. Counted(Noded(Q), Noded(P), d)
    BY <1>2, <2>1, Zenon
  <2> HIDE DEF From, To
  <2> QED
    BY <1>0, <2>2, <2>3, Zenon DEF Counted
<1>5. ByCluster(x[1]) =>
          c = Cardinality(Clustered(To)) /\ c \in Nat /\ (Edge(d, c) <=> Clustered(Q) = {})
  <2> SUFFICES ASSUME ByCluster(x[1])
               PROVE  /\ c = Cardinality(Clustered(To)) /\ c \in Nat
                      /\ Edge(d, c) <=> Clustered(Q) = {}
    OBVIOUS
  <2>1. Clustered(P) = Clustered(Q) \cup {x} /\ Clustered(Q) \subseteq Q
    BY <1>3, Zenon
  <2>2. /\ Clustered(From) = IF d = 1 THEN Clustered(Q) ELSE Clustered(P)
        /\ Clustered(To) = IF d = 1 THEN Clustered(P) ELSE Clustered(Q)
    OBVIOUS
  <2>3. Counted(Clustered(Q), Clustered(P), d)
    BY <1>2, <2>1, Zenon
  <2> HIDE DEF From, To
  <2> QED
    BY <1>0, <2>2, <2>3, Zenon DEF Counted
<1>6. /\ ~ByNode(x[1]) => Cardinality(Noded(To)) = n["node"]
      /\ ~ByCluster(x[1]) => Cardinality(Clustered(To)) = n["cluster"]
  BY <1>0, <1>3
<1>7. /\ OwnOnly(x[1]) => v.drop /\ v.counts = n
      /\ ByNode(x[1]) => /\ v.counts = [n EXCEPT !["node"] = a]
                         /\ ~v.drop <=> Edge(d, a) /\ peer.labels /\ InScope(x[2])
      /\ ByCluster(x[1]) => /\ v.counts = [n EXCEPT !["cluster"] = c]
                            /\ ~v.drop <=> Edge(d, c) /\ InScope(x[2])
      /\ ~OwnOnly(x[1]) /\ ~ByNode(x[1]) /\ ~ByCluster(x[1]) =>
             v.counts = n /\ (~v.drop <=> Crosses(x[1]) /\ InScope(x[2]))
      /\ ~v.drop => v = Work(Wider(x[1]), x[2], FALSE, v.counts)
  <2>1. EgressMakes(v, x[1], x[2], d, n)
    BY EgressWorks, Zenon
  <2> QED
    BY <2>1, Zenon DEF EgressMakes
<1> HIDE DEF v, a, c
<1>8. \/ OwnOnly(x[1]) /\ ~ByNode(x[1]) /\ ~ByCluster(x[1])
      \/ ByNode(x[1]) /\ ~OwnOnly(x[1]) /\ ~ByCluster(x[1])
      \/ ByCluster(x[1]) /\ ~OwnOnly(x[1]) /\ ~ByNode(x[1])
      \/ ~OwnOnly(x[1]) /\ ~ByNode(x[1]) /\ ~ByCluster(x[1])
  BY DEF ByNode, ByCluster
<1>9. /\ v.counts \in Counts /\ v.counts["leaf"] = n["leaf"]
      /\ v.counts["node"] = Cardinality(Noded(To))
      /\ v.counts["cluster"] = Cardinality(Clustered(To))
  <2> HIDE DEF To
  <2>1. CASE ByNode(x[1]) /\ ~ByCluster(x[1])
    BY <1>0, <1>4, <1>6, <1>7, <2>1, Zenon DEF Counts
  <2>2. CASE ByCluster(x[1]) /\ ~ByNode(x[1])
    BY <1>0, <1>5, <1>6, <1>7, <2>2, Zenon DEF Counts
  <2>3. CASE ~ByNode(x[1]) /\ ~ByCluster(x[1])
    BY <1>0, <1>6, <1>7, <1>8, <2>3, SMTT(30) DEF Counts
  <2> QED
    BY <1>8, <2>1, <2>2, <2>3
<1>10. ~v.drop <=> Sent(x) /\ m \notin Told(Q)
  <2>1. ByNode(x[1]) => NodeEq \in Addressees(x[1])
    BY DEF ByNode, Addressees, NodeEq, Eq
  <2>2. Sent(x) => (m \in Told(Q) <=> \/ ByNode(x[1]) /\ Noded(Q) # {}
                                      \/ ByCluster(x[1]) /\ Clustered(Q) # {})
    BY ToldFresh
  <2> HIDE DEF m
  <2>3. CASE OwnOnly(x[1])
    BY <1>7, <2>3, SMTT(30) DEF Sent
  <2>4. CASE ByNode(x[1]) /\ ~OwnOnly(x[1]) /\ ~ByCluster(x[1])
    BY <1>4, <1>7, <2>1, <2>2, <2>4, SMTT(30) DEF Sent, Crosses
  <2>5. CASE ByCluster(x[1]) /\ ~OwnOnly(x[1]) /\ ~ByNode(x[1])
    BY <1>5, <1>7, <2>2, <2>5, SMTT(30) DEF Sent
  <2>6. CASE ~OwnOnly(x[1]) /\ ~ByNode(x[1]) /\ ~ByCluster(x[1])
    BY <1>7, <2>2, <2>6 DEF Sent
  <2> QED
    BY <1>8, <2>3, <2>4, <2>5, <2>6
<1>11. w = IF v.drop THEN v ELSE LeafNodeIdGateway(v, d)
  BY ChainSplits DEF v
<1>12. Told(P) = IF Sent(x) THEN Told(Q) \cup {m} ELSE Told(Q)
  BY ToldAdds
<1>13. CASE v.drop
  <2>1. Told(P) = Told(Q)
    BY <1>10, <1>12, <1>13
  <2>2. w = v
    BY <1>11, <1>13
  <2> HIDE DEF w
  <2> QED
    <3>1. Gated(Told(From)) = Gated(Told(To))
      BY <2>1
    <3> QED
      BY <1>0, <1>9, <1>13, <2>1, <2>2, <3>1, Zenon DEF w, ExactFor, RulesFollow
<1>14. CASE ~v.drop
  <2> DEFINE T == Told(Q)
  <2>1. Told(P) = T \cup {m} /\ m \notin T
    BY <1>10, <1>12, <1>14
  <2>2. m = <<Wider(x[1]), x[2]>>
    BY DEF Wide
  <2>3. v = Work(Wider(x[1]), x[2], FALSE, v.counts)
    BY <1>7, <1>14, Zenon
  <2>4. w = LeafNodeIdGateway(Work(Wider(x[1]), x[2], FALSE, v.counts), d)
    BY <1>11, <1>14, <2>3, Zenon
  <2>5. IsFiniteSet(T) /\ Cardinality(T) <= Cardinality(Q) /\ Cardinality(T) \in Nat
    BY <1>1, ToldFinite, FS_CardinalityType
  <2>6. Cardinality(T) + 1 < CountModulus
    BY <1>1, <2>5
  <2>7. /\ \A k, l \in Gated(Told(P)) : k[2] = l[2]
        /\ peer.leaf => \A k \in Told(P) : k[1] # LeafRule
    BY <1>1, GatedAlike, Zenon
  <2>8. v.counts["leaf"] = Cardinality(Gated(IF d = 1 THEN T ELSE T \cup {m}))
    BY <1>0, <1>9, <2>1
  <2> HIDE DEF T, m, w
  <2>9. LeafTold(T, Wider(x[1]), x[2], v.counts, d)
    BY <1>9, <2>1, <2>2, <2>5, <2>6, <2>7, <2>8, Zenon DEF LeafTold
  <2>10. LeafMakes(w, T, T \cup {m}, x[2], v.counts, d)
    <3>1. LeafMakes(LeafNodeIdGateway(Work(Wider(x[1]), x[2], FALSE, v.counts), d),
                    T, T \cup {<<Wider(x[1]), x[2]>>}, x[2], v.counts, d)
      BY <2>9, LeafWorks, Zenon
    <3> QED
      BY <2>2, <2>4, <3>1, Zenon
  <2>11. Told(IF d = 1 THEN P ELSE Q) = IF d = 1 THEN T \cup {m} ELSE T
    BY <2>1, Zenon DEF T
  <2> QED
    BY <1>9, <2>1, <2>10, <2>11, Zenon DEF T, w, LeafMakes, ExactFor, RulesFollow
<1> QED
  BY <1>13, <1>14

\* Nothing is subscribed to at first.
LEMMA ProcessorsStart == PCInit => PCInv
<1> SUFFICES ASSUME PCInit PROVE PCInv
  OBVIOUS
<1>1. PICK g \in [1 .. MaxSubscribed -> SFilter \X Arguments] : used = {g[i] : i \in DOMAIN g}
  BY DEF PCInit
<1>2. Uses
  BY <1>1 DEF Uses
<1>3. g \in Surjection(1 .. MaxSubscribed, used)
  BY <1>1 DEF Surjection
<1>4. /\ IsFiniteSet(1 .. MaxSubscribed) /\ Cardinality(1 .. MaxSubscribed) = MaxSubscribed
      /\ MaxSubscribed \in Nat
  <2>1. MaxSubscribed \in Nat
    BY ProcessorAssumption
  <2>2. /\ IsFiniteSet(1 .. MaxSubscribed)
        /\ Cardinality(1 .. MaxSubscribed) = IF 1 > MaxSubscribed THEN 0 ELSE MaxSubscribed - 1 + 1
    BY <2>1, FS_Interval
  <2> QED
    BY <2>1, <2>2
<1>5. IsFiniteSet(used) /\ Cardinality(used) <= MaxSubscribed
  BY <1>3, <1>4, FS_Surjection
<1>6. Exact
  <2>1. known = {} /\ rules = {} /\ counts = [node |-> 0, cluster |-> 0, leaf |-> 0]
    BY DEF PCInit
  <2>2. Noded(known) = {} /\ Clustered(known) = {} /\ Told(known) = {}
    BY <2>1 DEF Noded, Clustered, Told
  <2>3. Gated(Told(known)) = {} /\ AtPeer(Told(known)) = {}
    BY <2>2 DEF Gated, AtPeer
  <2>4. Cardinality({}) = 0
    BY FS_EmptySet
  <2> QED
    BY <2>1, <2>2, <2>3, <2>4, Zenon DEF Exact, ExactFor, Counts
<1> QED
  BY <1>2, <1>5, <1>6, Zenon DEF PCInv, PCInit

\* The peer of a connection stays what it is.
LEMMA SamePeer ==
    ASSUME peer' = peer
    PROVE  Exact' <=> ExactFor(known', counts') /\ rules' = AtPeer(Told(known'))
<1>1. Noded(known)' = Noded(known')
  BY DEF Noded, ByNode, OwnOnly, NodeEq
<1>2. Clustered(known)' = Clustered(known')
  BY DEF Clustered, ByCluster
<1>3. Told(known)' = Told(known')
  <2>1. {y \in known : Sent(y)}' = {y \in known' : Sent(y)}
    BY DEF Sent, InScope, Crosses, ByCluster
  <2>2. ASSUME NEW x PROVE Wide(x)' = Wide(x)
    BY DEF Wide, Wider, ByCluster
  <2> QED
    BY <2>1, <2>2 DEF Told
<1>4. Gated(Told(known))' = Gated(Told(known'))
  BY <1>3 DEF Gated
<1>5. AtPeer(Told(known))' = AtPeer(Told(known'))
  BY <1>3, <1>4 DEF AtPeer
<1> QED
  BY <1>1, <1>2, <1>3, <1>4, <1>5, Zenon DEF Exact, ExactFor

\* A subscription that is not counted goes through the chain alike, whenever it does.
LEMMA PlainChain ==
    ASSUME Uses, NEW x \in used, ~Countable(x), NEW n
    PROVE  /\ Chain(x[1], x[2], 1, n) = Chain(x[1], x[2], -1, n)
           /\ \A d \in {1, -1} : Chain(x[1], x[2], d, n).counts = n
<1> DEFINE f == x[1]
           s == x[2]
<1>1. IsFilter(f) /\ NodeEq \notin f.required /\ Label \notin f.required
      /\ ~(peer.leaf /\ ForOthers(f))
  BY UsedFilters DEF Countable, Aggregated, NodeEq
<1>2. ~ByNode(f) /\ ~ByCluster(f)
  BY <1>1, Zenon DEF ByNode, ByCluster
<1>3. Fore(f, s, 1, n) = Fore(f, s, -1, n)
  <2>1. /\ ForeMakes(Fore(f, s, 1, n), f, s, 1, n)
        /\ ForeMakes(Fore(f, s, -1, n), f, s, -1, n)
    BY ForeWorks, Zenon
  <2> HIDE DEF f, s
  <2>2. CASE OwnOnly(f)
    BY <2>1, <2>2, Zenon DEF ForeMakes
  <2>3. CASE ~OwnOnly(f)
    BY <1>2, <2>1, <2>3, Zenon DEF ForeMakes
  <2> QED
    BY <2>2, <2>3, Zenon
<1>4. Egress(f, s, 1, n) = Egress(f, s, -1, n)
  <2> HIDE DEF f, s
  <2>1. ASSUME NEW w PROVE Aft(w, 1) = Aft(w, -1)
    BY Zenon DEF Aft, ClusterBarrier, ScopeLocal, ScopeCluster, OptionalConstraintDrop
  <2> QED
    BY <1>3, <2>1, Zenon DEF Egress
<1>5. ASSUME NEW d PROVE Chain(f, s, d, n) = Egress(f, s, d, n) /\ Chain(f, s, d, n).counts = n
  <2> DEFINE w == Egress(f, s, d, n)
  <2>1. Chain(f, s, d, n) = IF w.drop THEN w ELSE LeafNodeIdGateway(w, d)
    BY ChainSplits, Zenon
  <2>2. EgressMakes(w, f, s, d, n)
    BY EgressWorks, Zenon
  <2> HIDE DEF f, s, w
  <2>3. w.counts = n /\ (~w.drop => w = Work(Wider(f), s, FALSE, w.counts))
    BY <1>2, <2>2, Zenon DEF EgressMakes
  <2>4. CASE w.drop
    BY <2>1, <2>3, <2>4, Zenon DEF w
  <2>5. CASE ~w.drop
    <3>1. Wider(f) = Trimmed(f) /\ Trimmed(f).required = f.required
      BY <1>1, <1>2, TrimmedFilter, Zenon DEF Wider
    <3>2. w.filter = Wider(f)
      BY <2>3, <2>5 DEF Work
    <3>3. ~(peer.leaf /\ ForOthers(w.filter))
      BY <1>1, <3>1, <3>2, Zenon DEF ForOthers, Addressees
    <3>4. LeafNodeIdGateway(w, d) = w
      BY <3>3, Zenon DEF LeafNodeIdGateway
    <3> QED
      BY <2>1, <2>3, <2>5, <3>4, Zenon DEF w
  <2> QED
    BY <2>4, <2>5, Zenon
<1> HIDE DEF f, s
<1>6. Chain(f, s, 1, n) = Chain(f, s, -1, n) /\ \A d \in {1, -1} : Chain(f, s, d, n).counts = n
  BY <1>4, <1>5, Zenon
<1> QED
  BY <1>6, Zenon DEF f, s

\* Announcing it again, or that it ended when it is not there, changes no rule.
LEMMA PlainAgain ==
    ASSUME Uses, Uniform, IsFiniteSet(Kept), Cardinality(Kept) <= MaxSubscribed,
           NEW x \in Kept, ~Countable(x), NEW P \in SUBSET Kept, NEW n, ExactFor(P, n),
           NEW d \in {1, -1}
    PROVE  LET w == Chain(x[1], x[2], d, n)
           IN  /\ w.counts = n
               /\ x \in P /\ ~w.drop => <<w.filter, x[2]>> \in AtPeer(Told(P))
               /\ x \notin P /\ ~w.drop => <<w.filter, x[2]>> \notin AtPeer(Told(P))
<1> DEFINE w == Chain(x[1], x[2], d, n)
<1>1. x \in used
  BY DEF Kept
<1>2. w.counts = n /\ w = Chain(x[1], x[2], 1, n) /\ w = Chain(x[1], x[2], -1, n)
  <2>1. \/ w = Chain(x[1], x[2], 1, n)
        \/ w = Chain(x[1], x[2], -1, n)
    <3>1. d = 1 \/ d = -1
      OBVIOUS
    <3> QED
      BY <3>1, Zenon
  <2> QED
    BY <1>1, <2>1, PlainChain, Zenon
<1> HIDE DEF w
<1>3. 1 \in {1, -1} /\ -1 \in {1, -1} /\ -1 # 1
  OBVIOUS
<1>4. ASSUME x \in P, ~w.drop PROVE <<w.filter, x[2]>> \in AtPeer(Told(P))
  <2> DEFINE Q == P \ {x}
  <2>1. P = Q \cup {x} /\ x \notin Q /\ Q \in SUBSET Kept
    BY <1>4
  <2> HIDE DEF Q
  <2>2. ExactFor(IF -1 = 1 THEN Q ELSE P, n)
    BY <1>3, Zenon
  <2>3. RulesFollow(w, x, Q, P)
    BY <1>2, <1>3, <2>1, <2>2, ChainExact, Zenon
  <2> QED
    BY <1>4, <2>3 DEF RulesFollow
<1>5. ASSUME x \notin P, ~w.drop PROVE <<w.filter, x[2]>> \notin AtPeer(Told(P))
  <2> DEFINE R == P \cup {x}
  <2>1. R = P \cup {x}
    OBVIOUS
  <2> HIDE DEF R
  <2>2. ExactFor(IF 1 = 1 THEN P ELSE R, n)
    BY Zenon
  <2>3. RulesFollow(w, x, P, R)
    BY <1>2, <1>3, <1>5, <2>1, <2>2, ChainExact, Zenon
  <2> QED
    BY <1>5, <2>3 DEF RulesFollow
<1> QED
  BY <1>2, <1>4, <1>5, Zenon DEF w

\* What is heard out of turn is remembered, so that nothing that is counted was.
LEMMA OrderlyStep ==
    ASSUME NEW x \in used, peer' = peer, Orderly',
           odd' = odd \/ odd' = odd \cup {x}
    PROVE  Orderly /\ (odd' = odd \cup {x} => ~Countable(x))
<1>1. ASSUME NEW y PROVE Countable(y)' <=> Countable(y)
  BY DEF Countable
<1> QED
  BY <1>1 DEF Orderly

\* Whatever comes or goes, and in whatever order.
LEMMA ProcessorsStep == PCInv /\ [PCNext]_pcvars => PCInv'
<1> SUFFICES ASSUME PCInv, [PCNext]_pcvars PROVE PCInv'
  OBVIOUS
<1>1. /\ Uses /\ IsFiniteSet(used) /\ Cardinality(used) <= MaxSubscribed
      /\ known \in SUBSET Kept
  BY DEF PCInv
<1>0. IsFiniteSet(Kept) /\ Cardinality(Kept) <= MaxSubscribed
  <2>1. Kept \in SUBSET used
    BY DEF Kept
  <2>2. IsFiniteSet(Kept) /\ Cardinality(Kept) <= Cardinality(used)
    BY <1>1, <2>1, FS_Subset
  <2>3. Cardinality(Kept) \in Nat /\ Cardinality(used) \in Nat /\ MaxSubscribed \in Nat
    BY <1>1, <2>2, FS_CardinalityType, ProcessorAssumption
  <2> QED
    BY <1>1, <2>2, <2>3
<1>2. CASE UNCHANGED pcvars
  <2>1. /\ peer' = peer /\ used' = used /\ known' = known /\ odd' = odd
        /\ counts' = counts /\ rules' = rules
    BY <1>2 DEF pcvars
  <2>2. Kept' = Kept
    BY <2>1 DEF Kept
  <2>3. (Uniform' <=> Uniform) /\ (Orderly' <=> Orderly)
    BY <2>1, <2>2 DEF Uniform, Pooled, Orderly, Countable
  <2>4. Exact' <=> Exact
    BY <2>1, SamePeer, Zenon DEF Exact
  <2> QED
    BY <1>1, <2>1, <2>2, <2>3, <2>4, Zenon DEF PCInv, Uses
<1>3. CASE PCNext
  <2>1. PICK x \in used : SubscriptionAdded(x[1], x[2]) \/ SubscriptionRemoved(x[1], x[2])
    BY <1>3 DEF PCNext
  <2>2. peer' = peer /\ used' = used
    BY <2>1 DEF SubscriptionAdded, SubscriptionRemoved
  <2>3. x = <<x[1], x[2]>>
    BY <1>1, UsedFilters
  <2>4. Kept' = Kept
    BY <2>2 DEF Kept
  <2>5. known' \in SUBSET Kept
    BY <1>1, <2>1, <2>3 DEF SubscriptionAdded, SubscriptionRemoved, Kept
  <2>6. Uniform' <=> Uniform
    BY <2>2, <2>4 DEF Uniform, Pooled
  <2>7. ASSUME Uniform, Orderly' PROVE Exact'
    <3>0. Orderly /\ (odd' = odd \cup {x} => ~Countable(x))
      <4>1. odd' = odd \/ odd' = odd \cup {x}
        BY <2>1, <2>3 DEF SubscriptionAdded, SubscriptionRemoved
      <4> QED
        BY <2>2, <2>7, <4>1, OrderlyStep
    <3>1. ExactFor(known, counts) /\ rules = AtPeer(Told(known))
      BY <2>7, <3>0, Zenon DEF PCInv, Exact
    <3>2. Exact' <=> ExactFor(known', counts') /\ rules' = AtPeer(Told(known'))
      BY <2>2, SamePeer, Zenon
    <3>3. CASE SubscriptionAdded(x[1], x[2]) /\ Fetches(x[2])
      <4>1. /\ known' = known /\ rules' = rules /\ odd' = odd \cup {x}
            /\ counts' = Chain(x[1], x[2], 1, counts).counts
        BY <2>3, <3>3 DEF SubscriptionAdded
      <4>2. 1 \in {1, -1}
        OBVIOUS
      <4>3. counts' = counts
        BY <1>1, <3>0, <4>1, <4>2, PlainChain, Zenon
      <4> QED
        BY <3>1, <3>2, <4>1, <4>3
    <3>4. CASE SubscriptionAdded(x[1], x[2]) /\ ~Fetches(x[2]) /\ x \in known
      <4> DEFINE w == Chain(x[1], x[2], 1, counts)
      <4>1. /\ known' = known /\ odd' = odd \cup {x} /\ counts' = w.counts
            /\ rules' = IF w.drop THEN rules ELSE rules \cup {<<w.filter, x[2]>>}
        BY <2>3, <3>4 DEF SubscriptionAdded
      <4> HIDE DEF w
      <4>2. w.counts = counts /\ (~w.drop => <<w.filter, x[2]>> \in AtPeer(Told(known)))
        <5>1. 1 \in {1, -1} /\ x \in Kept
          BY <1>1, <3>4
        <5> QED
          BY <1>0, <1>1, <2>7, <3>0, <3>1, <3>4, <4>1, <5>1, PlainAgain, Zenon DEF w
      <4> QED
        BY <3>1, <3>2, <4>1, <4>2
    <3>5. CASE SubscriptionAdded(x[1], x[2]) /\ ~Fetches(x[2]) /\ x \notin known
      <4> DEFINE w == Chain(x[1], x[2], 1, counts)
                 P == known \cup {x}
      <4>1. /\ x \in Kept /\ known' = P /\ counts' = w.counts
            /\ rules' = IF w.drop THEN rules ELSE rules \cup {<<w.filter, x[2]>>}
        BY <2>3, <3>5 DEF SubscriptionAdded, Kept
      <4> HIDE DEF w, P
      <4>2. /\ ExactFor(P, w.counts)
            /\ AtPeer(Told(P)) = IF w.drop THEN AtPeer(Told(known))
                                 ELSE AtPeer(Told(known)) \cup {<<w.filter, x[2]>>}
        <5>1. 1 \in {1, -1} /\ P = known \cup {x} /\ ExactFor(IF 1 = 1 THEN known ELSE P, counts)
          BY <3>1 DEF P
        <5>2. ExactFor(IF 1 = 1 THEN P ELSE known, w.counts) /\ RulesFollow(w, x, known, P)
          BY <1>0, <1>1, <2>7, <3>5, <4>1, <5>1, ChainExact, Zenon DEF w
        <5> QED
          BY <5>2, Zenon DEF RulesFollow
      <4> QED
        BY <3>1, <3>2, <4>1, <4>2
    <3>6. CASE SubscriptionRemoved(x[1], x[2]) /\ x \notin known
      <4> DEFINE w == Chain(x[1], x[2], -1, counts)
      <4>1. /\ x \in Kept /\ known' = known /\ odd' = odd \cup {x} /\ counts' = w.counts
            /\ rules' = IF w.drop THEN rules ELSE rules \ {<<w.filter, x[2]>>}
        BY <2>3, <3>6 DEF SubscriptionRemoved, Kept
      <4> HIDE DEF w
      <4>2. w.counts = counts /\ (~w.drop => <<w.filter, x[2]>> \notin AtPeer(Told(known)))
        <5>1. -1 \in {1, -1}
          OBVIOUS
        <5> QED
          BY <1>0, <1>1, <2>7, <3>0, <3>1, <3>6, <4>1, <5>1, PlainAgain, Zenon DEF w
      <4> QED
        BY <3>1, <3>2, <4>1, <4>2
    <3>7. CASE SubscriptionRemoved(x[1], x[2]) /\ x \in known
      <4> DEFINE w == Chain(x[1], x[2], -1, counts)
                 Q == known \ {x}
      <4>1. /\ x \in Kept /\ known' = Q /\ counts' = w.counts
            /\ rules' = IF w.drop THEN rules ELSE rules \ {<<w.filter, x[2]>>}
        BY <1>1, <2>3, <3>7 DEF SubscriptionRemoved
      <4>2. known = Q \cup {x} /\ x \notin Q /\ Q \in SUBSET Kept
        BY <1>1, <3>7
      <4> HIDE DEF w, Q
      <4>3. /\ ExactFor(Q, w.counts)
            /\ AtPeer(Told(Q)) = IF w.drop THEN AtPeer(Told(known))
                                 ELSE AtPeer(Told(known)) \ {<<w.filter, x[2]>>}
        <5>1. -1 \in {1, -1} /\ -1 # 1
          OBVIOUS
        <5>2. ExactFor(IF -1 = 1 THEN Q ELSE known, counts)
          BY <3>1, <5>1, Zenon
        <5>3. ExactFor(IF -1 = 1 THEN known ELSE Q, w.counts) /\ RulesFollow(w, x, Q, known)
          BY <1>0, <1>1, <2>7, <4>1, <4>2, <5>1, <5>2, ChainExact, Zenon DEF w
        <5> QED
          BY <5>1, <5>3, Zenon DEF RulesFollow
      <4> QED
        BY <3>1, <3>2, <4>1, <4>3
    <3> QED
      BY <2>1, <3>3, <3>4, <3>5, <3>6, <3>7
  <2> QED
    BY <1>1, <2>2, <2>4, <2>5, <2>6, <2>7 DEF PCInv, Uses
<1> QED
  BY <1>2, <1>3

\* The invariant of the processors: as long as nothing that is counted is heard of out of
\* turn, counts and rules are those of the subscriptions that the connection knows of,
\* whatever came and went before.
THEOREM ProcessorInvariant == PCSpec => []PCInv
<1> QED
  BY ProcessorsStart, ProcessorsStep, PTL DEF PCSpec

(***************************************************************************)
(* The rules cover what is wanted, and only that.                          *)
(***************************************************************************)
\* A filter matches no more than its wider form.
LEMMA WiderMatches ==
    ASSUME NEW f, IsFilter(f), ~OwnOnly(f), NEW p, FilterMatches(f, p)
    PROVE  FilterMatches(Wider(f), p)
<1>1. ASSUME NEW c \in f.required PROVE FilterMatches(Rule({c}), p)
  BY <1>1 DEF FilterMatches, Rule
<1>2. CASE ByNode(f)
  BY <1>1, <1>2 DEF ByNode, Wider
<1>3. CASE ~ByNode(f) /\ ByCluster(f)
  BY <1>1, <1>3 DEF ByCluster, Wider
<1>4. CASE ~ByNode(f) /\ ~ByCluster(f)
  <2>1. Wider(f).required = f.required /\ Wider(f).optional \subseteq f.optional
    BY <1>4, TrimmedFilter DEF Wider
  <2> QED
    BY <2>1 DEF FilterMatches
<1> QED
  BY <1>2, <1>3, <1>4

\* So does the rule of a leaf.
LEMMA LeafMatches ==
    ASSUME NEW f, NEW p, FilterMatches(f, p), ForOthers(f)
    PROVE  FilterMatches(LeafRule, p)
<1>1. PICK c \in f.required : c.attr = "node_id" /\ c.pred = "EQ" /\ c.value # PeerId
  BY DEF ForOthers, Addressees
<1>2. "node_id" \in DOMAIN p /\ p["node_id"] = c.value
  BY <1>1 DEF FilterMatches, Meets
<1>3. p["node_id"] # PeerId
  BY <1>1, <1>2
<1>4. Meets(Ne("node_id", PeerId), p) /\ Ne("node_id", PeerId).attr = "node_id"
  BY <1>3 DEF Meets, Ne
<1> QED
  BY <1>2, <1>4 DEF FilterMatches, LeafRule, Rule

\* The peer has a rule for each publication that a subscription it should know of
\* matches (subscription processors, whatever subscriptions came and went).
LEMMA InvariantCovers == PCInv => PeerCovers
<1> SUFFICES ASSUME PCInv, Uniform, Orderly, NEW x \in Concerned, NEW p \in Publications,
                    FilterMatches(x[1], p),
                    ~FilterMatches(Rule({Eq("publisher_node_id", LocalId)}), p)
             PROVE  \E r \in rules : FilterMatches(r[1], p)
  BY DEF PeerCovers
<1>1. x \in used /\ x \in known /\ Uses /\ rules = AtPeer(Told(known))
  BY DEF PCInv, Exact, Concerned, Kept
<1>2. IsFilter(x[1])
  BY <1>1, UsedFilters
<1>3. ~OwnOnly(x[1])
  <2>1. SUFFICES ASSUME OwnOnly(x[1])
                 PROVE  FilterMatches(Rule({Eq("publisher_node_id", LocalId)}), p)
    OBVIOUS
  <2> QED
    BY <2>1 DEF OwnOnly, FilterMatches, Rule
<1>4. Sent(x)
  BY <1>3, SMTT(30) DEF Concerned, Sent, InScope, Crosses, ByCluster, NodeEq
<1>5. Wide(x) \in Told(known) /\ Wide(x)[1] = Wider(x[1])
  BY <1>1, <1>4 DEF Told, Wide
<1>6. FilterMatches(Wider(x[1]), p)
  BY <1>2, <1>3, WiderMatches
<1>7. CASE peer.leaf /\ ForOthers(Wider(x[1]))
  <2>1. <<LeafRule, Wide(x)[2]>> \in rules
    BY <1>1, <1>5, <1>7 DEF AtPeer, Gated
  <2>2. FilterMatches(LeafRule, p)
    BY <1>6, <1>7, LeafMatches
  <2> QED
    BY <2>1, <2>2
<1>8. CASE ~(peer.leaf /\ ForOthers(Wider(x[1])))
  <2>1. Wide(x) \in rules
    BY <1>1, <1>5, <1>8 DEF AtPeer
  <2> QED
    BY <1>5, <1>6, <2>1
<1> QED
  BY <1>7, <1>8

\* Every rule is the wider form of a subscription that is there, and no count exceeds
\* what is there.
LEMMA InvariantFresh == PCInv => NoStaleRule
<1> SUFFICES ASSUME PCInv, Uniform, Orderly
             PROVE  /\ \A k \in DOMAIN counts : counts[k] <= Cardinality(known)
                    /\ \A r \in rules : \E x \in Concerned :
                           /\ x[2] = r[2]
                           /\ \A p \in Publications :
                                  FilterMatches(x[1], p) => FilterMatches(r[1], p)
  BY DEF NoStaleRule
<1>1. Exact /\ Uses /\ known \in SUBSET used /\ IsFiniteSet(used)
  BY DEF PCInv, Kept
<1>2. IsFiniteSet(known)
  BY <1>1, FS_Subset
<1>3. ASSUME NEW k \in DOMAIN counts PROVE counts[k] <= Cardinality(known)
  <2>1. k \in {"node", "cluster", "leaf"}
    BY <1>1 DEF Exact, ExactFor, Counts
  <2>2. /\ Cardinality(Noded(known)) <= Cardinality(known)
        /\ Cardinality(Clustered(known)) <= Cardinality(known)
    <3>1. Noded(known) \in SUBSET known /\ Clustered(known) \in SUBSET known
      BY DEF Noded, Clustered
    <3> QED
      BY <1>2, <3>1, FS_Subset
  <2>3. Cardinality(Gated(Told(known))) <= Cardinality(known)
    <3>1. IsFiniteSet(Told(known)) /\ Cardinality(Told(known)) <= Cardinality(known)
      BY <1>2, ToldFinite
    <3>2. Gated(Told(known)) \in SUBSET Told(known)
      BY DEF Gated
    <3>3. /\ Cardinality(Gated(Told(known))) <= Cardinality(Told(known))
          /\ IsFiniteSet(Gated(Told(known)))
      BY <3>1, <3>2, FS_Subset
    <3>4. /\ Cardinality(Gated(Told(known))) \in Nat
          /\ Cardinality(Told(known)) \in Nat /\ Cardinality(known) \in Nat
      BY <1>2, <3>1, <3>3, FS_CardinalityType
    <3> QED
      BY <3>1, <3>3, <3>4
  <2>4. /\ counts["node"] = Cardinality(Noded(known))
        /\ counts["cluster"] = Cardinality(Clustered(known))
        /\ counts["leaf"] = Cardinality(Gated(Told(known)))
    BY <1>1, Zenon DEF Exact, ExactFor
  <2> QED
    BY <2>1, <2>2, <2>3, <2>4
<1>4. ASSUME NEW r \in rules
      PROVE  \E x \in Concerned :
                 /\ x[2] = r[2]
                 /\ \A p \in Publications : FilterMatches(x[1], p) => FilterMatches(r[1], p)
  <2>1. r \in AtPeer(Told(known))
    BY <1>1 DEF Exact
  <2>2. PICK m \in Told(known) : \/ r = m
                                 \/ r = <<LeafRule, m[2]>> /\ ForOthers(m[1])
    BY <2>1 DEF AtPeer, Gated
  <2>3. PICK x \in known : Sent(x) /\ m = Wide(x)
    BY <2>2 DEF Told
  <2>4. m[1] = Wider(x[1]) /\ m[2] = x[2] /\ r[2] = x[2]
    BY <2>2, <2>3 DEF Wide
  <2>5. IsFilter(x[1]) /\ ~OwnOnly(x[1])
    BY <1>1, <2>3, UsedFilters DEF Sent
  <2>6. x \in Concerned
    BY <2>3 DEF Concerned, Sent, InScope, Crosses, ByCluster, NodeEq
  <2>7. ASSUME NEW p \in Publications, FilterMatches(x[1], p) PROVE FilterMatches(r[1], p)
    <3>1. FilterMatches(m[1], p)
      BY <2>4, <2>5, <2>7, WiderMatches
    <3>2. CASE r = m
      BY <3>1, <3>2
    <3>3. CASE r = <<LeafRule, m[2]>> /\ ForOthers(m[1])
      BY <3>1, <3>3, LeafMatches
    <3> QED
      BY <2>2, <3>2, <3>3
  <2> QED
    BY <2>4, <2>6, <2>7
<1> QED
  BY <1>3, <1>4

\* The peer is never without a rule for what is wanted, for any filters and arguments and
\* whatever is announced of subscriptions that are not counted, as long as those that are
\* come and go in turn (the processors of a connection and of a leaf).
THEOREM RulesCover == PCSpec => []PeerCovers
<1> QED
  BY ProcessorInvariant, InvariantCovers, PTL

\* The peer never keeps a rule for what is gone, and no count runs over or under, on the
\* same condition.
THEOREM RulesAreFresh == PCSpec => []NoStaleRule
<1> QED
  BY ProcessorInvariant, InvariantFresh, PTL
=============================================================================
