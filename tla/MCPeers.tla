------------------------------- MODULE MCPeers -------------------------------
(***************************************************************************)
(* A node and its peers: how they are connected (TopologyManager), how     *)
(* filters are compared and sent to them (Filters) and what the            *)
(* subscription processors make of their subscriptions                     *)
(* (SubscriptionProcessors).  The three share no state, so each behaviour  *)
(* is one of part; the others stay as they are.                            *)
(***************************************************************************)
EXTENDS TopologyManager, Filters, SubscriptionProcessors

\* host1 has the static peer host2.
CONSTANTS host1, host2

Statics == [n \in TNode |-> IF n = host1 THEN {host2} ELSE {}]

\* Constraints made in C++ and by Lua, and publications to try filters on.
S(x) == [kind |-> "s", val |-> x]
I(n) == [kind |-> "i", val |-> n]
Fl(n) == [kind |-> "f", val |-> n]
Mp(m) == [kind |-> "m", val |-> m]
Con(a, pred, x, o) == MakeConstraint(a, x, pred, o)

Natives ==
    {Con("a", "EQ", S(<<1>>), FALSE), Con("a", "PF", S(<<1>>), TRUE),
     Con("a", "SF", S(<<2, 1>>), FALSE),
     Con("a", "CT", S(<<2>>), FALSE), Con("a", "LT", I(2), FALSE), Con("b", "GE", Fl(1), TRUE),
     Con("b", "MAP_ALL", Mp(<<Con("x", "NE", I(1), TRUE), Con("x", "LT", I(3), FALSE)>>), FALSE)}

Key(n, q) == [name |-> n, marked |-> q]
Str(x, n) == [lua |-> "string", arg |-> x, number |-> n]
Num(k, n) == [lua |-> k, arg |-> n]
Tab(p, x, o) == [lua |-> "table", pred |-> p, operand |-> x, opt |-> o]

Terms ==
    {<<Key("a", FALSE), Str(<<1, 2>>, 0)>>, <<Key("a", TRUE), Num("integer", 1)>>,
     <<Key("a", FALSE), Tab(5, Str(<<2>>, 2), FALSE)>>, <<Key("b", FALSE), [lua |-> "boolean"]>>,
     <<Key("b", TRUE), Tab(6, Num("number", 1), FALSE)>>,
     <<Key("b", FALSE),
       Tab(10, [lua |-> "list", arg |-> <<<<Key("x", TRUE), Num("integer", 2)>>>>], FALSE)>>}

Samples ==
    LET plain == {S(<<>>), S(<<1>>), S(<<2, 1>>), S(<<1, 2>>), I(1), I(2), Fl(1),
                  [kind |-> "b", val |-> 0]}
        maps == {Mp([x |-> I(1)]), Mp([x |-> I(2)]), Mp([y |-> I(1)]), Mp([x |-> S(<<1>>)])}
    IN  [{"a"} -> plain] \cup [{"b"} -> maps \cup {Fl(0), Fl(1)}]
        \cup [{"a", "b"} -> {S(<<1>>), I(2), Mp([x |-> I(2)])}]

Args == [scope : {"LOCAL", "CLUSTER", "GLOBAL", "NONE"}, priority : {0, 1, 15},
         fetch_policy : {"FETCH", "FETCH_FUTURE", "FUTURE", "NONE"}]

\* Subscriptions that are aggregated, sent as they are or dropped.
Type(v) == Eq("type", v)
Filt(R, O) == [required |-> R, optional |-> O]

Filters ==
    {Filt({Eq("node_id", "L"), Type("a")}, {}), Filt({Eq("node_id", "L"), Type("b")}, {}),
     Filt({Eq("node_id", "X"), Type("a")}, {}),
     Filt({Type("a")}, {}), Filt({Type("a")}, {Eq("node_id", "L")}),
     Filt({Eq("publisher_node_id", "L"), Type("a")}, {}),
     Filt({Eq("wing", "w1"), Type("a")}, {}), Filt({Eq("wing", "w1"), Eq("node_id", "X")}, {})}

Wing == Eq("wing", "w1")

Arg(s, p) == [scope |-> s, fetch |-> p]
SubArgs == {Arg("LOCAL", "FUTURE"), Arg("CLUSTER", "FUTURE"), Arg("GLOBAL", "FUTURE"),
            Arg("GLOBAL", "FETCH")}

Pubs ==
    [type : {"a", "b"}, node_id : {"L", "P", "X"}, publisher_node_id : {"L", "P"},
     wing : {"w1", "w2"}]

VARIABLE part

allvars == <<tvars, fivars, pcvars, part>>

Others(p) ==
    /\ part = p /\ UNCHANGED part
    /\ p # "topology" => UNCHANGED tvars
    /\ p # "filters" => UNCHANGED fivars
    /\ p # "aggregation" => UNCHANGED pcvars

\* A node without subscriptions has nothing to aggregate.
NothingUsed ==
    /\ peer = [labels |-> FALSE, cluster |-> FALSE, leaf |-> FALSE]
    /\ used = {} /\ known = {} /\ odd = {} /\ rules = {}
    /\ counts = [node |-> 0, cluster |-> 0, leaf |-> 0]

\* Three subscriptions have the same arguments.
Few == Cardinality(used) <= 2 \/ \A x, y \in used : x[2] = y[2] /\ ~Fetches(x[2])

MCInit ==
    /\ part \in {"topology", "filters", "aggregation"}
    /\ TInit /\ FiInit
    /\ IF part = "aggregation" THEN PCInit /\ Uniform /\ Few ELSE NothingUsed

\* What the peer hears of after an announcement that upset the counts says no more.
MCNext ==
    \/ Others("topology") /\ TNext
    \/ Others("filters") /\ FiNext
    \/ Others("aggregation") /\ Orderly /\ PCNext

\* TFairness, where there is a topology.
T(A) == part = "topology" /\ A

MCFairness ==
    /\ \A n \in TNode :
           /\ WF_tvars(T(Managing(n))) /\ WF_tvars(T(PublishPersistentPeers(n)))
           /\ WF_tvars(T(CreateTcpClient(n))) /\ WF_tvars(T(AddStaticPeer(n)))
           /\ \A p \in TNode : WF_tvars(T(Overdue(n, p)))
    /\ \A c \in 1 .. MaxConns :
           /\ WF_tvars(T(Accept(c)))
           /\ \A n \in TNode : WF_tvars(T(RemoteHello(c, n))) /\ WF_tvars(T(CloseEnd(c, n)))

MCSpec == MCInit /\ [][MCNext]_allvars /\ MCFairness

\* A filter has one meaning in a node, for the actor that blocks (Filter::matches), for
\* the router and for those who share its subscription.
OneMeaning == part = "filters" => BlocksLikeRouter /\ EqualMeansSame

\* A peer reads the filter and the arguments of a subscription as they were written
\* (to_publication_map, to_map).
PeerReadsFilter == part = "filters" => FilterSurvives /\ ArgumentsSurvive
=============================================================================
