------------------------- MODULE SequenceForwarding -------------------------
(***************************************************************************)
(* How publications travel between nodes: the sequence numbers that        *)
(* publish_internal assigns (router.cpp), the queue of the forwarder, the  *)
(* duplicate filters should_forward and should_accept                      *)
(* (sequence_number_forwarding_strategy.cpp) and the loop of forwarders    *)
(* that each publication carries along.                                    *)
(*                                                                         *)
(* Every peer has subscribed to what is published.  A publication may      *)
(* match several of the forwarder's subscriptions, and is then queued      *)
(* once for each.  publish() holds the router's lock shared: publications  *)
(* of different threads overtake each other between getting their number   *)
(* and entering the queue.  The forwarder's and the reader's thread are    *)
(* serialised by remote_mtx.                                               *)
(***************************************************************************)
EXTENDS Integers, FiniteSets, Sequences, Functions

CONSTANTS
    FNode,
    Link,        \* set of ordered pairs of nodes that are connected
    Publisher,   \* nodes whose actors publish
    Threads,     \* how many threads of a node publish at the same time
    MaxCopies,   \* how many subscriptions of the forwarder one message matches
    MaxSeq,      \* bound: publications of one life of a node
    MaxEpoch,    \* bound: lives of a node
    MaxDrops     \* bound: lost connections

VARIABLES
    sequence_number,   \* node -> the next number
    epoch,             \* node -> its life
    publishing,        \* node -> set of [pub, copies]: numbered, not all queued
    queue,             \* node -> the forwarder's queue of publications
    outgoing,          \* link -> outgoing_sequence_infos of the connection
    incomming,         \* node -> incomming_sequence_infos
    wire,              \* link -> publications under way
    accepted,          \* history: node -> what it accepted, in order, since
                       \* it started
    sent,              \* history: link -> what the connection has sent
    lost,              \* history: what a filter dropped that was no duplicate
    drops              \* lost connections so far

fvars == <<sequence_number, epoch, publishing, queue, outgoing, incomming, wire,
           accepted, sent, lost, drops>>

ASSUME ForwardingAssumption ==
    /\ Link \subseteq FNode \X FNode /\ Publisher \subseteq FNode
    /\ \A l \in Link : l[1] # l[2] /\ <<l[2], l[1]>> \in Link
    /\ {Threads, MaxCopies, MaxSeq, MaxEpoch, MaxDrops} \subseteq Nat /\ MaxEpoch > 0

(***************************************************************************)
(* Publications: [from, epoch, seq, via], via the nodes that forwarded it  *)
(* (_internal_forwarded_by, searched for whole names only).  A table of    *)
(* SequenceInfos is a function on the publishers heard of.                 *)
(***************************************************************************)
Pub == [from : FNode, epoch : 1 .. MaxEpoch, seq : 1 .. MaxSeq, via : SUBSET FNode]

Id(p) == <<p.from, p.epoch, p.seq>>

Info(p) == [epoch |-> p.epoch, seq |-> p.seq]

NoInfos == [n \in {} |-> {}]

\* Mutant: the epoch is not compared.
is_older_than_seq(info, p) == p.seq > info.seq

\* Mutant: the number that follows directly does not count as newer.
is_older_than_gap(info, p) ==
    p.epoch > info.epoch \/ (p.epoch = info.epoch /\ p.seq > info.seq + 1)

is_older_than(info, p) ==
    p.epoch > info.epoch \/ (p.epoch = info.epoch /\ p.seq > info.seq)

\* Not recorded yet, or newer than what is.
Newer(infos, p) == p.from \in DOMAIN infos => is_older_than(infos[p.from], p)

Record(infos, p) ==
    [n \in DOMAIN infos \cup {p.from} |-> IF n = p.from THEN Info(p) ELSE infos[n]]

(***************************************************************************)
(* Initial state.                                                          *)
(***************************************************************************)
FInit ==
    /\ sequence_number = [n \in FNode |-> 1]
    /\ epoch = [n \in FNode |-> 1]
    /\ publishing = [n \in FNode |-> {}]
    /\ queue = [n \in FNode |-> <<>>]
    /\ outgoing = [l \in Link |-> NoInfos]
    /\ incomming = [n \in FNode |-> NoInfos]
    /\ wire = [l \in Link |-> <<>>]
    /\ accepted = [n \in FNode |-> <<>>]
    /\ sent = [l \in Link |-> {}]
    /\ lost = {}
    /\ drops = 0

(***************************************************************************)
(* publish_internal: a number first, the queue later.                      *)
(***************************************************************************)
Number(n) ==
    /\ n \in Publisher
    /\ Cardinality(publishing[n]) < Threads
    /\ sequence_number[n] <= MaxSeq
    /\ sequence_number' = [sequence_number EXCEPT ![n] = @ + 1]
    /\ \E k \in 1 .. MaxCopies :
          publishing' = [publishing EXCEPT ![n] = @ \cup
              {[pub |-> [from |-> n, epoch |-> epoch[n],
                         seq |-> sequence_number[n], via |-> {}],
                copies |-> k]}]
    /\ UNCHANGED <<epoch, queue, outgoing, incomming, wire, accepted, sent, lost,
                   drops>>

\* What the loop over the receivers has left to do after one of them.
RestOf(t) == IF t.copies = 1 THEN {} ELSE {[t EXCEPT !.copies = @ - 1]}

Enqueue(n) ==
    \E t \in publishing[n] :
        /\ queue' = [queue EXCEPT ![n] = Append(@, t.pub)]
        /\ publishing' = [publishing EXCEPT ![n] = (@ \ {t}) \cup RestOf(t)]
        /\ UNCHANGED <<sequence_number, epoch, outgoing, incomming, wire, accepted,
                       sent, lost, drops>>

(***************************************************************************)
(* TCPForwarder::receive with should_forward, for all subscribed peers.    *)
(***************************************************************************)
\* Mutant: the nodes that a publication came through are not looked at.
should_forward_back(l, p) == Newer(outgoing[l], p)

should_forward(l, p) == l[2] \notin p.via /\ Newer(outgoing[l], p)

Forward(n) ==
    LET p == Head(queue[n])
        Out == {l \in Link : l[1] = n}
        Go == {l \in Out : should_forward(l, p)}
    IN
    /\ queue[n] # <<>>
    /\ queue' = [queue EXCEPT ![n] = Tail(@)]
    /\ outgoing' = [l \in Link |-> IF l \in Go THEN Record(outgoing[l], p)
                                   ELSE outgoing[l]]
    /\ wire' = [l \in Link |-> IF l \in Go THEN Append(wire[l], p) ELSE wire[l]]
    /\ sent' = [l \in Link |-> IF l \in Go THEN sent[l] \cup {Id(p)} ELSE sent[l]]
    /\ lost' = lost \cup {<<n, Id(p)>> : l \in {k \in Out \ Go :
                              k[2] \notin p.via /\ Id(p) \notin sent[k]}}
    /\ UNCHANGED <<sequence_number, epoch, publishing, incomming, accepted, drops>>

(***************************************************************************)
(* process_remote_publication with should_accept; what is accepted gets    *)
(* the partner's name and is published, here to the forwarder's queue.     *)
(***************************************************************************)

add_incomming_routing_fields(p, partner) == [p EXCEPT !.via = @ \cup {partner}]

Receive(l) ==
    LET p == Head(wire[l])
        n == l[2]
        ok == p.from # n /\ Newer(incomming[n], p)
    IN
    /\ wire[l] # <<>>
    /\ wire' = [wire EXCEPT ![l] = Tail(@)]
    /\ IF ok
       THEN /\ incomming' = [incomming EXCEPT ![n] = Record(@, p)]
            /\ accepted' = [accepted EXCEPT ![n] = Append(@, Id(p))]
            /\ \E k \in 1 .. MaxCopies :
                  queue' = [queue EXCEPT ![n] =
                      @ \o [i \in 1 .. k |-> add_incomming_routing_fields(p, l[1])]]
            /\ UNCHANGED lost
       ELSE /\ UNCHANGED <<incomming, accepted, queue>>
            /\ lost' = IF p.from # n /\ Id(p) \notin Range(accepted[n])
                       THEN lost \cup {<<n, Id(p)>>} ELSE lost
    /\ UNCHANGED <<sequence_number, epoch, publishing, outgoing, sent, drops>>

(***************************************************************************)
(* A connection is lost, with what is under way, and made again: both ends *)
(* start with a new RemoteConnection.  A node that restarts loses all of   *)
(* its connections and tables, counts from one and has a later epoch.      *)
(***************************************************************************)
Reset(L) ==
    /\ wire' = [l \in Link |-> IF l \in L THEN <<>> ELSE wire[l]]
    /\ outgoing' = [l \in Link |-> IF l \in L THEN NoInfos ELSE outgoing[l]]
    /\ sent' = [l \in Link |-> IF l \in L THEN {} ELSE sent[l]]

Reconnect(l) ==
    /\ drops < MaxDrops
    /\ drops' = drops + 1
    /\ Reset({l, <<l[2], l[1]>>})
    /\ UNCHANGED <<sequence_number, epoch, publishing, queue, incomming, accepted,
                   lost>>

Restart(n) ==
    /\ epoch[n] < MaxEpoch
    /\ epoch' = [epoch EXCEPT ![n] = @ + 1]
    /\ sequence_number' = [sequence_number EXCEPT ![n] = 1]
    /\ publishing' = [publishing EXCEPT ![n] = {}]
    /\ queue' = [queue EXCEPT ![n] = <<>>]
    /\ incomming' = [incomming EXCEPT ![n] = NoInfos]
    /\ accepted' = [accepted EXCEPT ![n] = <<>>]
    /\ Reset({l \in Link : n \in {l[1], l[2]}})
    /\ UNCHANGED <<lost, drops>>

FNext ==
    \/ \E n \in FNode : Number(n) \/ Enqueue(n) \/ Forward(n) \/ Restart(n)
    \/ \E l \in Link : Receive(l) \/ Reconnect(l)

\* A publishing thread finishes, the forwarder and the reader keep running.
Fairness ==
    /\ \A n \in FNode : WF_fvars(Enqueue(n)) /\ WF_fvars(Forward(n))
    /\ \A l \in Link : WF_fvars(Receive(l))

FSpec == FInit /\ [][FNext]_fvars /\ Fairness

(***************************************************************************)
(* Properties.                                                             *)
(***************************************************************************)
\* The type invariant.
FTypeOK ==
    /\ sequence_number \in [FNode -> 1 .. MaxSeq + 1]
    /\ epoch \in [FNode -> 1 .. MaxEpoch]
    /\ publishing \in [FNode -> SUBSET [pub : Pub, copies : 1 .. MaxCopies]]
    /\ \A n \in FNode : queue[n] \in Seq(Pub)
    /\ \A l \in Link : wire[l] \in Seq(Pub)
    /\ drops \in 0 .. MaxDrops

\* No node processes a publication twice, or out of the publisher's order,
\* however many ways lead to the node, whoever restarts and whichever
\* connection is lost: should_accept lets numbers of a publisher only grow.
AcceptedOnceInOrder ==
    \A n \in FNode : \A i, j \in DOMAIN accepted[n] :
        LET a == accepted[n][i]  b == accepted[n][j]
        IN  i < j /\ a[1] = b[1] =>
                b[2] > a[2] \/ (b[2] = a[2] /\ b[3] > a[3])

\* A publication is never sent to a node that it comes from or has passed:
\* the list of forwarders ends cycles before the sequence numbers do.
NeverReturned ==
    \A l \in Link : \A p \in Range(wire[l]) : l[2] \notin p.via \cup {p.from}

\* The filters only drop what is a duplicate: should_forward what the
\* connection has already sent, should_accept what the node has accepted.
OnlyDuplicatesDropped == lost = {}

\* Every publication reaches every node, if no connection is lost, no node
\* restarts and a node's publications are queued in the order of their numbers.
EverybodyHears ==
    \A n \in Publisher, m \in FNode, s \in 1 .. MaxSeq :
        m # n /\ sequence_number[n] > s ~> <<n, 1, s>> \in Range(accepted[m])
=============================================================================
