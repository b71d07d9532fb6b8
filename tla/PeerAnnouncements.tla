------------------------- MODULE PeerAnnouncements --------------------------
(***************************************************************************)
(* What a node's peers know of its subscriptions.  The router announces    *)
(* every change that matters to some peer with a publication that names    *)
(* the peers to include or to exclude; each connection to a peer           *)
(* subscribes to these publications when the peer's hello arrives, and     *)
(* replays the subscriptions that exist at that time                       *)
(* (uActor/src/remote/remote_connection.cpp).                              *)
(*                                                                         *)
(* The peers' knowledge is recorded in two history variables: told follows *)
(* the addresses that the router writes, heard what passes the filter that *)
(* the connection really subscribes with.  The subscription processors     *)
(* and the network between the nodes are left out.                         *)
(***************************************************************************)
EXTENDS Router

VARIABLES
    connected,   \* peers whose connection subscribes to announcements
    replayed,    \* those of them whose hello has been handled
    told,        \* peer -> the <<filter, arguments>> announced to it
    heard        \* peer -> those that passed the connection's filter

\* Only the router publishes announcements.
ASSUME AnnouncementAssumption == Message \cap Notice = {}

pvars == <<vars, connected, replayed, told, heard>>

\* The optional constraints include_node_id EQ p and exclude_node_id NE p.
AddressedTo(n, p) == n.include \in {NoNode, p} /\ n.exclude # p

\* Mutant: include_node_id is required instead of optional.
ConnectionFilterStrict(n, p) ==
    n.publisher = Local /\ n.include = p /\ n.exclude # p

\* With the required publisher_node_id EQ NODE_ID.
ConnectionFilter(n, p) == n.publisher = Local /\ AddressedTo(n, p)

Entry(n) == <<n.filter, n.args>>

\* A peer stores what is added, unless it is a mere fetch, and forgets what is
\* removed.
Learn(known, S) ==
    (known \cup {Entry(n) : n \in {m \in S : m.type = "local_subscription_added"
                                             /\ m.args.fetch # "FETCH"}})
      \ {Entry(n) : n \in {m \in S : m.type = "local_subscription_removed"}}

Notices == {o.pub : o \in out} \cap Notice

\* The entries of subscription_lists_for(p).
Replay(p) == {<<Wire(stored, subscriptions[i].filter), subscriptions[i].args>> :
                 i \in Fulfillable(p)}

PInit ==
    /\ Init
    /\ connected = {} /\ replayed = {}
    /\ told = [p \in Peer |-> {}]
    /\ heard = [p \in Peer |-> {}]

\* Where the router has p down as the origin of a subscription.
Held(p) == {d \in SubId \X Receiver :
               /\ d[1] \in DOMAIN subscriptions
               /\ p \in subscriptions[d[1]].receivers[d[2]]}

\* Any step of the router, with what it announces.  A peer subscribes only
\* after its hello.
RouterStep ==
    /\ Next
    /\ \A p \in Peer \ replayed : Held(p)' \subseteq Held(p)
    /\ told' = [p \in Peer |->
                   IF p \in connected
                   THEN Learn(told[p], {n \in Notices' : AddressedTo(n, p)})
                   ELSE {}]
    /\ heard' = [p \in Peer |->
                    IF p \in connected
                    THEN Learn(heard[p], {n \in Notices' : ConnectionFilter(n, p)})
                    ELSE {}]
    /\ UNCHANGED <<connected, replayed>>

\* handle_remote_hello first subscribes to the announcements.  The handler
\* holds remote_mtx to its end, but not the router's lock.
Hello(p) ==
    /\ p \notin connected
    /\ connected' = connected \cup {p}
    /\ UNCHANGED <<vars, replayed, told, heard>>

\* ... and then sends the list of the subscriptions that exist by now.
SendList(p) ==
    /\ p \in connected \ replayed
    /\ SubscriptionListsFor(p)
    /\ replayed' = replayed \cup {p}
    /\ told' = [told EXCEPT ![p] = @ \cup Replay(p)]
    /\ heard' = [heard EXCEPT ![p] = @ \cup Replay(p)]
    /\ UNCHANGED connected

\* ~RemoteConnection, but for the removals of the peer's own subscriptions:
\* those are Unsubscribe steps of the forwarder's receiver.
Disconnect(p) ==
    /\ p \in replayed
    /\ connected' = connected \ {p}
    /\ replayed' = replayed \ {p}
    /\ told' = [told EXCEPT ![p] = {}]
    /\ heard' = [heard EXCEPT ![p] = {}]
    /\ UNCHANGED vars

PNext == RouterStep \/ \E p \in Peer : Hello(p) \/ SendList(p) \/ Disconnect(p)

PSpec == PInit /\ [][PNext]_pvars

(***************************************************************************)
(* Properties.                                                             *)
(***************************************************************************)
\* No constraint is required by one filter and optional in another.
Unmixed == \A f, g \in Filter : f.required \cap g.optional = {}

\* The subscriptions that some node other than p is behind.
Wanted(p) == {<<subscriptions[i].filter, subscriptions[i].args>> :
                 i \in {j \in DOMAIN subscriptions :
                           nodes(subscriptions[j].receivers) \ {p} # {}}}

\* The type invariant of the history variables.
PTypeOK ==
    /\ connected \in SUBSET Peer /\ replayed \in SUBSET connected
    /\ told \in [Peer -> SUBSET ([required : SUBSET Constraint,
                                  optional : SUBSET Constraint] \X Argument)]
    /\ heard \in [Peer -> SUBSET ([required : SUBSET Constraint,
                                   optional : SUBSET Constraint] \X Argument)]

\* By the addresses in the router's announcements every peer knows, from the
\* moment its hello is handled, exactly the subscriptions that somebody other than itself is
\* behind: no interleaving of joining, leaving, closing and connecting nodes
\* makes the router forget to announce, or to withdraw, a subscription.
ToldExactly == \A p \in replayed : told[p] = Wanted(p)

\* A peer never keeps a subscription that nobody but itself is behind: it
\* would go on forwarding publications that nobody wants.
HeardNothingStale == \A p \in replayed : heard[p] \subseteq Wanted(p)

\* The announcements that reach the connections inform every peer as the
\* addresses say.
HeardExactly == \A p \in replayed : heard[p] = Wanted(p)
=============================================================================
