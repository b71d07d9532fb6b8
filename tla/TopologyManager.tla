--------------------------- MODULE TopologyManager ---------------------------
(***************************************************************************)
(* How nodes come to be connected: the topology managers                   *)
(* (topology_manager.cpp) decide whom to connect to, the TCP forwarders    *)
(* make the connections, and the connections report to the topology        *)
(* managers when the peer's hello arrives and when they end.               *)
(*                                                                         *)
(* The topology manager and the forwarder are different threads that talk  *)
(* through the router, in order: mailbox and connects.  Connections break  *)
(* and nodes restart at any time; the two ends notice one after the other. *)
(* Time is abstracted to whether an attempt is overdue (5 s); the static   *)
(* peers are announced again and again (every 30 s).                       *)
(***************************************************************************)
EXTENDS Integers, Sequences, FiniteSets, SequencesExt

CONSTANTS
    TNode, NobodyYet,
    Server,         \* SERVER_NODES, the same list everywhere
    StaticPeer,     \* node -> the peers of its command line
    MaxConns,       \* bound: connections at a time
    MaxAnnounced,   \* bound: announcements from outside
    MaxFaults       \* bound: breaks, failed or slow attempts and restarts

VARIABLES
    manager,        \* node -> the state of its topology manager
    mailbox,        \* node -> messages for the topology manager
    connects,       \* node -> tcp_client_connect publications
    conns,          \* connection -> see Free
    toadd,          \* node -> static peers that main has still to send
    announced, faults

tvars == <<manager, mailbox, connects, conns, toadd, announced, faults>>

ASSUME TopologyAssumption ==
    /\ IsFiniteSet(TNode) /\ NobodyYet \notin TNode /\ Server \subseteq TNode /\ StaticPeer \in [TNode -> SUBSET TNode]
    /\ {MaxConns, MaxAnnounced, MaxFaults} \subseteq Nat

FreshManager == [reachable_peers |-> {}, in_progress |-> {}, overdue |-> {},
                 persistent_peers |-> {}, announcement_active |-> FALSE]

\* up: the ends that have the connection in their table; hello: the ends a
\* hello is on its way to; greeted: those that know their partner.
Free == [client |-> NobodyYet, server |-> NobodyYet, up |-> {}, pending |-> FALSE,
         hello |-> {}, greeted |-> {}, broken |-> FALSE]

Other(c, n) == IF n = conns[c].client THEN conns[c].server ELSE conns[c].client

ManagerMessage(type, p) == [type |-> type, peer |-> p]

TInit ==
    /\ manager = [n \in TNode |-> FreshManager]
    /\ mailbox = [n \in TNode |-> <<>>] /\ connects = [n \in TNode |-> <<>>]
    /\ conns = [c \in 1 .. MaxConns |-> Free]
    /\ toadd = StaticPeer
    /\ announced = 0 /\ faults = 0

(***************************************************************************)
(* The topology manager.                                                   *)
(***************************************************************************)
Next1(n, type) == mailbox[n] # <<>> /\ Head(mailbox[n]).type = type
Peer1(n) == Head(mailbox[n]).peer
Consume(n) == mailbox' = [mailbox EXCEPT ![n] = Tail(@)]

\* An attempt that is not overdue is waited for.
should_connect(m, p, forced) ==
    /\ p \in m.in_progress => p \in m.overdue
    /\ p \notin m.reachable_peers
    /\ forced \/ p \in Server

Forget(m, p) == [m EXCEPT !.in_progress = @ \ {p}, !.overdue = @ \ {p}]

\* receive_peer_announcement.
ReceiveAnnouncement(n) ==
    /\ Next1(n, "announcement") \/ Next1(n, "forced")
    /\ LET p == Peer1(n)
           m == manager[n]
           rest == IF p \in m.overdue THEN Forget(m, p) ELSE m
       IN  IF should_connect(m, p, Next1(n, "forced"))
           THEN /\ connects' = [connects EXCEPT ![n] = Append(@, p)]
                /\ manager' = [manager EXCEPT ![n] =
                                  [rest EXCEPT !.in_progress = @ \cup {p}]]
           ELSE /\ manager' = [manager EXCEPT ![n] = rest]
                /\ UNCHANGED connects
    /\ Consume(n)
    /\ UNCHANGED <<conns, toadd, announced, faults>>

peer_added(m, p) == [Forget(m, p) EXCEPT !.reachable_peers = @ \cup {p}]

\* The list is looked at before the peer is taken off it.
peer_removed(m, p) ==
    [m EXCEPT !.reachable_peers = @ \ {p},
              !.announcement_active = @ \/ m.reachable_peers = {}]

\* receive_peer_update.
ReceivePeerUpdate(n) ==
    /\ \/ /\ Next1(n, "peer_added")
          /\ manager' = [manager EXCEPT ![n] = peer_added(@, Peer1(n))]
       \/ /\ Next1(n, "peer_removed")
          /\ manager' = [manager EXCEPT ![n] = peer_removed(@, Peer1(n))]
    /\ Consume(n)
    /\ UNCHANGED <<connects, conns, toadd, announced, faults>>

add_static_peer(m, p) ==
    [m EXCEPT !.persistent_peers = @ \cup {p},
              !.announcement_active = @ \/ m.reachable_peers = {}]

ReceiveStaticPeer(n) ==
    /\ Next1(n, "add_static_peer")
    /\ manager' = [manager EXCEPT ![n] = add_static_peer(@, Peer1(n))]
    /\ Consume(n)
    /\ UNCHANGED <<connects, conns, toadd, announced, faults>>

\* publish_persistent_peers.  The announcements come back to the manager, and
\* have long been dealt with when the next are made.
PublishPersistentPeers(n) ==
    /\ manager[n].announcement_active /\ mailbox[n] = <<>>
    /\ mailbox' = [mailbox EXCEPT ![n] =
           SetToSeq({ManagerMessage("announcement", p) : p \in manager[n].persistent_peers})]
    /\ UNCHANGED <<manager, connects, conns, toadd, announced, faults>>

\* The connection of n to p is being made.
Underway(n, p) ==
    \/ Contains(connects[n], p)
    \/ \E c \in DOMAIN conns : /\ conns[c].client = n /\ conns[c].server = p
                               /\ n \in conns[c].up /\ n \notin conns[c].greeted
                               /\ ~conns[c].broken

\* The deadline of an attempt passes.
Pass(n, p) ==
    /\ p \in manager[n].in_progress \ manager[n].overdue
    /\ manager' = [manager EXCEPT ![n].overdue = @ \cup {p}]
    /\ UNCHANGED <<mailbox, connects, conns, toadd, announced>>

\* Mutant: an attempt is never given up.
Overdue_never(n, p) == FALSE

Overdue(n, p) == ~Underway(n, p) /\ Pass(n, p) /\ UNCHANGED faults

\* An attempt that takes longer is a fault.
Slow(n, p) == Underway(n, p) /\ Pass(n, p) /\ faults < MaxFaults /\ faults' = faults + 1

(***************************************************************************)
(* The forwarder and its connections.                                      *)
(***************************************************************************)
\* create_tcp_client with add_remote_connection, which sends the hello.  The
\* server has still to accept.
CreateTcpClient(n) ==
    /\ connects[n] # <<>>
    /\ connects' = [connects EXCEPT ![n] = Tail(@)]
    /\ \E c \in DOMAIN conns :
           /\ conns[c] = Free /\ \A d \in 1 .. c - 1 : conns[d] # Free
           /\ conns' = [conns EXCEPT ![c] =
                  [Free EXCEPT !.client = n, !.server = Head(connects[n]),
                               !.up = {n}, !.pending = TRUE,
                               !.hello = {Head(connects[n])}]]
    /\ UNCHANGED <<manager, mailbox, toadd, announced, faults>>

\* connect() fails.
ConnectFails(n) ==
    /\ connects[n] # <<>> /\ faults < MaxFaults
    /\ connects' = [connects EXCEPT ![n] = Tail(@)]
    /\ faults' = faults + 1
    /\ UNCHANGED <<manager, mailbox, conns, toadd, announced>>

\* listen_handler with add_remote_connection.
Accept(c) ==
    /\ conns[c].pending
    /\ conns' = [conns EXCEPT ![c].pending = FALSE, ![c].up = @ \cup {conns[c].server}]
    /\ UNCHANGED <<manager, mailbox, connects, toadd, announced, faults>>

\* handle_remote_hello: the first hello is answered, the second is not.
RemoteHello(c, n) ==
    /\ n \in conns[c].hello \cap conns[c].up
    /\ IF n \in conns[c].greeted
       THEN /\ conns' = [conns EXCEPT ![c].hello = @ \ {n}]
            /\ UNCHANGED mailbox
       ELSE /\ conns' = [conns EXCEPT ![c].greeted = @ \cup {n},
                                      ![c].hello = (@ \ {n}) \cup {Other(c, n)}]
            /\ mailbox' = [mailbox EXCEPT ![n] =
                              Append(@, ManagerMessage("peer_added", Other(c, n)))]
    /\ UNCHANGED <<manager, connects, toadd, announced, faults>>

\* Mutant: a connection that ends says nothing.
Removal_silent(box, c, n) == box

\* ~RemoteConnection, if the partner was known.
Removal(box, c, n) ==
    IF n \in conns[c].greeted
    THEN [box EXCEPT ![n] = Append(@, ManagerMessage("peer_removed", Other(c, n)))] ELSE box

Without(c, n) ==
    LET r == [conns[c] EXCEPT !.up = @ \ {n}, !.hello = @ \ {n}, !.broken = TRUE]
    IN  IF r.up = {} THEN Free
        ELSE IF n = conns[c].server THEN [r EXCEPT !.pending = FALSE] ELSE r

\* tcp_reader finds the connection closed, or keepalive shut it down.
CloseEnd(c, n) ==
    /\ n \in conns[c].up
    /\ conns[c].broken /\ ~conns[c].pending
    /\ mailbox' = Removal(mailbox, c, n)
    /\ conns' = [conns EXCEPT ![c] = Without(c, n)]
    /\ UNCHANGED <<manager, connects, toadd, announced, faults>>

\* The network drops a connection.
Break(c) ==
    /\ conns[c] # Free /\ ~conns[c].broken /\ faults < MaxFaults
    /\ faults' = faults + 1
    /\ conns' = [conns EXCEPT ![c].broken = TRUE, ![c].pending = FALSE,
                              ![c].hello = {}]
    /\ UNCHANGED <<manager, mailbox, connects, toadd, announced>>

\* A node starts again; its peers find their connections closed.
NodeRestarts(n) ==
    /\ faults < MaxFaults /\ faults' = faults + 1
    /\ manager' = [manager EXCEPT ![n] = FreshManager]
    /\ mailbox' = [mailbox EXCEPT ![n] = <<>>]
    /\ connects' = [connects EXCEPT ![n] = <<>>]
    /\ conns' = [c \in DOMAIN conns |->
                    IF n \in conns[c].up \/ (n = conns[c].server /\ conns[c].pending)
                    THEN Without(c, n) ELSE conns[c]]
    /\ toadd' = [toadd EXCEPT ![n] = StaticPeer[n]]
    /\ UNCHANGED announced

(***************************************************************************)
(* main sends the static peers; announcements come from outside.           *)
(***************************************************************************)
AddStaticPeer(n) ==
    \E p \in toadd[n] :
        /\ toadd' = [toadd EXCEPT ![n] = @ \ {p}]
        /\ mailbox' = [mailbox EXCEPT ![n] = Append(@, ManagerMessage("add_static_peer", p))]
        /\ UNCHANGED <<manager, connects, conns, announced, faults>>

Announce(n) ==
    /\ announced < MaxAnnounced /\ announced' = announced + 1
    /\ \E p \in TNode \ {n}, type \in {"announcement", "forced"} :
           mailbox' = [mailbox EXCEPT ![n] = Append(@, ManagerMessage(type, p))]
    /\ UNCHANGED <<manager, connects, conns, toadd, faults>>

Managing(n) == ReceiveAnnouncement(n) \/ ReceivePeerUpdate(n) \/ ReceiveStaticPeer(n)

TNext ==
    \/ \E n \in TNode :
           \/ Managing(n) \/ PublishPersistentPeers(n) \/ CreateTcpClient(n)
           \/ ConnectFails(n) \/ NodeRestarts(n) \/ AddStaticPeer(n) \/ Announce(n)
           \/ \E p \in TNode : Overdue(n, p) \/ Slow(n, p)
    \/ \E c \in DOMAIN conns :
           Accept(c) \/ Break(c) \/ \E n \in TNode : RemoteHello(c, n) \/ CloseEnd(c, n)

\* Both threads run and time passes; faults need not happen.
TFairness ==
    /\ \A n \in TNode :
           /\ WF_tvars(Managing(n)) /\ WF_tvars(PublishPersistentPeers(n))
           /\ WF_tvars(CreateTcpClient(n)) /\ WF_tvars(AddStaticPeer(n))
           /\ \A p \in TNode : WF_tvars(Overdue(n, p))
    /\ \A c \in 1 .. MaxConns :
           /\ WF_tvars(Accept(c))
           /\ \A n \in TNode : WF_tvars(RemoteHello(c, n)) /\ WF_tvars(CloseEnd(c, n))

TSpec == TInit /\ [][TNext]_tvars /\ TFairness

(***************************************************************************)
(* Properties.                                                             *)
(***************************************************************************)
Partners(n) == {Other(c, n) : c \in {d \in DOMAIN conns :
                                        n \in conns[d].up \cap conns[d].greeted}}

\* The updates about p in a mailbox.
Updates(box, p) ==
    {i \in DOMAIN box : box[i].type \in {"peer_added", "peer_removed"} /\ box[i].peer = p}

\* The list R once these have been received: the last one about a peer counts.
Updated(R, box) ==
    {p \in TNode :
        \/ Updates(box, p) = {} /\ p \in R
        \/ \E i \in Updates(box, p) : /\ box[i].type = "peer_added"
                                      /\ \A j \in Updates(box, p) : j <= i}

Reachable(n) == Updated(manager[n].reachable_peers, mailbox[n])

\* The topology manager never takes a peer for reachable to which there is no
\* connection: it would not connect to it again.
NoPhantomPeer == \A n \in TNode : Reachable(n) \subseteq Partners(n)

\* The static peers that a node announces are connected in the end, whatever
\* breaks before.
StaticPeersStay ==
    <>[](\A n \in TNode : \A p \in StaticPeer[n] \cap Server :
            (p # n /\ manager[n].announcement_active) => p \in manager[n].reachable_peers)
=============================================================================
