------------------------ MODULE MCPeerAnnouncements -------------------------
(***************************************************************************)
(* Instances of PeerAnnouncements for TLC: two peers and two receivers, of *)
(* which any may act for the forwarder.                                    *)
(***************************************************************************)
EXTENDS PeerAnnouncements, TLC

CONSTANTS c1, c2, r1, r2, n1, n2, here

MCFilter == {[required |-> {c1}, optional |-> {c2}]}
A(fetch) == [priority |-> 0, fetch |-> fetch]
MCArgument == {A("FUTURE"), A("FETCH")}
FetchArgument == {A("FUTURE"), A("FETCH"), A("FETCH_FUTURE")}
FutureArgument == {A("FUTURE")}

MCMessage == {[type |-> "message"]}
MCCarries(p) == IF p.type = "message" THEN {c1} ELSE {}
MCNested(p) == {}
MCSelects(f, g) == FALSE

PeerSymmetry == Permutations({n1, n2})
MCSymmetry == {f @@ g : f \in Permutations({r1, r2}),
                        g \in Permutations({n1, n2})}
=============================================================================
