--------------------------- MODULE MCAnnouncements ---------------------------
(***************************************************************************)
(* PeerAnnouncements for TLC in two parts: with two receivers, and with    *)
(* one receiver that uses every fetch policy.                              *)
(***************************************************************************)
EXTENDS MCPeerAnnouncements

VARIABLE part

MCInit == part \in {"receivers", "fetch"} /\ PInit

MCNext ==
    /\ PNext /\ UNCHANGED part
    /\ IF part = "receivers"
       THEN \A i \in DOMAIN subscriptions' : subscriptions'[i].args.fetch # "FETCH_FUTURE"
       ELSE Cardinality({r \in Receiver : phase'[r] # "none"}) <= 1

MCSpec == MCInit /\ [][MCNext]_<<pvars, part>>
=============================================================================
