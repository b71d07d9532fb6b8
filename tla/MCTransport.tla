----------------------------- MODULE MCTransport -----------------------------
(***************************************************************************)
(* What carries publications: the copies in a node (Publication), the      *)
(* index of an attribute they are looked up in (ConstraintIndex), the      *)
(* bytes between two nodes (MessageStream) and the way through a network   *)
(* (SequenceForwarding).  The four share no state, so each behaviour is    *)
(* one of part; the others stay as they are, and fairness is only asked of *)
(* the actions of part.                                                    *)
(***************************************************************************)
EXTENDS MCPublication, MCConstraintIndex, MessageStream, MCSequenceForwarding

\* Messages whose bytes look like size fields: a framer that loses its place reads
\* a wrong size.
MCMessage == {<<1>>, <<0, 2>>}

VARIABLE part

Others(p) ==
    /\ part = p /\ UNCHANGED part
    /\ p # "copies" => UNCHANGED pubvars
    /\ p # "index" => UNCHANGED cvars
    /\ p # "stream" => UNCHANGED svars
    /\ p # "forwarding" => UNCHANGED fvars

MCInit ==
    /\ part \in {"copies", "index", "stream", "forwarding"}
    /\ PubInit /\ CInit /\ SInit /\ FInit

MCNext ==
    \/ Others("copies") /\ PubNext
    \/ Others("index") /\ CNext
    \/ Others("stream") /\ SNext
    \/ Others("forwarding") /\ FNext

\* StreamFairness and Fairness.
MCFairness ==
    /\ WF_svars(part = "stream" /\ (Setup \/ Select \/ Handle))
    /\ WF_svars(part = "stream" /\ Recv)
    /\ \A n \in FNode : /\ WF_fvars(part = "forwarding" /\ Enqueue(n))
                        /\ WF_fvars(part = "forwarding" /\ Forward(n))
    /\ \A l \in Link : WF_fvars(part = "forwarding" /\ Receive(l))

MCSpec == MCInit /\ [][MCNext]_<<pubvars, cvars, svars, fvars, part>> /\ MCFairness
=============================================================================
