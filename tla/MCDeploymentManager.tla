------------------------ MODULE MCDeploymentManager -------------------------
(***************************************************************************)
(* Deployments for TLC, in four parts, each with all interleavings of what *)
(* it is about.                                                            *)
(*   cascade    One deployment with and without requirements, two versions *)
(*              and a time to live, and one that needs its type and that   *)
(*              of an unmanaged actor, so that both wait for that one.     *)
(*   failures   The same, with an actor that fails and an executor that    *)
(*              goes and comes.                                            *)
(*   labels     Constraints on labels that come, go and are hidden.        *)
(*   code       Two deployments of the same code, with ends that differ    *)
(*              and are renewed, one of them without the code.             *)
(***************************************************************************)
EXTENDS DeploymentManager

CONSTANTS d1, d2, ta, tb, tu

Of(d, t, v, ttl, req, con, code) ==
    [name |-> d, type |-> t, version |-> v, ttl |-> ttl, required |-> req,
     constraints |-> con, code |-> code]

Brief == Of(d1, ta, 1, 1, {}, {}, TRUE)

Waiting == {Brief, Of(d1, ta, 2, 0, {tu}, {}, TRUE), Of(d2, tb, 1, 0, {tu, ta}, {}, TRUE)}

Placed == {Brief, Of(d2, tb, 1, 0, {ta}, {<<"site", 1>>}, TRUE)}

Sharing == {Brief, Of(d2, ta, 1, 2, {}, {}, FALSE), Of(d2, ta, 1, 0, {}, {}, FALSE)}

Offers == Waiting \cup Placed \cup Sharing

Labels == {[command |-> "upsert", key |-> "site", value |-> 1],
           [command |-> "upsert", key |-> "room", value |-> 1],
           [command |-> "delete", key |-> "site", value |-> 1]}

VARIABLE part
mcvars == <<dvars, part>>

Step(offers) == ReceiveOneOf(offers) \/ OtherStep

SameLabels == manager'.labels = manager.labels
SameExecutors == manager'.executors = manager.executors

MCInit ==
    /\ DInit
    /\ \/ part \in {"cascade", "failures"} /\ clock = 1
       \/ part \in {"labels", "code"} /\ clock = 0

MCNext ==
    /\ UNCHANGED part
    /\ \/ /\ part = "cascade" /\ Step(Waiting)
          /\ failures' = 0 /\ SameLabels /\ SameExecutors /\ ~CleanupCode
       \/ /\ part = "failures" /\ Step(Waiting)
          /\ inputs' <= 3 /\ SameLabels
       \/ /\ part = "labels" /\ Step(Placed)
          /\ inputs' <= 4 /\ failures' = 0 /\ registered' = registered
       \/ /\ part = "code" /\ Step(Sharing)
          /\ inputs' <= 3 /\ failures' = 0 /\ SameLabels /\ SameExecutors
          /\ registered' = registered

MCSpec == MCInit /\ [][MCNext]_mcvars /\ DFairness
=============================================================================
