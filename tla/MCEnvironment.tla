---------------------------- MODULE MCEnvironment ----------------------------
(***************************************************************************)
(* What connects a node with the world: HTTP clients and the actors that   *)
(* answer them (HttpIngress), HTTP servers elsewhere (HttpClient), a       *)
(* sensor, a display and pins (Scd30Actor, NotificationCenter, GpioActor). *)
(* They share no state, so each behaviour is one of part.  As part never   *)
(* changes, the fairness of an action of one part can be stated together   *)
(* with that of an action of another.                                      *)
(***************************************************************************)
EXTENDS HttpIngress, HttpClient, Scd30Actor, NotificationCenter, GpioActor

\* Requests, two of which cannot be answered.
Requests ==
    {[method |-> "GET", id |-> TRUE, url |-> TRUE], [method |-> "POST", id |-> TRUE, url |-> TRUE],
     [method |-> "PUT", id |-> TRUE, url |-> TRUE], [method |-> "GET", id |-> FALSE, url |-> TRUE]}

\* Both filters have the same path.
Ids(x) == "/a"
Targets(r) == {"/a"}

VARIABLE part

allvars == <<hvars, cvars, svars, nvars, gvars, part>>

Of(p) ==
    /\ part = p /\ UNCHANGED part
    /\ p \notin {"ingress", "table"} => UNCHANGED hvars
    /\ p # "client" => UNCHANGED cvars
    /\ p # "scd30" => UNCHANGED svars
    /\ p # "notifications" => UNCHANGED nvars
    /\ p # "gpio" => UNCHANGED gvars

\* The ingress has requests and their answers, or one answer and one change of the
\* subscriptions.  The table of the same actor has changes only, and others subscribe
\* from the beginning.
MCInit ==
    /\ part \in {"ingress", "table", "client", "scd30", "notifications", "gpio"}
    /\ CInit /\ SInit /\ NInit /\ GInit
    /\ part # "gpio" => does = "listens"
    /\ CASE part = "ingress" -> /\ HInit(MaxAnswers, 0) \/ HInit(1, 1)
                                /\ subscribed["a1"] \in {{}, {"lua"}} /\ subscribed["a2"] = {}
         [] part = "table" -> /\ HInit(0, MaxChanges)
                              /\ subscribed["a1"] \in {{}, {"lua"}, {"p1", "p2"}}
                              /\ subscribed["a2"] \in {{}, {"lua", "p1"}}
         [] OTHER -> HInit(0, 0) /\ \A f \in HFilter : subscribed[f] = {}

MCNext ==
    \/ Of("ingress") /\ HNext /\ \A f \in HFilter : subscribed'[f] \subseteq {"lua"}
    \/ Of("table") /\ UNCHANGED reqs_side /\ HNext
    \/ Of("client") /\ CNext
    \/ Of("scd30") /\ SNext
    \/ Of("notifications") /\ NNext
    \/ Of("gpio") /\ GNext

\* HFairness, CFairness, SFairness, NFairness and GFairness.
MCFairness ==
    /\ WF_allvars(\/ Of("ingress") /\ ReceiveUpdate
                  \/ Of("table") /\ ReceiveUpdate
                  \/ Of("client") /\ thread_function
                  \/ Of("scd30") /\ \E b \in BOOLEAN : SensorWait(b)
                  \/ Of("notifications") /\ cleanup
                  \/ Of("gpio") /\ (TakeInterrupt \/ ReadLevel \/ LockShared \/ PublishLevel))
    /\ WF_allvars(\/ Of("ingress") /\ Wakeup
                  \/ Of("client") /\ \E j \in jobs : RunJob(j)
                  \/ Of("scd30") /\ exiting > 0 /\ ReceiveExit
                  \/ Of("notifications") /\ Tick
                  \/ Of("gpio") /\ receive_message)
    /\ WF_allvars(\/ Of("ingress") /\ \E r \in HttpRequest : Age(r)
                  \/ Of("gpio") /\ (PublishToItself \/ ChangeSubscriptions))

MCSpec == MCInit /\ [][MCNext]_allvars /\ MCFairness
=============================================================================
