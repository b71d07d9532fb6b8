-------------------------- MODULE DeploymentManager --------------------------
(***************************************************************************)
(* The deployment manager of a node (deployment_manager.cpp), one action   *)
(* per message it handles, with the actors it starts and stops, the store  *)
(* of their code and the clock around it.                                  *)
(*                                                                         *)
(* manager is the state of the DeploymentManager object.  The handlers     *)
(* call each other recursively: a type of actor that appears activates the *)
(* deployments that wait for it, which add their own types, and so on.     *)
(* They are operators on the record; stops collects the exit messages of   *)
(* one handler.                                                            *)
(***************************************************************************)
EXTENDS CodeStore, Sequences, SequencesExt

CONSTANTS
    Offer,           \* deployment publications that arrive: [name, type,
                     \* version, ttl, required, constraints, code]
    UnmanagedType,   \* types of actors that register by themselves
    LabelUpdate,     \* label updates that arrive: [command, key, value]
    HiddenLabel,     \* keys that are not part of the subscription
    Margin,          \* how long after an end its wakeup is set, 10 ms
    MaxRestarts,     \* restarts after a failure, 3 in the code
    Debug,           \* whether assert() is compiled in
    StartTime,       \* times at which the manager may start
    MaxTime,         \* bound: the clock
    MaxInputs,       \* bound: messages from outside
    MaxFailures      \* bound: actors that fail

VARIABLES
    manager,      \* see MInit
    code_store,
    curtailed,    \* history: code that lasted for ever and was given an end
    asked,        \* code that the code store actor has asked other nodes for
    wakeups,      \* times of the wakeups "lifetime_end" in the executor
    spawns,       \* spawn messages on their way to the executor
    actors,       \* actors the executor runs
    events,       \* actor_exit messages in the manager's queue
    clock,
    abandoned,    \* history: deployments that lost their executor
    registered,   \* history: unmanaged actors of a type that registered
    inputs,       \* messages from outside so far
    failures      \* actors that failed so far

store == <<code_store, curtailed, asked>>
dvars == <<manager, store, wakeups, spawns, actors, events, clock, abandoned,
           registered, inputs, failures>>

ASSUME DeploymentAssumption ==
    /\ {Margin, MaxRestarts, MaxTime, MaxInputs, MaxFailures} \subseteq Nat
    /\ StartTime \subseteq Nat
    /\ Debug \in BOOLEAN

Name == {o.name : o \in Offer}
Type == {o.type : o \in Offer} \cup UnmanagedType

Empty == [x \in {} |-> {}]

\* Orders in which the std::sets of addresses in the map of requirements can
\* list their deployments, and those in D that a handler adds.
Order(D) == SetToSeqs(UNION Range(manager.dependencies) \cup D)

(***************************************************************************)
(* A deployment and its subscriptions.                                     *)
(***************************************************************************)
Deployment(o, end) ==
    [type |-> o.type, version |-> o.version, required |-> o.required,
     lifetime_subscription |-> FALSE, restarts |-> -1, lifetime_end |-> end,
     active |-> FALSE]

Cancelation(d) == <<"deployment_cancelation", d>>
Lifetime(d) == <<"actor_lifetime", d>>
Deployments(f) == <<"deployment", f>>

requirements_check(m, d) == m.deployments[d].required \subseteq DOMAIN m.types

\* A number that no actor and no message has.
NewId(m) ==
    CHOOSE i \in 1 .. Cardinality(m.spawns) + Cardinality(actors) + 1 :
        \A a \in m.spawns \cup actors : a.id # i

\* A spawn message to the executor and one start more.  The delay is only a
\* lower bound on when the executor gets it.
start_deployment(m, d) ==
    [m EXCEPT !.spawns = @ \cup {[id |-> NewId(m), name |-> d, stopping |-> FALSE,
                                  type |-> m.deployments[d].type,
                                  version |-> m.deployments[d].version]},
              !.deployments[d].restarts = @ + 1]

stop_deployment(m, d) ==
    [m EXCEPT !.stops = @ \cup {<<d, m.deployments[d].type>>}]

\* History: the manager's count of the types T is not what it should be.
Miscounted(m, T) == [m EXCEPT !.miscounted = @ \cup T]

\* F after x, with x computed once.
Then(x, F(_)) == CHOOSE y \in {F(z) : z \in {x}} : TRUE

\* A loop over the deployments ds.
ForEach(ds, m, Body(_, _)) ==
    LET after[i \in 0 .. Len(ds)] ==
            IF i = 0 THEN m ELSE Then(after[i - 1], LAMBDA s : Body(s, ds[i]))
    IN  after[Len(ds)]

Dependents(m, t, order) ==
    SelectSeq(order, LAMBDA d : t \in DOMAIN m.dependencies
                                /\ d \in m.dependencies[t])

(***************************************************************************)
(* The cascade of activations.  A loop over dependents checks each of them *)
(* in the state its predecessors leave.                                    *)
(***************************************************************************)
RECURSIVE increment_deployed_actor_type_count(_, _, _)

Counted(m, d, order) ==
    Then(increment_deployed_actor_type_count(m, m.deployments[d].type, order),
         LAMBDA n : IF n.deployments[d].active
                    THEN Miscounted(n, {n.deployments[d].type}) ELSE n)

\* Mutant: nobody subscribes to the fate of the actor.
activate_deployment_blind(m, d, order) ==
    Then(Counted(m, d, order),
         LAMBDA n : start_deployment([n EXCEPT !.deployments[d].active = TRUE], d))

\* A cascade comes to a deployment again when it reaches it along two
\* requirements: it is counted and started twice.
activate_deployment(m, d, order) ==
    Then(Counted(m, d, order),
         LAMBDA n : start_deployment(
                        [n EXCEPT !.deployments[d].active = TRUE,
                                  !.deployments[d].lifetime_subscription = TRUE,
                                  !.subs = @ \cup {Lifetime(d)}], d))

actor_type_added(m, t, order) ==
    ForEach(Dependents(m, t, order), m,
            LAMBDA s, d : IF requirements_check(s, d) /\ s.executors # <<>>
                          THEN activate_deployment(s, d, order) ELSE s)

increment_deployed_actor_type_count(m, t, order) ==
    IF t \in DOMAIN m.types THEN [m EXCEPT !.types[t] = @ + 1]
    ELSE Then([m EXCEPT !.types = @ @@ (t :> 1)],
              LAMBDA n : actor_type_added(n, t, order))

RECURSIVE decrement_deployed_actor_type_count(_, _, _)

deactivate_deployment(m, d, order) ==
    IF m.deployments[d].active
    THEN Then(decrement_deployed_actor_type_count(m, m.deployments[d].type, order),
              LAMBDA n : [stop_deployment(n, d)
                              EXCEPT !.deployments[d].active = FALSE])
    ELSE m

\* Mutant: those that need the type stay active.
actor_type_removed_none(m, t, order) == m

actor_type_removed(m, t, order) ==
    ForEach(Dependents(m, t, order), m,
            LAMBDA s, d : deactivate_deployment(s, d, order))

decrement_deployed_actor_type_count(m, t, order) ==
    IF t \notin DOMAIN m.types THEN m
    ELSE IF m.types[t] > 1 THEN [m EXCEPT !.types[t] = @ - 1]
    ELSE Then([m EXCEPT !.types = [u \in DOMAIN @ \ {t} |-> @[u]]],
              LAMBDA n : actor_type_removed(n, t, order))

(***************************************************************************)
(* Insertion into and removal from the map of deployments.                 *)
(***************************************************************************)
add_deployment_dependencies(m, d) ==
    LET req == m.deployments[d].required IN
    [m EXCEPT !.dependencies =
        [t \in DOMAIN @ \cup req |->
            (IF t \in DOMAIN @ THEN @[t] ELSE {})
                \cup (IF t \in req THEN {d} ELSE {})]]

Undepend(m, d) ==
    LET left(t) == m.dependencies[t] \ (IF t \in m.deployments[d].required
                                        THEN {d} ELSE {})
    IN  [t \in {u \in DOMAIN m.dependencies : left(u) # {}} |-> left(t)]

\* Mutant: the requirements keep the pointer to the deployment.
remove_deployment_kept(m, d) ==
    [m EXCEPT !.aborted = @ \/ (Debug /\ m.deployments[d].active),
              !.subs = @ \ {Lifetime(d), Cancelation(d)},
              !.deployments = [e \in DOMAIN @ \ {d} |-> @[e]]]

\* The assertion ends a debug build.  Without it the deployment is erased as
\* it is, and the count of its type stays.
remove_deployment(m, d) ==
    [m EXCEPT !.aborted = @ \/ (Debug /\ m.deployments[d].active),
              !.subs = @ \ {Lifetime(d), Cancelation(d)},
              !.miscounted = @ \cup (IF m.deployments[d].active
                                     THEN {m.deployments[d].type} ELSE {}),
              !.dependencies = Undepend(m, d),
              !.deployments = [e \in DOMAIN @ \ {d} |-> @[e]]]

(***************************************************************************)
(* The state of the manager when the node has started: main() has sent the *)
(* label node_id, which is hidden, and waited for the executor.            *)
(***************************************************************************)
MInit ==
    [executors |-> <<"executor">>,  \* executors of the runtime type
     deployments |-> Empty,         \* name -> Deployment
     dependencies |-> Empty,        \* type -> names that require it
     types |-> Empty,               \* deployed_actor_types: type -> count
     labels |-> Empty,              \* key -> value, without node_id
     subs |-> {Deployments({})},    \* subscriptions beyond those of init
     deployment_sub |-> {Deployments({})},
     ttl_end_times |-> Empty,       \* end -> names, in order of arrival
     miscounted |-> {},             \* history, see Miscounted
     aborted |-> FALSE]

DInit ==
    /\ manager = MInit
    /\ code_store = EmptyStore /\ curtailed = {} /\ asked = {}
    /\ registered = [t \in UnmanagedType |-> 0]
    /\ wakeups = {} /\ spawns = {} /\ actors = {} /\ events = <<>>
    /\ clock \in StartTime /\ abandoned = {} /\ inputs = 0 /\ failures = 0

\* The record the handlers work on, and what is left of it when one returns.
Start == manager @@ [spawns |-> spawns, stops |-> {}]

Return(result) ==
    \E m \in {result} :
    /\ manager' = [f \in DOMAIN manager |-> m[f]]
    /\ spawns' = m.spawns
    /\ actors' = {[a EXCEPT !.stopping = @ \/ <<a.name, a.type>> \in m.stops] :
                      a \in actors}
    /\ abandoned' = abandoned \cap DOMAIN m.deployments

Input == ~manager.aborted /\ inputs < MaxInputs /\ inputs' = inputs + 1

(***************************************************************************)
(* receive_deployment.                                                     *)
(***************************************************************************)
\* The subscription has the visible labels as optional constraints: what the
\* publication also names has to agree.
Subscribed(o) ==
    \E s \in manager.deployment_sub :
        \A l \in s[2] : l[1] \in {c[1] : c \in o.constraints} => l \in o.constraints

Accepted(m, o) ==
    /\ m.executors # <<>>
    /\ \A c \in o.constraints : c[1] \in DOMAIN m.labels /\ m.labels[c[1]] = c[2]

InsertDeployment(m, o, end, order) ==
    Then(add_deployment_dependencies(
             [m EXCEPT !.deployments = @ @@ (o.name :> Deployment(o, end)),
                       !.subs = @ \cup {Cancelation(o.name)}], o.name),
         LAMBDA n : IF requirements_check(n, o.name)
                    THEN activate_deployment(n, o.name, order) ELSE n)

\* A change of type or version stops the old actor and starts a new one,
\* whether the deployment is active or not: the types of one that is not are
\* counted down and up all the same.
Replace(m, o, order) ==
    LET Lower(n) == decrement_deployed_actor_type_count(
                        n, m.deployments[o.name].type, order)
        Raise(n) == increment_deployed_actor_type_count(
                        [n EXCEPT !.deployments[o.name].type = o.type,
                                  !.deployments[o.name].version = o.version],
                        o.type, order)
        Started(n) == start_deployment(n, o.name)
    IN  Then(stop_deployment(m, o.name), LAMBDA n :
            Then(Lower(n), LAMBDA p :
                Then(Raise(p), LAMBDA q :
                    IF m.deployments[o.name].active /\ q.deployments[o.name].active
                    THEN Started(q)
                    ELSE Miscounted(Started(q), {m.deployments[o.name].type, o.type}))))

UpdateDeployment(m, o, end, order) ==
    LET d == m.deployments[o.name]
        n == IF o.version # d.version \/ o.type # d.type
             THEN Replace(m, o, order) ELSE m
    IN  [n EXCEPT !.deployments[o.name].lifetime_end = end]

\* Mutant: no entry in the table of ends.
enqueue_lifetime_end_wakeup_none(m, d, end) == m

enqueue_lifetime_end_wakeup(m, d, end) ==
    [m EXCEPT !.ttl_end_times =
        [e \in DOMAIN @ \cup {end} |->
            (IF e \in DOMAIN @ THEN @[e] ELSE <<>>)
                \o (IF e = end THEN <<d>> ELSE <<>>)]]

\* A write to the store, and whether it ends what was to last for ever: zero
\* is less than every end.
Store(id, end, code) ==
    /\ code_store' = insert_or_refresh(code_store, id, end, code)
    /\ curtailed' = IF end = INFINITE THEN curtailed \ {id}
                    ELSE IF id \in DOMAIN code_store /\ code_store[id].end = INFINITE
                    THEN curtailed \cup {id} ELSE curtailed

\* push_code_package, or update_code_lifetime without code: with the direct
\* code store, the default on the ESP32, the manager writes the entry itself.
push_code_package(o, end) == Store(<<o.type, o.version>>, end, o.code)

ReceiveDeployment(o, order) ==
    LET end == IF o.ttl > 0 THEN clock + o.ttl ELSE 0
        Put(m) == IF o.name \in DOMAIN m.deployments
                  THEN UpdateDeployment(m, o, end, order)
                  ELSE InsertDeployment(m, o, end, order)
    IN
    /\ Input /\ Subscribed(o) /\ Accepted(manager, o)
    /\ IF end > 0
       THEN /\ Return(enqueue_lifetime_end_wakeup(Then(Start, Put), o.name, end))
            /\ wakeups' = wakeups \cup {end + Margin}
       ELSE Return(Then(Start, Put)) /\ UNCHANGED wakeups
    /\ push_code_package(o, end)
    /\ UNCHANGED <<asked, events, clock, registered, failures>>

(***************************************************************************)
(* receive_deployment_cancelation, receive_ttl_timeout.                    *)
(***************************************************************************)
\* An active deployment stays in the map until its actor has left.
Retire(m, d, order) ==
    IF m.deployments[d].active THEN deactivate_deployment(m, d, order)
    ELSE remove_deployment(m, d)

ReceiveCancelation(d, order) ==
    /\ Input /\ Cancelation(d) \in manager.subs
    /\ Return(Then(Start, LAMBDA m : IF d \in DOMAIN m.deployments
                                     THEN Retire(m, d, order) ELSE m))
    /\ UNCHANGED <<store, wakeups, events, clock, registered, failures>>

\* The names under one end.  Those that were given another end since are
\* left alone.
EndOf(m, end, order) ==
    ForEach(m.ttl_end_times[end], m,
            LAMBDA s, d : IF d \in DOMAIN s.deployments
                             /\ s.deployments[d].lifetime_end = end
                          THEN Retire(s, d, order) ELSE s)

receive_ttl_timeout(m, order) ==
    LET Due == {e \in DOMAIN m.ttl_end_times : e < clock}
    IN  [ForEach(SetToSortSeq(Due, LAMBDA x, y : x < y), m,
                 LAMBDA s, e : EndOf(s, e, order))
            EXCEPT !.ttl_end_times = [e \in DOMAIN @ \ Due |-> @[e]]]

ReceiveTtlTimeout ==
    /\ ~manager.aborted
    /\ \E w \in wakeups : w < clock /\ wakeups' = wakeups \ {w}
    /\ \E order \in Order({}) :
          Return(Then(Start, LAMBDA m : receive_ttl_timeout(m, order)))
    /\ UNCHANGED <<store, events, clock, registered, inputs, failures>>

(***************************************************************************)
(* receive_lifetime_event.  A failed actor is started again, whether its   *)
(* deployment is active or not, until it has been started too often.       *)
(***************************************************************************)
ActorFailed(m, d, order) ==
    IF m.deployments[d].restarts < MaxRestarts
    THEN IF m.executors # <<>> THEN start_deployment(m, d) ELSE m
    ELSE Then(deactivate_deployment(m, d, order), LAMBDA n : remove_deployment(n, d))

receive_actor_exit(m, e, order) ==
    IF e.name \notin DOMAIN m.deployments THEN m
    ELSE LET end == m.deployments[e.name].lifetime_end IN
         IF end > 0 /\ end < clock THEN remove_deployment(m, e.name)
         ELSE IF e.clean THEN m
         ELSE ActorFailed(m, e.name, order)

ReceiveLifetimeEvent(order) ==
    /\ ~manager.aborted /\ events # <<>>
    /\ events' = Tail(events)
    /\ Return(Then(Start, LAMBDA m : receive_actor_exit(m, Head(events), order)))
    /\ UNCHANGED <<store, wakeups, clock, registered, inputs, failures>>

(***************************************************************************)
(* receive_label_update.                                                   *)
(***************************************************************************)
UpdatedLabels(m, u) ==
    CASE u.command = "upsert" -> (u.key :> u.value) @@ m.labels
      [] u.command = "delete" -> [k \in DOMAIN m.labels \ {u.key} |-> m.labels[k]]

\* The router has one subscription per filter, so an equal filter gets the
\* subscription that exists.
Resubscribe(m, s) ==
    [m EXCEPT !.subs = (@ \cup {s}) \ (m.deployment_sub \ {s}),
              !.deployment_sub = {s}]

Visible(labels) == {<<k, labels[k]>> : k \in DOMAIN labels \ HiddenLabel}

ReceiveLabelUpdate(u) ==
    LET labels == UpdatedLabels(manager, u) IN
    /\ Input
    /\ Return(Then([Start EXCEPT !.labels = labels],
                   LAMBDA m : Resubscribe(m, Deployments(Visible(labels)))))
    /\ UNCHANGED <<store, wakeups, events, clock, registered, failures>>

(***************************************************************************)
(* receive_unmanaged_actor_update, receive_executor_update.  The one       *)
(* executor of the runtime type registers, and deregisters when it is      *)
(* destroyed: its actors go without a word, and what is sent to it is      *)
(* lost.                                                                   *)
(***************************************************************************)
ReceiveUnmanagedActorUpdate(t, register, order) ==
    /\ Input
    /\ registered' = [registered EXCEPT ![t] = IF register THEN @ + 1 ELSE @ - 1]
    /\ registered'[t] >= 0
    /\ Return(Then(Start, LAMBDA m :
           IF register THEN increment_deployed_actor_type_count(m, t, order)
           ELSE decrement_deployed_actor_type_count(m, t, order)))
    /\ UNCHANGED <<store, wakeups, events, clock, failures>>

RegisterExecutor ==
    /\ Input /\ manager.executors = <<>>
    /\ manager' = [manager EXCEPT !.executors = <<"executor">>]
    /\ UNCHANGED <<store, wakeups, spawns, actors, events, clock, abandoned,
                   registered, failures>>

DeregisterExecutor ==
    /\ Input /\ manager.executors # <<>>
    /\ manager' = [manager EXCEPT !.executors = Tail(@)]
    /\ actors' = {} /\ spawns' = {}
    /\ abandoned' = DOMAIN manager.deployments
    /\ UNCHANGED <<store, wakeups, events, clock, registered, failures>>

(***************************************************************************)
(* Around the manager: the clock, the executor that starts actors, actors  *)
(* that stop when told to, or fail, and the cleanup of the code store.  An *)
(* exit message reaches the actors there are, so it passes a spawn by.     *)
(***************************************************************************)
Tick ==
    /\ ~manager.aborted /\ clock < MaxTime
    /\ clock' = clock + 1
    /\ UNCHANGED <<manager, store, wakeups, spawns, actors, events, abandoned,
                   registered, inputs, failures>>

SpawnActor ==
    \E s \in spawns :
        /\ ~manager.aborted
        /\ spawns' = spawns \ {s} /\ actors' = actors \cup {s}
        /\ asked' = asked \cup (IF retrieve(code_store, <<s.type, s.version>>)
                                THEN {} ELSE {<<s.type, s.version>>})
        /\ UNCHANGED <<manager, code_store, curtailed, wakeups, events, clock,
                       abandoned, registered, inputs, failures>>

\* receive_code_fetch_response of the code store actor: another node has the
\* code.  What has come into the store meanwhile makes no difference.
ReceiveCodeFetchResponse ==
    \E id \in asked :
        /\ ~manager.aborted
        /\ asked' = asked \ {id}
        /\ Store(id, CACHE_OR_EXISTING, TRUE)
        /\ UNCHANGED <<manager, wakeups, spawns, actors, events, clock, abandoned,
                       registered, inputs, failures>>

\* publish_exit_message, once, or twice when late_initialize fails; the
\* manager gets it if it is subscribed.
Exit(a, n, clean) ==
    /\ ~manager.aborted
    /\ actors' = actors \ {a}
    /\ events' = IF Lifetime(a.name) \in manager.subs
                 THEN events \o [i \in 1 .. n |-> [name |-> a.name, clean |-> clean]]
                 ELSE events
    /\ UNCHANGED <<manager, store, wakeups, spawns, clock, abandoned,
                   registered, inputs>>

ActorStops ==
    /\ \E a \in actors : a.stopping /\ Exit(a, 1, TRUE)
    /\ UNCHANGED failures

ActorFails ==
    /\ failures < MaxFailures /\ failures' = failures + 1
    /\ \E a \in actors, n \in 1 .. 2 : Exit(a, n, FALSE)

CleanupCode ==
    /\ ~manager.aborted
    /\ cleanup(code_store, clock) # code_store
    /\ code_store' = cleanup(code_store, clock)
    /\ UNCHANGED <<manager, curtailed, asked, wakeups, spawns, actors, events,
                   clock, abandoned, registered, inputs, failures>>

ReceiveOneOf(offers) ==
    \E o \in offers :
        \E order \in Order(IF o.required = {} THEN {} ELSE {o.name}) :
            ReceiveDeployment(o, order)

OtherStep ==
    \/ \E order \in Order({}) :
          \/ \E d \in Name : ReceiveCancelation(d, order)
          \/ ReceiveLifetimeEvent(order)
          \/ \E t \in UnmanagedType, r \in BOOLEAN :
                ReceiveUnmanagedActorUpdate(t, r, order)
    \/ ReceiveTtlTimeout
    \/ \E u \in LabelUpdate : ReceiveLabelUpdate(u)
    \/ RegisterExecutor \/ DeregisterExecutor
    \/ Tick \/ SpawnActor \/ ActorStops \/ ActorFails
    \/ CleanupCode \/ ReceiveCodeFetchResponse

DNext == ReceiveOneOf(Offer) \/ OtherStep

\* Time passes and the executor delivers the wakeups that are due.
DFairness ==
    /\ WF_dvars(Tick)
    /\ WF_dvars(ReceiveTtlTimeout)

DSpec == DInit /\ [][DNext]_dvars /\ DFairness

(***************************************************************************)
(* Properties.                                                             *)
(***************************************************************************)
Known == DOMAIN manager.deployments

\* The type invariant.
DTypeOK ==
    /\ Known \subseteq Name
    /\ \A d \in Known :
          /\ manager.deployments[d].active \in BOOLEAN
          /\ manager.deployments[d].restarts \in -1 .. MaxInputs + MaxFailures * 2
          /\ manager.deployments[d].lifetime_end \in Nat
    /\ DOMAIN manager.types \subseteq Type
    /\ \A t \in DOMAIN manager.types : manager.types[t] \in Nat \ {0}
    /\ \A a \in spawns \cup actors : a.name \in Name /\ a.type \in Type

\* What really provides a type: active deployments, and unmanaged actors that
\* have registered and not deregistered.
Providers(t) ==
    Cardinality({d \in Known : manager.deployments[d].active
                                /\ manager.deployments[d].type = t})
        + (IF t \in UnmanagedType THEN registered[t] ELSE 0)

\* A deployment is only active while everything it requires is there, however
\* far the cascade of a registration or of a cancelation goes: by the counts
\* of the manager, and as long as it counts a type right, in fact.
ActiveRequirementsMet ==
    \A d \in Known : manager.deployments[d].active =>
        /\ requirements_check(manager, d)
        /\ \A t \in manager.deployments[d].required \ manager.miscounted :
              Providers(t) > 0

\* The manager counts a type right unless one of three things happened to a
\* deployment of it: it was active when it was removed, not active when it was
\* given another type or version, or activated twice by one cascade.
TypesExact ==
    \A t \in Type \ manager.miscounted :
        Providers(t) = IF t \in DOMAIN manager.types THEN manager.types[t] ELSE 0

\* The map of requirements holds exactly the deployments of the map, whose
\* addresses it keeps: remove_deployment leaves no dangling pointer.
DependenciesExact ==
    /\ \A t \in DOMAIN manager.dependencies :
          manager.dependencies[t] = {d \in Known : t \in manager.deployments[d].required}
    /\ \A d \in Known : manager.deployments[d].required
                            \subseteq DOMAIN manager.dependencies

\* The manager holds one subscription for deployments, with the labels it
\* has now, and for each deployment of the map, and no other, the one for its
\* cancelation and, once it was active, for the fate of its actor.
SubscriptionsExact ==
    manager.subs =
        {Cancelation(d) : d \in Known}
        \cup {Lifetime(d) : d \in {e \in Known :
                                manager.deployments[e].lifetime_subscription}}
        \cup {Deployments(Visible(manager.labels)) : s \in manager.deployment_sub}

\* The tables of the manager are exact between any two messages: the counts
\* of the types, the map of requirements and the subscriptions.
TablesExact == DTypeOK /\ TypesExact /\ DependenciesExact /\ SubscriptionsExact

\* An active deployment has an actor that is not told to stop, one that is
\* being started, or a failure that the manager is still to hear of.  Else it
\* would stay active for ever with nobody doing its work.
ActiveIsServed ==
    ~manager.aborted =>
        \A d \in Known \ abandoned : manager.deployments[d].active =>
            \/ \E a \in spawns \cup actors : a.name = d /\ ~a.stopping
            \/ \E i \in DOMAIN events : events[i].name = d /\ ~events[i].clean

\* The store keeps an entry for the code of a deployment until the deployment's
\* end, whoever else uses or fetches the same code.  The exception is an entry
\* that was to last for ever: another deployment of the same code that has an
\* end, or a copy that is fetched from another node, ends it too.
CodeOutlivesDeployment ==
    \A d \in Known :
        LET end == manager.deployments[d].lifetime_end
            id == <<manager.deployments[d].type, manager.deployments[d].version>>
        IN  id \notin curtailed /\ (end > 0 => clock <= end + CodeGrace) =>
                /\ id \in DOMAIN code_store
                /\ \/ code_store[id].end = INFINITE
                   \/ end > 0 /\ code_store[id].end >= end

\* The first end that a deployment of the name d can have.
MinTtl(d) == Min({MaxTime} \cup {o.ttl : o \in {p \in Offer : p.name = d /\ p.ttl > 0}})

\* A deployment with a time to live is taken out of service when it has
\* passed, unless it is renewed or removed before.
EndsInTime ==
    \A d \in Name : \A e \in MinTtl(d) .. MaxTime - Margin - 1 :
        (d \in Known /\ manager.deployments[d].lifetime_end = e)
            ~> \/ manager.aborted \/ d \notin Known
               \/ manager.deployments[d].lifetime_end # e
               \/ ~manager.deployments[d].active
=============================================================================
