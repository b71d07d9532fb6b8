# A verification of uActor in TLA+

uActor runs actors on microcontrollers and POSIX hosts. Actors talk by content-based
publish/subscribe: a node's router matches publications against filters, and nodes
that are connected pass publications and subscriptions on to each other. This
directory holds TLA+ models of the parts where concurrency, histories of calls and
lost or repeated messages decide whether this works, the TLC configurations that
check them and the TLAPS proofs about them.

    tlc -config MCRouting.cfg MCRouting    # model-check an instance
    tlapm RouterProofs.tla                 # check the proofs of one module

## Inventory

| Part | State | Operations | What is hard |
|---|---|---|---|
| Router (`pubsub/router.cpp`) | subscriptions, constraint index, `no_requirements`, node ids, next id | `publish`, `add_subscription`, `remove_subscription`, `subscription_lists_for`, meta subscriptions | the index must stay exact over any history; raw pointers to receivers; who is told about what |
| Constraint index (`constraint_index.hpp`) | a sorted and a linear vector per attribute | `insert`, `remove`, `check` | sortedness, shared constraint objects, removal without comparison |
| Filters (`constraint.cpp`, `filter.cpp`) | operands, required and optional lists | matching, equality, construction from Lua, encoding for peers | three readers of one filter must agree |
| Publication (`publication.cpp`, Lua wrapper) | shared maps of attributes, marks | copy, move, write, encode, decode | copy on write with several writers |
| Receiver (`receiver.cpp`) | queue, ids it holds | `subscribe`, `unsubscribe`, `receive`, destructor | destruction in steps while others publish; bounded queue on the ESP32 |
| Remote connection (`remote_connection.cpp`) | partner, its subscriptions, local subscriptions sent to it | hello, announcements in both directions, publications | hello is not atomic with the router; announcements of announcements |
| Sequence number strategy | numbers, tables of last numbers per publisher | `should_forward`, `should_accept`, routing fields | cycles, duplicates, restarts, overtaking threads |
| TCP forwarder (`tcp_forwarder.cpp`), framer | write buffers, select loop, `subscription_mapping` | `write`, handlers, keepalive, reader | partial writes by two threads, wake-ups, arbitrary chunks |
| Subscription processors | counts per aggregate | `process_added`, `process_removed` | counts that have to balance |
| Topology manager | reachable peers, attempts in progress | announcements, peer updates, static peers | repeated attempts, late reports of ends, restarts |
| Executor, managed actors | ready queue, timeouts, message queues | event loop, `enqueue`, timeouts, code fetch, Lua API | timeout against message, retries, blocking patterns |
| Deployment manager | deployments, requirements, TTLs, executors | deploy, cancel, exit, TTL, labels, executor updates | cascades, restart against cancellation and renewal |
| Code store and its actor | code with lifetimes, pending fetches | retrieve, insert, cleanup, fetch | infinite lifetimes, debounced fetches |
| HTTP ingress and client | requests, subscriptions; jobs | request, response, cleanup; transfer | two threads, timeout against response, deferred jobs |
| SCD30, e-paper, GPIO actors (ESP32) | calibration, notifications, interrupts | measurement, calibration, drawing, commands | faults between sensor and storage, bounded queues |

`PROJECT.json` lists every part with its status and every hazard at its line.

## Modules

| Module | Models | Used by |
|---|---|---|
| `SubscriptionIndex` | what the index of constraints does, on sets | `Router`, `IndexSpec`, `ConstraintIndex` |
| `Router` | router and receivers | `PeerAnnouncements`, `RouterProofs` |
| `PeerAnnouncements` | what peers learn of a node's subscriptions | `AnnouncementProofs` |
| `IndexSpec`, `ConstraintIndex` | abstract specification of the index; the vectors of `constraint_index.hpp` | |
| `Filters` | constraints and filters: matching, equality, Lua tables, encoding | |
| `PublicationValue`, `Publication` | publications as values; copy on write | `PublicationProofs` |
| `SequenceForwarding` | publications travelling through a network of nodes | `PublicationProofs` |
| `MessageChannel`, `MessageStream` | whole messages in order; write buffer, select loop, socket, framer | |
| `SubscriptionProcessors` | the chain that widens, counts and drops a node's subscriptions | `ProcessorProofs` |
| `TopologyManager` | topology managers, connection attempts and connections of several nodes | `TopologyProofs` |
| `CodeStore` | the table of code | `CodeStoreActor`, `DeploymentManager` |
| `CodeStoreActor` | the actor in front of it | `Executor` |
| `Executor` | event loop and actors of one thread | `ExecutorSteps`, `ExecutorProofs` |
| `DeploymentManager` | deployments with their actors, code and time | |
| `HttpIngress`, `HttpClient` | the two HTTP actors | `NativeActorProofs` |
| `Scd30Actor`, `NotificationCenter`, `GpioActor` | three actors of the ESP32 | `NativeActorProofs` (not the GPIO actor) |
| `*Proofs`, `ExecutorSteps` | lemmas and theorems | |
| `MC*` | instances for TLC | |

`MCRouting`, `MCTransport`, `MCPeers` and `MCEnvironment` put components
that share no state into one instance: a constant-valued variable `part` says which of
them a behaviour is about, and the others keep their initial values. `MCAnnouncements`
splits one component in the same way.

### Router

One action per operation that the code runs under `Router::mtx`. `add_subscription` has
three actions, for its three outcomes: a mere fetch that is never stored
(`SubscribeFetch`), a subscription that exists (`SubscribeExisting`), a new one
(`SubscribeNew`). Each includes what `Receiver::subscribe` does with the id and the
announcement that the code publishes before it returns; what an action publishes, and
to which receivers, is recorded in `out`. `~Receiver` takes the lock anew for every
subscription, so it is `Close`, one `CloseStep` per id and `Closed`, between which
other threads act. `owned` is the receiver's own set of ids, which only the receiver's
thread touches; so updating it is put in the router's step.

Abstractions. A constraint is an atom; a publication is known by which constraints'
attributes it carries, for which of them the value is a map, and which it satisfies.
A filter is a pair of sets (repeated constraints are in `ConstraintIndex`). Internal
node ids are the names, and a name without an id is looked up as 0, "every node".
Priorities are at most 255: `publish_internal` keeps them in a `uint8_t`.
A subscription's origin is the peer it came from, because a peer only passes on
subscriptions under its own node id.

### PeerAnnouncements

Composes `Router` with its connections. `Hello` is the first half of
`handle_remote_hello` (subscribe to announcements), `SendList` the second (replay of
`subscription_lists_for`); any step of the router may come between, because the handler
holds `remote_mtx` but not the router's lock. `told` follows the addresses that the
router writes into announcements, `heard` what passes the filter that the connection
really subscribes with. A peer's knowledge changes in the step of the announcement:
delay and the network are not part of this module, the processors are in
`SubscriptionProcessors`. A lost connection is one step here, as far as the peer's
knowledge goes; the removals of the peer's own subscriptions are `Unsubscribe` steps of
the forwarder's receiver.

### ConstraintIndex, IndexSpec

`insert`, `remove` and `check` on the two vectors, with `lower_bound`, and the loops of
the router over a filter's constraints. The refinement mapping turns vectors into the
function from constraints to sets that `Router` uses. `IndexSpec` uses the same
operators (`IndexInsert`, `IndexRemove`, ...) as `Router`, so the chain from vectors to
the theorems about the router has no gap but the refinement itself, which is
model-checked.

### Filters

`matches` is `Filter::matches`, with which a blocked actor looks at its queue;
`router_matches` is the count that the router makes of the same filter; `FilterEqual` is
`operator==`; `to_publication_map` and `from_publication_map` are the encoding with its
containers (`_m`) for several constraints of one attribute. A state holds two filters,
built constraint by constraint from C++ calls or from Lua tables, whose conversions
(number or string, `?` for optional, tables with a predicate) are modelled by what they do.
Strings are sequences over two letters. Exceptions, all of them in the code:
binary data and optional constraints on maps are judged differently by the router, nested
constraints are compared in one direction, repeated constraints hide others (`Flat`,
`Distinct`).

### Publication, PublicationValue

`heap` holds the maps of attributes, `pub` the publications: which map each has and
whether it is marked `_shallow_copy`. `Copy` is the copy constructor and assignment, which
mark both sides or, with nested maps, copy; `Move` takes map and mark; `set_attr` and
`erase_attr` first make a map of their own if marked; `set_in_map`, the way of Lua, writes
to the map itself. Encoding and decoding lose what `to_msg_pack` loses (binary data). `PublicationValue` says
what a program may rely on: variables, each with a map of its own. `LuaWritesShared`
says whether Lua writes to publications whose map is shared; with it the refinement fails
(finding 5), without it it is proved.

### SequenceForwarding

A publication gets its number (`Number`) and later enters the forwarder's queue, once
for each subscription it matches (`Enqueue`): `publish` holds the router's lock shared.
`Forward` is `TCPForwarder::receive` with `should_forward` for every link, `Receive` is
`process_remote_publication` with `should_accept` and the re-publication. `Reconnect`
loses what is under way and both `RemoteConnection`s, `Restart` everything a node knows.
`lost` records what a filter dropped that was not a duplicate.

### MessageStream, MessageChannel

One direction of a connection, in bytes. `Write` is `TCPForwarder::write`, the loop of
`tcp_reader` is `Setup`, `Select`, `Handle`, with the descriptor set made in the first
and used in the last; `Recv` is the other end's `data_handler` with
`StreamPublicationFramer::process_data`. `send` may take any part, `recv` may return any
part. `Shutdown` stands for the peer's end and for the keepalive's timeout.

### SubscriptionProcessors

The chain in the order in which a connection sets it up, for a peer with the same cluster
labels, in the same cluster or elsewhere, and for a leaf. Each processor takes the work of
the one before (`w`: filter, whether it is dropped, the counts) and is one operator;
`SubscriptionAdded` and `SubscriptionRemoved` run the chain and change the rules at the
peer, for any announcement the router may make: of a subscription that is known already, of
a fetch (which nobody keeps and no removal follows), of the end of one that was never
announced. `known` is what the connection has been told of and not been told the end of,
`odd` records what was announced out of turn. The properties have two conditions. `Uniform`:
one set of arguments for each aggregate, that of a leaf included, and no two filters that
become one rule without being counted; otherwise the counts, which do not tell arguments
apart, let a LOCAL subscription keep others from the peer, or leave a rule there with the
arguments of one that is gone. `Orderly`: nothing that an aggregate counts was announced out
of turn; the counts do not tell subscriptions apart either. What is not counted may be
repeated and withdrawn at will. Another cluster is told of a subscription that is addressed to a node only
if it asks for the cluster's label and the node is not this one (`Concerned`): the cluster's
aggregate is made before, and that of the node's own id after which the barrier comes.

### TopologyManager

On every node, the topology manager (`manager`), its messages (`mailbox`), the requests to
the forwarder (`connects`) and the connections, whose two ends come up, greet and end one
after the other. Faults are a broken connection and a restart of a node. The 5 s of an
attempt and the 30 s between announcements of static peers are abstracted to steps that
happen at some time (`Overdue`, `PublishPersistentPeers`).

### CodeStore, CodeStoreActor, Executor

The loop of `executor.hpp` is `Dispatch` (the publications of the queue), `Fire` (what is
due, messages with the same time in the order in which they were put in) and one actor's
`Step`; other threads act where the loop looks at its queue again. An actor is a record
with its queue, pattern, `waiting`, limit (`timeout`), code state and subscriptions; what its code does is any
one call of the Lua API (block, subscribe, unsubscribe, publish, delayed publication,
wakeup) or an error. The code fetch with its retries goes through `CodeStoreActor`, whose
answers and debounced questions to other nodes are steps of another thread. The executor
may be told to end, which ends its actors without a word.

A block with a limit of zero does not wait: `receive_next_internal` returns the timeout 0
(`managed_actor.cpp:121`), the loop puts the actor into the ready queue
(`executor.hpp:340`) and next takes the front of its message queue without looking whether
there is one (`managed_actor.cpp:31`). With an empty queue this is undefined behaviour:
`ReadsNothing`, after which the model says nothing more. The scheduling properties say that
it happens after such a block only.

### DeploymentManager

`manager` is the object; the handlers are operators on it, because they call each other
recursively: a type that appears activates deployments, which add their types. The order in
which a set of pointers is walked is any order. Around it, spawn messages travel, actors
run, stop and fail, executors come and go, the code store is cleaned and time passes. Code
that is not there when its actor starts is asked for at other nodes, whose answer is
`ReceiveCodeFetchResponse`. `Debug` selects a build with assertions; the run has the release
build.

Two histories name what the code does not keep. `miscounted` has the types whose count
(`deployed_actor_types`) differs from what is active and registered, after one of three
things: an actor fails after its deployment's end and before the wakeup for it, so that the
deployment is removed while it is active (`deployment_manager.cpp:204` says "Already
deactivated", the assertion of line 450 would end a debug build); a deployment that is not
active gets another type or version (lines 141 to 149); one cascade reaches a deployment
along two requirements and activates it twice (line 515). For all other types
`ActiveRequirementsMet` and `TablesExact` compare the counts with the real providers.
`curtailed` has the code that was to last for ever (end 0) and was given an end, by a
deployment of the same code with a time to live or by a fetched copy
(`code_store_actor.cpp:212`), because 0 is less than any end (`code_store.cpp:47`).

### HttpIngress, HttpClient

The ingress: the server thread's `handle_request` and `handle_data` and the actor's answers, announcements and
`Wakeup` (cleanup after five seconds). Handlers are atomic in the model; the code has no
lock for the maps they share, so a data race inside one handler is not covered.
The table of handlers counts the router's announcements, which are made for peers: `subscribed`
has the receivers and the other nodes behind each filter, and `SubscribeHandler` and
`UnsubscribeHandler` announce what `add_subscription` and `remove_subscription` do, the
first in the name of who joins, the second in the name of this node. History
variables name what the code does not keep: `misanswered` (an answer with no or several
headers ends the response never or repeatedly) and `missed` (identifiers of filters whose
announcements do not tell when this node begins and ends to subscribe: a subscription that
ended between the actor's two subscriptions, a second local receiver that is announced
again, a last one that leaves two other nodes behind, other nodes whose leaving is announced
or that the fetch lists). The client: one job per request,
deferred if no thread can be started; codes are cut to eight bits.

### Scd30Actor, NotificationCenter, GpioActor

`Scd30Actor`: search for the sensor with retries, registration with the deployment manager,
loop of wakeups, calibration of temperature and CO2 with the record in flash storage.
Every access may fail, the board restarts, the power fails between two writes; `diverged`
is set by exactly the faults that part the sensor from the record. `NotificationCenter`:
notifications come, are replaced, cancelled, expire and are scrolled through;
`current_state` is what is drawn, and not replaced if `operator==` (which compares the
identifier with itself) finds no difference. `GpioActor`: an interrupt handler, the task
that reads the pin and publishes, and a subscriber with a bounded queue. `Router::publish`
holds the router's lock shared (`router.cpp:26`) while it waits for room in that queue
(`receiver.cpp:28` of the ESP32), and `add_subscription` and `remove_subscription` need the lock
alone (lines 227, 376). A subscriber that publishes to itself (`does = "talks"`) may wait
for itself, and one that subscribes may wait for the publication that waits for it; these
two states are `Stuck`.

## Runs

| Run | Question | Answer |
|---|---|---|
| `routing` | Do histories of subscriptions leave index, table and receivers consistent, and is delivery what the filters say? Across lost connections and restarts, is a publication accepted once, in order, and never sent back? | holds |
| `announcements` | Do two peers, connecting and leaving at any time, know what others want? | yes by the router's addresses; never anything stale |
| `transport` | Are copies values, do vectors implement the index and count right, do bytes become the messages that were written, does everybody in a cycle hear everything? | holds, for filters without repetition and Lua that writes to its own publications |
| `peers` | Does a node know who is connected, and do peers get filters and rules that mean what was subscribed to? | holds, with the exceptions of `Filters`, `Uniform` and `Orderly` |
| `deployments` | Are requirements met, tables exact, active deployments served and ended in time, and is their code kept? | holds, with the exceptions `miscounted` and `curtailed` |
| `actors` | Is no actor forgotten or left waiting, does a blocked one get its message, is each end told? | holds; a block with limit zero may read an empty queue |
| `environment` | Is each HTTP request ended, once? Do the client's answers, the sensor's calibration, the display and the pins keep up with the world? | holds, with the exceptions stated in the properties |
| `mixed_constraints` | Is a filter written out as it was subscribed to? | no, if a constraint is required in one filter and optional in another |
| `announcements_heard` | Do peers also know through the filter the connection uses? | no: a peer's subscriptions are not announced to other peers |
| `repeated_constraint` | Does removing a subscription leave others in the index? | no, if its filter repeats a constraint |
| `forwarding_threads` | Are only duplicates dropped if two threads publish? | no |
| `copy_on_write` | Are copies values if Lua writes to what it receives? | no |

The passing runs take one to three minutes each and between 41,000 and 483,000 states.

### Bounds

- `routing`: two receivers, four filters (required, required with optional, optional
  only, one that watches announcements), two priorities, all fetch policies that differ,
  at most two subscriptions created, so that an index entry is shared, left to one and
  emptied; the theorems cover every number. For the optional attribute messages have no
  value, an accepted one, a rejected one or a map. A triangle of nodes, the smallest
  network with a cycle, with two publications in each of two lives and one lost connection;
  one of the nodes does not restart. `AcceptedOnceInOrder` is proved without these bounds.
- `announcements`: two peers, which with the own node are the three nodes that the
  rules "exactly two nodes", "exactly one left" distinguish; two receivers, so that one
  node can be behind a subscription twice; a subscription is created twice. The part
  `fetch` has all policies and at most one receiver at a time. Actors publish no messages
  of their own here: delivery, which `routing` checks, changes nothing that is announced.
- `transport`: three publications, so that a map is shared, left by one and still shared;
  three operands whose middle one can come last, one other constraint, three
  subscriptions; two messages of one and two bytes that look like size fields, one
  keepalive and a socket of five bytes, less than one message with its size field and part
  of the next; a triangle with two publications, each matching up to two subscriptions.
- `peers`: two nodes of which one listens, two connections at a time, so that an old and a
  new one overlap, one announcement besides the static one, one fault; filters of up to two
  constraints out of thirteen, so that a container has two entries and not a third; three
  subscriptions, so that an aggregate stands for several, with counts modulo 8 and priorities modulo 16 in place of the machine's widths.
- `deployments`: four parts. `cascade` has a deployment with and without requirements, two
  versions and a time to live, and one that needs its type and an unmanaged actor's, with
  four messages from outside; `failures` the same with one failure, one restart and an
  executor that goes and comes; `labels` a constraint on a label; `code` two deployments of
  one code with ends that differ and are renewed. Time goes to 4, from 1 in the first two
  parts and from 0 in the others (`StartTime`), so that the ends 1 and 2 with
  their margin and wakeups fit, and a renewal from one to the other.
- `actors`: two actors with their code and three calls of the API, or one whose code is
  still to come, with one message from outside; one topic, time to 2, one retry.
- `environment`: for the ingress's requests two filters with one path, two requests, two
  answers, or one answer and one change; for its table two local receivers and two other
  nodes (the fewest for which leaving is announced or not), who subscribe from the beginning
  or not, and three changes; for the client four requests, of which two cannot be
  answered, and two threads; two offsets, one restart and the five retries of the code; three
  identifiers, two texts, four notifications, time to 3; queues of two, seven edges, one command.

Receivers, peers and the nodes that do not publish are symmetric in `routing` and
`announcements`, which check invariants only. Deadlock is checked in `announcements`; in
the others the bounds let the system become quiet.

### Fairness

Only steps that a running thread or a passing clock must take are fair; inputs, faults,
losses, restarts and answers of other parties are not.

- `SequenceForwarding`: a thread in `publish_internal` finishes its loop over the
  receivers, and the forwarder's and the reader's threads are endless loops that block
  only on empty inputs; so weak fairness of `Enqueue`, `Forward` and `Receive`.
- `MessageStream`: the select loop has a timeout of a second and always comes round, so
  weak fairness of its steps and of the other end's `Recv`.
- `TopologyManager`: the actors' loops, the forwarder's loop and the clock that makes an
  attempt overdue.
- `Executor`: the loop, and the clock. The code store need not answer: an actor must end
  then.
- `DeploymentManager`: the clock and the delivery of wakeups that are due.
- `HttpIngress`: the actor's loop and the clock. `HttpClient`: its thread, and the jobs
  that have a thread; a transfer ends, because libcurl or the peer ends it. Deferred jobs
  are not fair.
- `Scd30Actor`: wakeups and the actor's own exit message arrive. `NotificationCenter`: the
  clock and the wakeup for cleanup. `GpioActor`: the tasks are scheduled; a task that waits
  for room or for the lock gets it if it stays free.

## Proofs

`RouterProofs` proves, for every finite set of constraints and peers and any filters,
arguments, messages, receivers and bound on subscriptions that satisfy
`RouterAssumption`, that `Spec` implies always:

| Theorem | States |
|---|---|
| `RouterInvariant` | `RouterInv`, the inductive invariant |
| `TypeCorrect` | `TypeOK` |
| `IndexStaysExact` | `IndexExact` |
| `ReceiversStayValid` | `NoDanglingReceiver` and `NoAbandonedSubscription` |
| `SubscriptionsStayUnique` | `UniqueSubscriptions` |
| `TableStaysSound` | `TableSound`: types, receivers and uniqueness together |
| `DeliveryIsExact` | `DeliveredAsFiltered` |

`RouterInv` is the conjunction of these properties. They need each other: a removal
deletes an entry that has one element without looking at it, which is right only because
the index is exact; a new id must not be in the table, which follows from the ids being
below `next_sub_id`; the destructor reaches every pointer because a receiver holds the
id of each subscription it is in. The argument has three layers: lemmas about the
operators (`IndexMatchesFilter`: counting hits in an exact index is matching;
`InsertKeepsIndex`, `RemoveKeepsIndex`, `UpdateKeepsIndex`), one lemma per action, and
`NextInv`, which puts them together. `IndexMatchesFilter` rests on
finite sets: as many satisfied required constraints as there are required constraints
means all of them.

Under two further assumptions, that no actor publishes what has the form of an
announcement (`AnnouncementAssumption`) and that no constraint is required in one filter
and optional in another (`Unmixed`; finding 2 below shows what happens otherwise):

| Theorem | Module | States |
|---|---|---|
| `FiltersSurviveSharing` | `AnnouncementProofs` | `Spec` implies always `WireFaithful` |
| `PeerInvariant` | `AnnouncementProofs` | `PSpec` implies always `PeerInv`, the inductive invariant |
| `PeersAreTold` | `AnnouncementProofs` | `PSpec` implies always `ToldExactly` |
| `NothingStaleIsHeard` | `AnnouncementProofs` | `PSpec` implies always `HeardNothingStale` |

`PeerInv` adds to `RouterInv` that the shared constraint objects have the flag of every
filter that uses them (`StoredExact`: without it a withdrawal would name a filter that
the peer never stored), and that a peer that is connected but has not been sent its list
knows a part of what it should. `Informs(p)` says that what a step announces to `p` makes
up for the change of what `p` should know. There is one lemma per action for it, and
`InformsKeeps` shows that such steps keep `p` informed. Joining and leaving decide by the
number of nodes behind a subscription, so these lemmas turn cardinalities 1 and 2 into
"nobody but `p`" and "`p` and one other". A removal must not withdraw another
subscription's entry, which is where `UniqueSubscriptions` is used.

The other components:

| Theorem | Module | States |
|---|---|---|
| `PubInvariant`, `SharingIsMarked` | `PublicationProofs` | `PubSpec` implies always `PubInv` and `SharedIsMarked` |
| `PublicationsAreValues` | `PublicationProofs` | `PubSpec` implements `PublicationValue` (`CopiesAreValues`) unless `LuaWritesShared` |
| `ForwardingTypes` | `PublicationProofs` | `FSpec` implies always `FTypeOK` |
| `AcceptedInOrder` | `PublicationProofs` | `FSpec` implies always `AcceptedOnceInOrder` |
| `NothingReturns` | `PublicationProofs` | `FSpec` implies always `NeverReturned` |
| `NoPhantoms` | `TopologyProofs` | `TSpec` implies always `NoPhantomPeer` |
| `ProcessorInvariant`, `RulesCover`, `RulesAreFresh` | `ProcessorProofs` | `PCSpec` implies always `PCInv`, `PeerCovers` and `NoStaleRule` |
| `ExecutorInvariant` | `ExecutorProofs` | `RSpec` implies always `EInv`, and there are finitely many timeouts |
| `NobodyIsForgotten` | `ExecutorProofs` | `RSpec` implies always `SchedulingSound` |
| `BlocksAreSelective` | `ExecutorProofs` | `RSpec` implies always `BlockedGetsItsMessage` |
| `MappingFollowsActors` | `ExecutorProofs` | `RSpec` implies always `MappingExact` |
| `ExitsAreReported` | `ExecutorProofs` | `RSpec` implies always `ExitsReported` |
| `ResponsesEndOnce`, `TableFollowsSubscriptions` | `NativeActorProofs` | `HSpec` implies always `EndedOnce` and `TableExact` |
| `AnswersAreOwn` | `NativeActorProofs` | `CSpec` implies always `AnswersMatch` |
| `RegistrationsBalance`, `CalibrationIsTrue`, `WakeupsAreOneChain` | `NativeActorProofs` | `SSpec` implies always `RegistrationExact`, `CalibrationTrue` and `OneLoop` |
| `DisplayIsTrue` | `NativeActorProofs` | `NSpec` implies always `ScreenTrue` |

- Publications, for any finite set of them and any data. A copy shares its map only if it
  has no nested one, and a write into a nested map does not look at the mark; so the marks
  alone (`SharedIsMarked`) do not suffice, and `PubInv` adds that what is marked has no
  nested map (`MarkedIsFlat`). The refinement then needs that a new map is one nobody uses
  (`FreshObject`), by counting.
- Forwarding, for any network of two-way links, any publishing threads, losses and restarts
  up to any bound (`ForwardingAssumption`). `AcceptInv` adds to the order of what was
  accepted that the table of the node is at or beyond all of it (`HistoryRecorded`).
  `NeverReturned` needs that a publication away from its publisher names it among its
  forwarders, in queues and on the wire (`OriginInv`).
- Connections, for any nodes, connections, announcements and faults up to any bound.
  `Reachable` is what the topology manager's list will be once its mailbox is read, so
  `NoPhantomPeer` is inductive with types alone (`TopologyInv`); the work is in the lemmas
  about mailboxes, where the last report of a peer decides (`UpdatedAppend`), and in the
  order in which a connection that ends reports it before its slot is used again.
- Subscription processors, for any filters and fewer subscriptions than the counts can hold (`ProcessorAssumption`; 2^32 in the code). `PCInv` says what the rules
  are, not only that they suffice: the counts are the sizes of the sets of subscriptions
  that the aggregates stand for (`Noded`, `Clustered`, `Gated`), and the rules are the
  image of the known subscriptions (`Told`, then `AtPeer` for a leaf), both as long as use
  is `Uniform` and `Orderly`. A step is then
  the same for coming and going (`ChainExact`): the chain lets a rule through exactly if
  no other subscription stands behind it (`ToldFresh`). This is where each part of
  `Uniform` is needed, the arguments of a leaf's aggregate included. An announcement out of turn
  of what is not counted changes neither (it adds a rule that is there or removes one that
  is not); the instance of `peers` has
  filters for each part.
- Executor, for any topics, code and calls of the API, any number of actors and any bounds
  on time, inputs and calls (`ExecutorAssumption`); a limit may be zero or none. `EInv`
  is the types, `MappingExact`, `ExitsReported` and `Scheduled`: an actor in the ready queue
  is there once and can go on or has blocked with a limit of zero, one that is not can not, and if it waits, it has a timeout
  that ends the wait. "Can go on" needs the place of the message: what an actor waits for is
  at the head of its queue (`Going`), which `enqueue`, `ToFront` and the removal of what was
  processed each have to keep. `ExecutorSteps` reduces the steps of one actor to three shapes
  (it stays with a new record, `Stays`; it leaves, `Leaves`; it comes) and proves each once.
  `ExecutorProofs` has the two steps that change many actors, `Dispatch` and `Fire`, which
  process sets in some order: there each actor of the set is met exactly once (`Listed`).
- HTTP ingress, for any requests, filters and answers: an active request has arrived and is
  not ended or aborted, so whoever ends it takes it from the active ones (`HttpInv`). The table
  is exact only once the inbox is empty; before, for each identifier that is not in `missed`,
  there is a history of sets of filters that leads from as many as the table counts,
  announcement by announcement, to those the node subscribes to (`Explained`, `TableInv`).
  A change of subscriptions either is announced as what it is and extends the history
  (`TableAppend`), or it is none for this identifier (`TableChange`); reading an announcement
  takes the first step of it away (`TableReceive`).
- HTTP client, for any requests and threads: a request is in one place, queued, in a job or
  answered (`OnePlace`).
- CO2 sensor, for any offsets, restarts and retries: the record in flash is true where the
  record in memory was loaded from it (`StorageTrue`). `CalibrationIsTrue` says nothing of the
  temperature after a fault that sets `diverged` (an offset that the sensor refuses, a write
  that fails or a power loss before it while another offset is stored, a storage that cannot be
  read at the start), until the next calibration; of CO2 it holds through all faults. And an actor that is gone has neither
  wakeups nor registrations (`AbsentIsSilent`).
- Display, for any identifiers, texts and lifetimes. Whenever the notification shown changes,
  its text or the number changes too (`Fits`, one lemma per way of changing), which makes the
  comparison without identifiers harmless.

Only model-checked:

- all liveness, which is out of the prover's reach;
- `ImplementsChannel` (`MessageStream`), `OneMeaning` and `PeerReadsFilter` (`Filters`) and
  the properties of `DeploymentManager`, whose modules have RECURSIVE operators: filters
  nest and the handlers call each other, as in the code, and the prover cannot use such
  modules;
- `Implements` and `CountsExact` (`ConstraintIndex`), which are about folds over sequences:
  what a fold computes for every sequence needs induction over data;
- the GPIO actor, whose only property is liveness.

## Where the code and its comments or tests disagree

1. Subscriptions learnt from one peer are announced under that peer's node id
   (`router.cpp:437`), but connections only listen to announcements of their own node
   (`remote_connection.cpp:485`). Run `announcements_heard`. The test at
   `unit_test/pubsub_tests.cpp:411` uses a subscriber with the own node id and another
   source peer, a combination that connections do not produce.
2. Constraints are equal regardless of the optional flag and shared by the index
   (`constraint.cpp:43`). Run `mixed_constraints`.
3. A repeated constraint is removed twice (`constraint_index.hpp:147`). Run
   `repeated_constraint`.
4. Overtaken publications are dropped as duplicates
   (`sequence_number_forwarding_strategy.cpp:106`). Run `forwarding_threads`.
5. Lua writes to a received publication without copying the attributes that it shares
   with the publications of other receivers (`lua_publication_wrapper.cpp:165`), although
   `publication.hpp:128` promises copy on write. Run `copy_on_write`.

## Exceptions that properties state

What the code does not keep is excluded in a property by name, and happens in the models:

- mixed arguments of aggregated subscriptions, and announcements out of turn of what is
  counted (`Uniform`, `Orderly`);
- the static peer that is added while another peer is connected and not announced once that
  peer goes (`announcement_active` in `StaticPeersStay`, `topology_manager.cpp:125`);
- answers with no or several headers (`misanswered`), and identifiers of which the router's
  announcements do not tell what the ingress needs (`missed`);
- a second `actor_exit` if code comes late and does not load (`ExitsReported`), the silent end
  of an executor's actors (`executor.hpp:260`), a block with a limit of zero (`Polls`);
- types that the deployment manager miscounts (`miscounted`), and code without an end that
  is given one (`curtailed`);
- a subscriber on the ESP32 that publishes to its own full queue, or subscribes while a
  publication waits for it (`Stuck`);
- faults between sensor and record (`diverged`), deferred jobs of the client.

## Not modelled

- WebAssembly and V8 bindings: the same operations as the Lua API behind other interpreters.
  The Lua interpreter itself, and hibernation of actors, which is off by default.
- The forwarder's `subscription_mapping` and the handlers that enter a peer's subscriptions:
  in `PeerAnnouncements` a receiver subscribes for the peer. `remove_remote_subscription`
  ignores the node (`tcp_forwarder.cpp:220`), which these models do not show.
- The answer to `label_get` in the deployment manager, its counter of active deployments,
  several executors of one runtime (`deployment_manager.cpp:353` erases by an iterator that
  may be the end).
- Data races: `peer_node_ids` under a shared lock (`router.cpp:143`), the maps of the
  ingress. Handlers are atomic.
- Outside the bounds: priorities above 255 in the router, sequence numbers that wrap after
  2^32 publications, epochs that repeat because the clock did not advance, HTTP codes that
  equal 200 modulo 256.
- BLE and BME280 actors, board support and the drawing of the display: calls of drivers
  without state that decides anything. Telemetry, logging and memory accounting: counters
  and output. Start-up, but for the epoch and the static peers: options are parsed and
  threads started once.

## What could come next

The `subscription_mapping` composed with `PeerAnnouncements` and two connections, and
several executors of one runtime. Proofs about `DeploymentManager` would need its handlers
without recursion, as a queue of work; the code has none.
