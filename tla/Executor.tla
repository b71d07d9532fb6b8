------------------------------ MODULE Executor -------------------------------
(***************************************************************************)
(* An executor thread and its actors: the event loop (executor.hpp), the   *)
(* message queue, blocking and code loading of an actor                    *)
(* (managed_actor.cpp, managed_lua_actor.cpp), together with the code      *)
(* store actor, which runs in a thread of its own.                         *)
(*                                                                         *)
(* The loop takes all publications from the executor's queue, then fires   *)
(* what is due, then lets one actor process one message.  Each of the      *)
(* three is a step; the steps of other threads come between them.  Only    *)
(* this thread touches the actors, the ready queue and the timeouts.       *)
(*                                                                         *)
(* A publication is named by its topic; a subscription is a topic or the   *)
(* id of the actor whose address it is.  What the code of an actor does    *)
(* with a message is any one call of the API, or an error.  A block may    *)
(* have any limit, also none at all and zero.                              *)
(***************************************************************************)
EXTENDS CodeStoreActor, Functions

CONSTANTS
    Topic,
    Behaviour,      \* calls of an actor's code: [op, arg, time]
    BadCode,        \* whether the code may fail to load
    FetchTimeout,   \* time an actor waits for code, 1000 ms
    MaxRetries,     \* questions for code after the first, 20 in the code
    MaxActors,      \* bound: actors started
    MaxInputs,      \* bound: messages from other threads
    MaxCalls        \* bound: calls of the API

VARIABLES
    inbox,        \* the executor's queue: [sub, msg]
    actors,       \* local id -> actor, see NewActor
    mapping,      \* subscription_mapping: subscription -> local ids
    ready_queue,
    timeouts,     \* [at, actor, user]
    delayed,      \* delayed_messages: [at, topic]
    pc,           \* "receive", "process", "ended" or "undefined"
    next_id,
    exits,        \* history: local id -> actor_exit messages published
    inputs,
    calls

evars == <<inbox, actors, mapping, ready_queue, timeouts, delayed, pc, next_id,
           exits, inputs, calls>>
rvars == <<svars, evars>>
bounds == <<inputs, calls>>
thread == <<actors, mapping, ready_queue, timeouts, delayed, pc, next_id, exits, calls>>

Forever == MaxTime + 1                  \* UINT32_MAX

ASSUME ExecutorAssumption ==
    /\ {MaxRetries, MaxActors, MaxInputs, MaxCalls} \subseteq Nat
    /\ FetchTimeout \in 1 .. MaxTime /\ BadCode \in BOOLEAN
    /\ \A b \in Behaviour : b.op # "error" => b.arg \in Topic /\ b.time \in Nat
    /\ \A b \in Behaviour : b.op = "block" => b.time \in 0 .. Forever

CodeId == CHOOSE c \in Code : TRUE      \* the code of every actor here
Local == 1 .. MaxActors
SPAWN == 0                              \* executor_subscription_id

Msg(type) == [type |-> type]
STOP == [sub |-> SPAWN, msg |-> Msg("stop")]
User(t) == [type |-> "user", topic |-> t]

\* pattern.matches, with nothing matched while the pattern is not set.
Matches(pattern, m) ==
    m.type = pattern \/ (m.type = "user" /\ m.topic = pattern)

NewActor(id) ==
    [queue |-> <<>>, waiting |-> FALSE, pattern |-> "code_fetch_response",
     timeout |-> Forever, initialized |-> FALSE, waiting_for_code |-> FALSE, retries |-> 0,
     subs |-> {id}]

(***************************************************************************)
(* Subscriptions of actors.  The router has one subscription per filter    *)
(* and executor, which its actors share.                                   *)
(***************************************************************************)
Put(f, k, v) == [x \in DOMAIN f \cup {k} |-> IF x = k THEN v ELSE f[x]]
Drop(f, K) == [x \in DOMAIN f \ K |-> f[x]]

add_subscription(map, id, s) ==
    Put(map, s, (IF s \in DOMAIN map THEN map[s] ELSE {}) \cup {id})

\* Mutant: the subscription ends although other actors have it.
remove_subscriptions_all(map, id, S) == Drop(map, S)

\* remove_subscription, for all of S.
remove_subscriptions(map, id, S) ==
    LET left(s) == IF s \in S THEN map[s] \ {id} ELSE map[s]
    IN  [s \in {t \in DOMAIN map : left(t) # {}} |-> left(s)]

\* Publications that the router has for this executor.
Deliver(box, map, s, m) ==
    IF s \in DOMAIN map THEN Append(box, [sub |-> s, msg |-> m]) ELSE box

(***************************************************************************)
(* The queue of an actor.                                                  *)
(***************************************************************************)
\* Mutant: while the actor waits, everything goes to the back.
enqueue_back(a, m) == [a EXCEPT !.queue = Append(@, m)]

enqueue(a, m) ==
    [a EXCEPT !.queue =
        IF m.type = "exit" \/ (a.waiting /\ Matches(a.pattern, m))
        THEN <<m>> \o @ ELSE Append(@, m)]

\* Mutant: what the actor waits for is not reported.
Wakes_idle(a, m) == m.type = "exit" \/ ~a.waiting

\* What enqueue returns: the actor has something to do now.
Wakes(a, m) == m.type = "exit" \/ ~a.waiting \/ Matches(a.pattern, m)

\* trigger_timeout, for one timeout after the other: each goes to the front.
trigger_timeout(a, fired) ==
    [a EXCEPT !.queue =
        [i \in DOMAIN fired |->
            Msg(IF fired[(Len(fired) - i) + 1].user THEN "wakeup" ELSE "timeout")] \o @]

\* The elements of T in the order R, a set of pairs.
InOrder(T, R) ==
    [i \in 1 .. Cardinality(T) |->
        CHOOSE t \in T : Cardinality({u \in T : <<u, t>> \in R}) = i - 1]

\* std::set<uint32_t>.
Ascending == {x \in Local \X Local : x[1] < x[2]}

deffered_block_for(a, pattern, time) ==
    [a EXCEPT !.waiting = TRUE, !.pattern = pattern, !.timeout = time]

\* trigger_code_fetch: the actor waits for the answer to its request.
trigger_code_fetch(a) ==
    [deffered_block_for(a, "code_fetch_response", FetchTimeout)
        EXCEPT !.waiting_for_code = TRUE]

(***************************************************************************)
(* The loop, first part: publications.  A spawn message adds an actor, any *)
(* other goes to the actors of its subscription.                           *)
(***************************************************************************)
\* With what is in the code store, and n spawn messages on their way.  (The
\* loop may take its time before it receives them.)
RInit(store, n, in, call) ==
    /\ StoreInit(store)
    /\ inbox = [i \in 1 .. n |-> [sub |-> SPAWN, msg |-> Msg("spawn")]]
    /\ actors = EmptyStore /\ mapping = EmptyStore
    /\ ready_queue = <<>> /\ timeouts = {} /\ delayed = <<>> /\ pc = "receive"
    /\ next_id = 1 /\ exits = [i \in Local |-> 0]
    /\ inputs = in /\ calls = call

\* add_actor_base: early_initialize looks for the code, and the actor is ready
\* to process "init" whether it was found or not.
add_actor(loads) ==
    LET id == next_id
        found == retrieve(code_store, CodeId)
        a == IF found THEN [NewActor(id) EXCEPT !.initialized = loads]
             ELSE trigger_code_fetch(NewActor(id))
    IN
    /\ next_id' = id + 1
    /\ actors' = Put(actors, id, enqueue(a, Msg("init")))
    /\ mapping' = add_subscription(mapping, id, id)
    /\ ready_queue' = Append(ready_queue, id)
    /\ IF found THEN UNCHANGED <<timeouts, store_inbox>>
       ELSE /\ timeouts' = timeouts \cup
                   {[at |-> now + a.timeout, actor |-> id, user |-> FALSE]}
            /\ store_inbox' = store_inbox \o <<Unavailable(CodeId), Request(CodeId, id)>>

AddActor ==
    /\ pc = "receive" /\ inbox # <<>> /\ Head(inbox).sub = SPAWN /\ Head(inbox) # STOP
    /\ next_id <= MaxActors
    /\ inbox' = Tail(inbox)
    /\ \E loads \in {TRUE, ~BadCode} : add_actor(loads)
    /\ UNCHANGED <<delayed, pc, exits, bounds, code_store, code_miss_debounce,
                   serving, asked, cleanup_at, now>>

\* The first timeout of an actor that it did not set itself.
FirstTimeout(id) ==
    {t \in timeouts : t.actor = id /\ ~t.user
                      /\ \A u \in timeouts : u.actor = id /\ ~u.user => t.at <= u.at}

Dispatch ==
    LET s == Head(inbox).sub
        m == Head(inbox).msg
        R == (IF s \in DOMAIN mapping THEN mapping[s] ELSE {}) \cap DOMAIN actors
        W == {id \in R : Wakes(actors[id], m)}
    IN
    /\ pc = "receive" /\ inbox # <<>> /\ s # SPAWN
    /\ inbox' = Tail(inbox)
    /\ actors' = [id \in DOMAIN actors |->
                     IF id \in R THEN enqueue(actors[id], m) ELSE actors[id]]
    /\ ready_queue' = ready_queue \o InOrder(W \ Range(ready_queue), Ascending)
    /\ timeouts' = timeouts \ UNION {FirstTimeout(id) : id \in W}
    /\ UNCHANGED <<svars, mapping, delayed, pc, next_id, exits, bounds>>

\* Any other message to the executor ends the loop, and with the executor its
\* actors, without a word.
LoopReturns ==
    /\ pc = "receive" /\ inbox # <<>> /\ Head(inbox) = STOP
    /\ pc' = "ended"
    /\ actors' = EmptyStore /\ mapping' = EmptyStore
    /\ inbox' = <<>> /\ ready_queue' = <<>> /\ timeouts' = {} /\ delayed' = <<>>
    /\ UNCHANGED <<svars, next_id, exits, bounds>>

(***************************************************************************)
(* The loop, second part: delayed messages and timeouts that are due.  The *)
(* loop waits for a publication unless there is something to do.           *)
(***************************************************************************)
\* Timeout::operator<.
BySchedule(x, y) ==
    \/ x.at < y.at
    \/ x.at = y.at /\ x.actor < y.actor
    \/ x.at = y.at /\ x.actor = y.actor /\ ~x.user /\ y.user

Schedule == {x \in timeouts \X timeouts : BySchedule(x[1], x[2])}

\* The order of delayed_messages, a multimap: by time, and as they came.
ByTime ==
    {x \in (DOMAIN delayed) \X (DOMAIN delayed) :
        \/ delayed[x[1]].at < delayed[x[2]].at
        \/ delayed[x[1]].at = delayed[x[2]].at /\ x[1] < x[2]}

\* What is due is past.  The last instant stands for all later ones: there
\* everything is due.
Past(t) == t < now \/ now = MaxTime

\* Mutant: the loop waits for publications whatever is due.
Busy_ready == ready_queue # <<>>

\* wait_time is zero.
Busy ==
    \/ ready_queue # <<>> \/ \E t \in timeouts : Past(t.at)
    \/ \E i \in DOMAIN delayed : Past(delayed[i].at)

\* Each actor is ready from the first of its timeouts that is due.
Fire ==
    LET Due == {t \in timeouts : Past(t.at)}
        DueOf(id) == {t \in Due : t.actor = id}
        First == {t \in Due : /\ t.actor \in DOMAIN actors \ Range(ready_queue)
                              /\ \A u \in DueOf(t.actor) : ~BySchedule(u, t)}
        new == InOrder(First, Schedule)
        Late == {i \in DOMAIN delayed : Past(delayed[i].at)}
        late == InOrder({i \in Late : delayed[i].topic \in DOMAIN mapping}, ByTime)
        rest == InOrder(DOMAIN delayed \ Late, ByTime)
    IN
    /\ pc = "receive" /\ inbox = <<>> /\ Busy
    /\ delayed' = [k \in DOMAIN rest |-> delayed[rest[k]]]
    /\ inbox' = [k \in DOMAIN late |-> [sub |-> delayed[late[k]].topic,
                                        msg |-> User(delayed[late[k]].topic)]]
    /\ timeouts' = timeouts \ Due
    /\ actors' = [id \in DOMAIN actors |->
                     trigger_timeout(actors[id], InOrder(DueOf(id), Schedule))]
    /\ ready_queue' = ready_queue \o [k \in DOMAIN new |-> new[k].actor]
    /\ pc' = "process"
    /\ UNCHANGED <<svars, mapping, next_id, exits, bounds>>

(***************************************************************************)
(* The loop, third part: the actor at the head of the ready queue          *)
(* processes the first message of its queue (receive_next_internal).       *)
(***************************************************************************)
Processing(id) ==
    /\ pc = "process" /\ ready_queue # <<>> /\ id = Head(ready_queue)
    /\ id \in DOMAIN actors /\ actors[id].queue # <<>>
    /\ pc' = "receive"

FirstMsg(id) == Head(actors[id].queue)

\* The actor with the message taken, no longer waiting.
Taken(id) ==
    [actors[id] EXCEPT !.waiting = FALSE, !.timeout = Forever, !.queue = Tail(@)]

\* message_queue.front() of an empty queue: undefined behaviour.  The executor ends
\* here, and nothing is said of what the program does instead.
ReadsNothing ==
    /\ pc = "process" /\ ready_queue # <<>>
    /\ \E id \in DOMAIN actors : id = Head(ready_queue) /\ actors[id].queue = <<>>
    /\ pc' = "undefined"
    /\ actors' = EmptyStore /\ mapping' = EmptyStore
    /\ inbox' = <<>> /\ ready_queue' = <<>> /\ timeouts' = {} /\ delayed' = <<>>
    /\ UNCHANGED <<svars, next_id, exits, bounds>>

\* Nothing to process, or an actor that is gone.
Skip ==
    /\ pc = "process"
    /\ ready_queue # <<>> => Head(ready_queue) \notin DOMAIN actors
    /\ ready_queue' = IF ready_queue = <<>> THEN <<>> ELSE Tail(ready_queue)
    /\ pc' = "receive"
    /\ UNCHANGED <<svars, inbox, actors, mapping, timeouts, delayed, next_id, exits,
                   bounds>>

\* The executor erases the actor, which gives up its subscriptions.
Leave(id, n) ==
    /\ actors' = Drop(actors, {id})
    /\ mapping' = remove_subscriptions(mapping, id, actors[id].subs)
    /\ exits' = [exits EXCEPT ![id] = @ + n]
    /\ ready_queue' = Tail(ready_queue)
    /\ UNCHANGED <<inbox, timeouts, delayed, next_id, bounds>>

FirstMatch(a) ==
    {i \in DOMAIN a.queue : /\ Matches(a.pattern, a.queue[i])
                            /\ \A j \in 1 .. i - 1 : ~Matches(a.pattern, a.queue[j])}

ToFront(q, i) == <<q[i]>> \o (SubSeq(q, 1, i - 1) \o SubSeq(q, i + 1, Len(q)))

\* The end of receive_next_internal, with the time until the actor is to run again.
\* An actor that waits goes on if what it waits for is already there, any other if
\* there is something.
Settle(a) ==
    IF a.waiting
    THEN [actor |-> IF FirstMatch(a) = {} THEN a
                    ELSE LET i == CHOOSE i \in FirstMatch(a) : TRUE
                         IN  [a EXCEPT !.queue = ToFront(@, i)],
          next_timeout |-> IF FirstMatch(a) = {} THEN a.timeout ELSE 0]
    ELSE [actor |-> a, next_timeout |-> IF a.queue = <<>> THEN a.timeout ELSE 0]

\* The actor stays: it is ready again, or has a timeout, or neither.
Stay(id, s, T) ==
    /\ actors' = [actors EXCEPT ![id] = s.actor]
    /\ ready_queue' = IF s.next_timeout = 0 THEN Append(Tail(ready_queue), id)
                      ELSE Tail(ready_queue)
    /\ timeouts' = T \cup (IF s.next_timeout \in 1 .. MaxTime
                           THEN {[at |-> now + s.next_timeout, actor |-> id, user |-> FALSE]}
                           ELSE {})

\* The answer of the code store: late_initialize.  A failure is published
\* there and once more at the end.
LateInitialize ==
    \E id \in DOMAIN actors, loads \in {TRUE, ~BadCode} :
        /\ Processing(id) /\ FirstMsg(id).type = "code_fetch_response"
        /\ ~actors[id].initialized
        /\ IF loads
           THEN /\ Stay(id, Settle([Taken(id) EXCEPT !.waiting_for_code = FALSE,
                                                     !.initialized = TRUE]),
                        timeouts)
                /\ UNCHANGED <<inbox, mapping, delayed, next_id, exits, bounds>>
           ELSE Leave(id, 2)
        /\ UNCHANGED svars

DelayedCode ==
    \E id \in DOMAIN actors :
        /\ Processing(id) /\ FirstMsg(id).type = "code_fetch_response"
        /\ actors[id].initialized
        /\ Stay(id, Settle(Taken(id)), timeouts)
        /\ UNCHANGED <<svars, inbox, mapping, delayed, next_id, exits, bounds>>

Expired(id) ==
    /\ Processing(id) /\ FirstMsg(id).type = "timeout"
    /\ actors[id].waiting_for_code

\* Mutant: the question is not counted.
RetryFetch_endless ==
    \E id \in DOMAIN actors :
        /\ Expired(id) /\ actors[id].retries < MaxRetries
        /\ Stay(id, [actor |-> trigger_code_fetch(Taken(id)),
                     next_timeout |-> FetchTimeout], timeouts)
        /\ store_inbox' = Append(store_inbox, Request(CodeId, id))
        /\ UNCHANGED <<inbox, mapping, delayed, next_id, exits, bounds, code_store,
                       code_miss_debounce, serving, asked, cleanup_at, now>>

\* Asks again.  This return comes before the queue is looked at, so an answer
\* that is there is left for later.
RetryFetch ==
    \E id \in DOMAIN actors :
        /\ Expired(id) /\ actors[id].retries < MaxRetries
        /\ Stay(id, [actor |-> [trigger_code_fetch(Taken(id)) EXCEPT !.retries = @ + 1],
                     next_timeout |-> FetchTimeout], timeouts)
        /\ store_inbox' = Append(store_inbox, Request(CodeId, id))
        /\ UNCHANGED <<inbox, mapping, delayed, next_id, exits, bounds, code_store,
                       code_miss_debounce, serving, asked, cleanup_at, now>>

\* Mutant: the actor disappears without a word.
GiveUp_silent ==
    \E id \in DOMAIN actors :
        /\ Expired(id) /\ actors[id].retries >= MaxRetries
        /\ Leave(id, 0)
        /\ UNCHANGED svars

GiveUp ==
    \E id \in DOMAIN actors :
        /\ Expired(id) /\ actors[id].retries >= MaxRetries
        /\ Leave(id, 1)
        /\ UNCHANGED svars

\* Any other message.  An actor without code looks for it first (wakeup).
Ordinary(id) ==
    /\ Processing(id) /\ FirstMsg(id).type # "code_fetch_response"
    /\ FirstMsg(id).type = "timeout" => ~actors[id].waiting_for_code

\* No code: the message goes back.  An exit message ends the actor all the
\* same, as a failure.
WakeupWithoutCode ==
    \E id \in DOMAIN actors :
        /\ Ordinary(id) /\ ~actors[id].initialized /\ ~retrieve(code_store, CodeId)
        /\ IF FirstMsg(id).type = "exit" THEN Leave(id, 1)
           ELSE /\ Stay(id, Settle(trigger_code_fetch(actors[id])), timeouts)
                /\ UNCHANGED <<inbox, mapping, delayed, next_id, exits, bounds>>
        /\ store_inbox' = store_inbox \o <<Unavailable(CodeId), Request(CodeId, id)>>
        /\ UNCHANGED <<code_store, code_miss_debounce, serving, asked, cleanup_at, now>>

\* The code does not load.
WakeupFails ==
    \E id \in DOMAIN actors :
        /\ Ordinary(id) /\ ~actors[id].initialized /\ retrieve(code_store, CodeId)
        /\ BadCode
        /\ Leave(id, 1)
        /\ UNCHANGED svars

Runs(id) ==
    Ordinary(id) /\ (actors[id].initialized \/ retrieve(code_store, CodeId))

Awake(id) == [Taken(id) EXCEPT !.initialized = TRUE]

\* receive() fails, or was the actor's last.
ReceiveAndLeave ==
    \E id \in DOMAIN actors :
        /\ Runs(id)
        /\ FirstMsg(id).type = "exit" \/ [op |-> "error"] \in Behaviour
        /\ Leave(id, 1)
        /\ UNCHANGED svars

\* receive() makes no call of the API, or the call b.  What it publishes goes
\* to the executor's queue like any other publication.
Receives(id) ==
    /\ Runs(id) /\ FirstMsg(id).type # "exit"
    /\ UNCHANGED <<svars, next_id, exits, inputs>>

Calls(id, b, op) ==
    /\ b.op = op /\ Receives(id)
    /\ calls < MaxCalls /\ calls' = calls + 1

ReceiveOnly ==
    \E id \in DOMAIN actors :
        /\ Receives(id)
        /\ Stay(id, Settle(Awake(id)), timeouts)
        /\ UNCHANGED <<inbox, mapping, delayed, calls>>

block_for(b) ==
    \E id \in DOMAIN actors :
        /\ Calls(id, b, "block")
        /\ Stay(id, Settle(deffered_block_for(Awake(id), b.arg, b.time)), timeouts)
        /\ UNCHANGED <<inbox, mapping, delayed>>

subscribe(b) ==
    \E id \in DOMAIN actors :
        /\ Calls(id, b, "subscribe")
        /\ Stay(id, Settle([Awake(id) EXCEPT !.subs = @ \cup {b.arg}]), timeouts)
        /\ mapping' = add_subscription(mapping, id, b.arg)
        /\ UNCHANGED <<inbox, delayed>>

unsubscribe(b) ==
    \E id \in DOMAIN actors :
        /\ Calls(id, b, "unsubscribe")
        /\ Stay(id, Settle([Awake(id) EXCEPT !.subs = @ \ {b.arg}]), timeouts)
        /\ mapping' = remove_subscriptions(mapping, id, {b.arg})
        /\ UNCHANGED <<inbox, delayed>>

publish(b) ==
    \E id \in DOMAIN actors :
        /\ Calls(id, b, "publish")
        /\ Stay(id, Settle(Awake(id)), timeouts)
        /\ inbox' = Deliver(inbox, mapping, b.arg, User(b.arg))
        /\ UNCHANGED <<mapping, delayed>>

delayed_publish(b) ==
    \E id \in DOMAIN actors :
        /\ Calls(id, b, "delay")
        /\ Stay(id, Settle(Awake(id)), timeouts)
        /\ delayed' = Append(delayed, [at |-> now + b.time, topic |-> b.arg])
        /\ UNCHANGED <<inbox, mapping>>

enqueue_wakeup(b) ==
    \E id \in DOMAIN actors :
        /\ Calls(id, b, "wakeup")
        /\ Stay(id, Settle(Awake(id)),
                timeouts \cup {[at |-> now + b.time, actor |-> id, user |-> TRUE]})
        /\ UNCHANGED <<inbox, mapping, delayed>>

(***************************************************************************)
(* Other threads.                                                          *)
(***************************************************************************)
Outside == inputs < MaxInputs /\ inputs' = inputs + 1

ToExecutor(box) ==
    /\ inbox' = box
    /\ UNCHANGED <<svars, thread>>

Publish == Outside /\ \E t \in Topic : ToExecutor(Deliver(inbox, mapping, t, User(t)))

ExitMessage ==
    Outside /\ \E id \in DOMAIN actors : ToExecutor(Deliver(inbox, mapping, id, Msg("exit")))

EndExecutor == Outside /\ ToExecutor(Append(inbox, STOP))

\* Bound: code that is there for good is left alone.
Settled == retrieve(code_store, CodeId) /\ code_store[CodeId].end = INFINITE

ToStore(m) ==
    /\ Outside /\ ~Settled
    /\ store_inbox' = Append(store_inbox, m)
    /\ UNCHANGED <<inbox, thread, code_store, code_miss_debounce, serving, asked,
                   cleanup_at, now>>

DeployCode == ToStore(Packet(CodeId, now + 1)) \/ ToStore(LifetimeUpdate(CodeId, now + 1))
ControlRemote == \E on \in BOOLEAN : ToStore(Control(on))

\* The code store actor; its answer goes to the requester's address.
CodeActor ==
    /\ \/ StoreCode \/ CodeUnavailable \/ RemoteFetchControl \/ Cleanup
       \/ \E id \in Code : RemoteAnswer(id)
    /\ UNCHANGED evars

AnswerRequest ==
    /\ FetchRequest
    /\ inbox' = IF Answered(Message.id)
                THEN Deliver(inbox, mapping, Message.who, Msg("code_fetch_response"))
                ELSE inbox
    /\ UNCHANGED <<thread, inputs>>

\* Bound: one such request at a time.
AskedByRemote ==
    /\ \E id \in Code : /\ Request(id, REMOTE) \notin Range(store_inbox)
                         /\ RemoteRequest(id)
    /\ UNCHANGED evars

Clock == StoreTick /\ UNCHANGED evars

Loop == AddActor \/ LoopReturns \/ Dispatch \/ Fire \/ Skip \/ ReadsNothing
Step == LateInitialize \/ DelayedCode \/ RetryFetch \/ GiveUp \/ WakeupWithoutCode
        \/ WakeupFails \/ ReceiveAndLeave \/ ReceiveOnly
        \/ \E b \in Behaviour : \/ block_for(b) \/ subscribe(b) \/ unsubscribe(b)
                                \/ publish(b) \/ delayed_publish(b) \/ enqueue_wakeup(b)

\* What the others do between the second and the third part they could as well
\* have done before or after both: it only adds to the two inboxes.
Others ==
    /\ pc = "receive"
    /\ \/ Publish \/ ExitMessage \/ EndExecutor \/ DeployCode \/ ControlRemote
       \/ CodeActor \/ AnswerRequest \/ AskedByRemote \/ Clock

RNext == Loop \/ Step \/ Others

\* The thread runs and time passes; nobody need answer.
RFairness == WF_rvars(Loop \/ Step) /\ WF_rvars(Clock)

\* Some code is there for good, and some actors are to be started.
RSpec ==
    /\ \E C \in SUBSET Code, n \in 0 .. MaxActors, in \in 0 .. MaxInputs, call \in 0 .. MaxCalls :
           RInit([c \in C |-> [end |-> INFINITE, available |-> TRUE]], n, in, call)
    /\ [][RNext]_rvars /\ RFairness

(***************************************************************************)
(* Properties.                                                             *)
(***************************************************************************)
Live == DOMAIN actors

\* The type invariant.
RTypeOK ==
    /\ Live \subseteq Local /\ next_id \in 1 .. MaxActors + 1
    /\ \A s \in DOMAIN mapping : s \in Topic \cup Local /\ mapping[s] # {}
    /\ Range(ready_queue) \subseteq Local /\ IsInjective(ready_queue)
    /\ \A t \in timeouts : t.actor \in Local
    /\ pc \in {"receive", "process", "ended", "undefined"}

\* An actor that blocked with a limit of zero is ready at once, whatever there is.
Polls(a) == a.waiting /\ a.timeout = 0

\* Every actor in the ready queue has a message: receive_next_internal takes the
\* front of an empty queue only after a block with a limit of zero.
ReadyHasMessage ==
    \A id \in Range(ready_queue) \cap Live : actors[id].queue # <<>> \/ Polls(actors[id])

\* No actor is forgotten: one that can go on, because it waits for nothing and
\* has a message, or has the message it waits for, is in the ready queue.  (An
\* actor that asks for its code again does not look at its queue.)
NobodyForgotten ==
    \A id \in Live \ Range(ready_queue) :
        LET a == actors[id] IN
        IF a.waiting THEN FirstMatch(a) = {} \/ a.waiting_for_code ELSE a.queue = <<>>

\* What an actor that waits gets next is what it waits for, unless the time is
\* over, it has a wakeup, or it is to end: other messages do not interfere.  Only
\* when nothing it waits for is there does it get another one: init, its first
\* message, and after a block with a limit of zero whatever comes first.
BlockedGetsItsMessage ==
    \A id \in Range(ready_queue) \cap Live :
        LET a == actors[id]
            m == Head(a.queue)
        IN  a.waiting /\ a.queue # <<>> =>
                \/ Matches(a.pattern, m) \/ m.type \in {"timeout", "wakeup", "exit"}
                \/ FirstMatch(a) = {} /\ (m.type = "init" \/ a.timeout = 0)

\* An actor that waits with a limit is woken up when it has passed.
WaitingIsTimed ==
    \A id \in Live \ Range(ready_queue) :
        actors[id].waiting /\ actors[id].timeout < Forever =>
            \E t \in timeouts : t.actor = id /\ ~t.user

\* The executor's bookkeeping agrees with the actors at every step of its loop:
\* whom it runs next has something to do, and whom it does not run has nothing to
\* do or will be woken up.
SchedulingSound == RTypeOK /\ ReadyHasMessage /\ NobodyForgotten /\ WaitingIsTimed

\* The mapping holds exactly the subscriptions of the actors there are: an actor
\* that leaves takes nothing from the others and leaves nothing behind.
MappingExact ==
    /\ \A s \in DOMAIN mapping : mapping[s] = {id \in Live : s \in actors[id].subs}
    /\ \A id \in Live : actors[id].subs \subseteq DOMAIN mapping

\* Who leaves says so: a supervisor hears of every actor that ends, once or,
\* when its code came late and did not load, twice, and of no other.  Only the
\* end of the executor is not told for each of them.
ExitsReported ==
    pc \in {"receive", "process"} => \A id \in 1 .. next_id - 1 : (id \in Live) <=> (exits[id] = 0)

\* An actor that is started gets its code or ends: the retries run out.
InitializedOrGone ==
    \A id \in Local :
        id \in Live ~> (id \notin Live \/ actors[id].initialized)

\* No message stays in the queue of an actor: blocked actors go on, if only
\* because the time is over, until the queue is empty or they end or block without
\* a limit.
QueuesDrain ==
    \A id \in Local :
        (id \in Live /\ actors[id].queue # <<>>)
            ~> (\/ id \notin Live \/ actors[id].queue = <<>>
                \/ actors[id].waiting /\ actors[id].timeout = Forever)
=============================================================================
