---------------------------- MODULE ExecutorSteps ----------------------------
(***************************************************************************)
(* Every step of the executor keeps its bookkeeping in agreement with its  *)
(* actors, for any number of actors, messages, calls and any behaviour of  *)
(* the actors.  The two steps that go through a set in its order, Dispatch *)
(* and Fire, are in ExecutorProofs, together with the theorems.            *)
(***************************************************************************)
EXTENDS Executor, SequenceTheorems, TLAPS

(***************************************************************************)
(* The types of the state.                                                 *)
(***************************************************************************)
EMessage ==
    [type : {"init", "exit", "code_fetch_response", "timeout", "wakeup", "spawn", "stop"}]
    \cup [type : {"user"}, topic : Topic]
Subscription == Topic \cup Local
Incoming == [sub : Subscription \cup {SPAWN}, msg : EMessage]
Actor == [queue : Seq(EMessage), waiting : BOOLEAN, pattern : Topic \cup {"code_fetch_response"},
          timeout : 0 .. Forever, initialized : BOOLEAN, waiting_for_code : BOOLEAN, retries : Nat,
          subs : SUBSET Subscription]
Timeout == [at : Nat, actor : Local, user : BOOLEAN]
Delayed == [at : Nat, topic : Topic]

\* The local ids that were given out.
Given == 1 .. next_id - 1

ETypes ==
    /\ inbox \in Seq(Incoming) /\ now \in Nat
    /\ next_id \in 1 .. MaxActors + 1
    /\ Live \subseteq Given /\ actors \in [Live -> Actor]
    /\ DOMAIN mapping \subseteq Subscription
    /\ mapping \in [DOMAIN mapping -> (SUBSET Local) \ {{}}]
    /\ ready_queue \in Seq(Local) /\ Range(ready_queue) \subseteq Given
    /\ timeouts \subseteq Timeout /\ delayed \in Seq(Delayed)
    /\ pc \in {"receive", "process", "ended", "undefined"}
    /\ exits \in [Local -> Nat] /\ \A id \in Local \ Given : exits[id] = 0

\* The bounds are numbers.
LEMMA Bounds == /\ MaxActors \in Nat /\ MaxTime \in Nat /\ FetchTimeout \in 1 .. MaxTime
                /\ Forever = MaxTime + 1 /\ FetchTimeout \in 0 .. Forever
  BY ExecutorAssumption, CodeActorAssumption DEF Forever

(***************************************************************************)
(* An actor's queue.                                                       *)
(***************************************************************************)
\* The end of receive_next_internal: there is something that the actor can go on with,
\* and that comes first, or there is nothing and its own limit counts.
LEMMA SettleResult ==
    ASSUME NEW a \in Actor
    PROVE  LET s == Settle(a) IN
           /\ s.actor \in Actor
           /\ s.actor.waiting = a.waiting /\ s.actor.waiting_for_code = a.waiting_for_code
           /\ s.actor.pattern = a.pattern /\ s.actor.subs = a.subs
           /\ s.actor.timeout = a.timeout
           /\ \/ /\ s.next_timeout = 0 /\ s.actor.queue # <<>>
                 /\ a.waiting => Matches(a.pattern, Head(s.actor.queue))
              \/ /\ s.next_timeout = a.timeout
                 /\ IF a.waiting THEN FirstMatch(s.actor) = {} ELSE s.actor.queue = <<>>
<1>1. CASE ~a.waiting \/ FirstMatch(a) = {}
  BY <1>1, Zenon DEF Settle, Actor
<1>2. CASE a.waiting /\ FirstMatch(a) # {}
  <2> DEFINE i == CHOOSE i \in FirstMatch(a) : TRUE
             r == SubSeq(a.queue, 1, i - 1) \o SubSeq(a.queue, i + 1, Len(a.queue))
             q == <<a.queue[i]>> \o r
  <2>1. i \in FirstMatch(a)
    BY <1>2
  <2> HIDE DEF i
  <2>2. a.queue \in Seq(EMessage) /\ i \in 1 .. Len(a.queue) /\ Len(a.queue) \in Nat
        /\ Matches(a.pattern, a.queue[i])
    BY <2>1, LenProperties DEF FirstMatch, Actor
  <2>3. r \in Seq(EMessage)
    <3>1. /\ \A k \in 1 .. i - 1 : a.queue[k] \in EMessage
          /\ \A k \in i + 1 .. Len(a.queue) : a.queue[k] \in EMessage
      BY <2>2, ElementOfSeq
    <3>2. SubSeq(a.queue, 1, i - 1) \in Seq(EMessage)
          /\ SubSeq(a.queue, i + 1, Len(a.queue)) \in Seq(EMessage)
      BY <2>2, <3>1, SubSeqProperties
    <3> QED
      BY <3>2, ConcatProperties
  <2>4. a.queue[i] \in EMessage
    BY <2>2, ElementOfSeq
  <2>5. q \in Seq(EMessage) /\ q # <<>> /\ Head(q) = a.queue[i]
    <3>1. <<a.queue[i]>> \in Seq(EMessage) /\ Len(<<a.queue[i]>>) = 1
      BY <2>4
    <3>2. q \in Seq(EMessage) /\ Len(q) = 1 + Len(r) /\ q[1] = a.queue[i]
      BY <2>3, <3>1, ConcatProperties, LenProperties
    <3>3. Len(q) # 0
      BY <2>3, <3>2, LenProperties
    <3> HIDE DEF q
    <3>4. q # <<>>
      BY <3>3
    <3> QED
      BY <3>2, <3>4
  <2> DEFINE b == [a EXCEPT !.queue = q]
  <2>6. Settle(a) = [actor |-> b, next_timeout |-> 0]
    BY <1>2, Zenon DEF Settle, ToFront, i, Actor
  <2> HIDE DEF q
  <2>7. b \in Actor /\ b.waiting = a.waiting /\ b.waiting_for_code = a.waiting_for_code
        /\ b.pattern = a.pattern /\ b.subs = a.subs /\ b.timeout = a.timeout /\ b.queue = q
    BY <2>5 DEF Actor
  <2> HIDE DEF b
  <2> QED
    BY <2>2, <2>5, <2>6, <2>7
<1> QED
  BY <1>1, <1>2

\* The message that comes first after it was added to the front.
LEMMA FrontResult ==
    ASSUME NEW q \in Seq(EMessage), NEW m \in EMessage
    PROVE  <<m>> \o q \in Seq(EMessage) /\ <<m>> \o q # <<>> /\ Head(<<m>> \o q) = m
<1>1. <<m>> \in Seq(EMessage) /\ Len(<<m>>) = 1
  OBVIOUS
<1>2. <<m>> \o q \in Seq(EMessage) /\ Len(<<m>> \o q) = 1 + Len(q) /\ (<<m>> \o q)[1] = m
  BY <1>1, ConcatProperties, LenProperties
<1>3. Len(<<m>> \o q) # 0
  BY <1>2, LenProperties
<1> QED
  BY <1>2, <1>3, EmptySeq

\* enqueue: what the actor waits for and what ends it overtakes the rest.
LEMMA EnqueueResult ==
    ASSUME NEW a \in Actor, NEW m \in EMessage
    PROVE  LET b == enqueue(a, m) IN
           /\ b \in Actor /\ b.queue # <<>>
           /\ b.waiting = a.waiting /\ b.waiting_for_code = a.waiting_for_code
           /\ b.pattern = a.pattern /\ b.subs = a.subs /\ b.timeout = a.timeout
           /\ m.type = "exit" \/ (a.waiting /\ Matches(a.pattern, m)) => Head(b.queue) = m
           /\ ~(m.type = "exit" \/ (a.waiting /\ Matches(a.pattern, m))) =>
                 /\ a.queue # <<>> => Head(b.queue) = Head(a.queue)
                 /\ a.waiting /\ FirstMatch(a) = {} => FirstMatch(b) = {}
<1> DEFINE front == m.type = "exit" \/ (a.waiting /\ Matches(a.pattern, m))
           q == IF front THEN <<m>> \o a.queue ELSE Append(a.queue, m)
           b == [a EXCEPT !.queue = q]
<1>1. enqueue(a, m) = b
  BY DEF enqueue
<1>2. a.queue \in Seq(EMessage)
  BY DEF Actor
<1>3. /\ <<m>> \o a.queue \in Seq(EMessage) /\ <<m>> \o a.queue # <<>>
      /\ Head(<<m>> \o a.queue) = m
  BY <1>2, FrontResult
<1>4. /\ Append(a.queue, m) \in Seq(EMessage) /\ Len(Append(a.queue, m)) = Len(a.queue) + 1
      /\ Len(a.queue) \in Nat /\ DOMAIN a.queue = 1 .. Len(a.queue)
      /\ DOMAIN Append(a.queue, m) = 1 .. Len(a.queue) + 1
      /\ \A i \in 1 .. Len(a.queue) : Append(a.queue, m)[i] = a.queue[i]
      /\ Append(a.queue, m)[Len(a.queue) + 1] = m
  BY <1>2, AppendProperties, LenProperties
<1>5. q \in Seq(EMessage) /\ q # <<>>
  <2>1. Append(a.queue, m) # <<>>
    BY <1>4, EmptySeq
  <2> QED
    BY <1>3, <1>4, <2>1
<1>6. ASSUME ~front, a.queue # <<>> PROVE Head(q) = Head(a.queue)
  <2>1. 1 \in 1 .. Len(a.queue)
    BY <1>2, <1>4, <1>6, EmptySeq
  <2>2. Append(a.queue, m)[1] = a.queue[1]
    BY <1>4, <2>1
  <2> QED
    BY <1>2, <1>4, <1>5, <1>6, <2>2
<1>7. front => Head(q) = m
  BY <1>3
<1>8. b \in Actor /\ b.queue = q /\ b.waiting = a.waiting /\ b.pattern = a.pattern
      /\ b.waiting_for_code = a.waiting_for_code /\ b.subs = a.subs /\ b.timeout = a.timeout
  <2> HIDE DEF q
  <2> QED
    BY <1>5, SMTT(30) DEF Actor
<1>9. ASSUME ~front, a.waiting, FirstMatch(a) = {} PROVE FirstMatch(b) = {}
  <2> SUFFICES ASSUME NEW i \in FirstMatch(b) PROVE FALSE
    OBVIOUS
  <2>1. q = Append(a.queue, m) /\ ~Matches(a.pattern, m)
    BY <1>9
  <2>2. /\ i \in 1 .. Len(a.queue) + 1 /\ Matches(a.pattern, q[i])
        /\ \A j \in 1 .. i - 1 : ~Matches(a.pattern, q[j])
    <3> HIDE DEF b, q
    <3> QED
      BY <1>4, <1>8, <2>1 DEF FirstMatch
  <2>3. i # Len(a.queue) + 1
    BY <1>4, <2>1, <2>2
  <2>4. i \in 1 .. Len(a.queue) /\ \A j \in 1 .. i - 1 : j \in 1 .. Len(a.queue)
    BY <1>4, <2>2, <2>3
  <2>5. i \in FirstMatch(a)
    BY <1>4, <2>1, <2>2, <2>4, Zenon DEF FirstMatch
  <2> QED
    BY <1>9, <2>5
<1> HIDE DEF b, q
<1> QED
  BY <1>1, <1>5, <1>6, <1>7, <1>8, <1>9

\* trigger_timeout: a timeout or wakeup comes first.
LEMMA TriggerResult ==
    ASSUME NEW a \in Actor, NEW n \in Nat, NEW fired \in [1 .. n -> Timeout]
    PROVE  LET b == trigger_timeout(a, fired) IN
           /\ b \in Actor
           /\ b.waiting = a.waiting /\ b.waiting_for_code = a.waiting_for_code
           /\ b.pattern = a.pattern /\ b.subs = a.subs /\ b.timeout = a.timeout
           /\ n = 0 => b.queue = a.queue
           /\ n > 0 => b.queue # <<>> /\ Head(b.queue).type \in {"timeout", "wakeup"}
<1> DEFINE r == [i \in 1 .. n |->
                    Msg(IF fired[(n - i) + 1].user THEN "wakeup" ELSE "timeout")]
           q == r \o a.queue
           b == [a EXCEPT !.queue = q]
<1>1. trigger_timeout(a, fired) = b
  <2>1. DOMAIN fired = 1 .. n /\ Len(fired) = n
    OBVIOUS
  <2> QED
    BY <2>1 DEF trigger_timeout
<1>2. a.queue \in Seq(EMessage)
  BY DEF Actor
<1> DEFINE K == [type : {"timeout", "wakeup"}]
<1>3. r \in [1 .. n -> K]
  BY DEF Msg
<1> HIDE DEF r
<1>4. r \in Seq(K) /\ Len(r) = n /\ \A i \in 1 .. n : r[i].type \in {"timeout", "wakeup"}
  <2>1. ASSUME NEW i \in 1 .. n PROVE r[i].type \in {"timeout", "wakeup"}
    <3>1. r[i] \in K
      BY <1>3
    <3> QED
      BY <3>1
  <2> HIDE DEF K
  <2>2. r \in Seq(K) /\ Len(r) = n
    BY <1>3
  <2> QED
    BY <2>1, <2>2
<1>5. r \in Seq(EMessage)
  <2>1. K \subseteq EMessage
    BY DEF EMessage
  <2> HIDE DEF K
  <2> QED
    BY <1>4, <2>1, SeqMonotonic
<1> HIDE DEF K
<1>6. q \in Seq(EMessage) /\ Len(q) = n + Len(a.queue)
      /\ \A i \in 1 .. n + Len(a.queue) : q[i] = IF i <= n THEN r[i] ELSE a.queue[i - n]
  BY <1>2, <1>4, <1>5, ConcatProperties, Zenon
<1>7. n = 0 => q = a.queue
  BY <1>2, <1>4, <1>5, EmptySeq, ConcatEmptySeq
<1>8. ASSUME n > 0 PROVE q # <<>> /\ Head(q).type \in {"timeout", "wakeup"}
  <2>1. Len(a.queue) \in Nat
    BY <1>2, LenProperties
  <2>2. Len(q) # 0 /\ q[1] = r[1] /\ r[1].type \in {"timeout", "wakeup"}
    BY <1>4, <1>6, <1>8, <2>1
  <2> HIDE DEF q
  <2>3. q # <<>>
    BY <1>6, <2>2, EmptySeq
  <2> QED
    BY <1>6, <2>2, <2>3
<1> HIDE DEF q
<1>9. b \in Actor /\ b.queue = q /\ b.waiting = a.waiting /\ b.pattern = a.pattern
      /\ b.waiting_for_code = a.waiting_for_code /\ b.subs = a.subs /\ b.timeout = a.timeout
  BY <1>6, Zenon DEF Actor
<1> HIDE DEF b
<1> QED
  BY <1>1, <1>7, <1>8, <1>9

\* What the router delivers.
LEMMA DeliverTypes ==
    ASSUME ETypes, NEW s, NEW m \in EMessage
    PROVE  Deliver(inbox, mapping, s, m) \in Seq(Incoming)
<1>1. inbox \in Seq(Incoming) /\ DOMAIN mapping \subseteq Subscription
  BY DEF ETypes
<1>2. ASSUME s \in DOMAIN mapping PROVE [sub |-> s, msg |-> m] \in Incoming
  BY <1>1, <1>2 DEF Incoming
<1> QED
  BY <1>1, <1>2, AppendProperties DEF Deliver

(***************************************************************************)
(* The shapes of the steps in which an actor processes a message.          *)
(***************************************************************************)
\* What the step does to the subscriptions of the actor, which is a afterwards.
Remaps(id, a) ==
    \/ mapping' = mapping /\ a.subs = actors[id].subs
    \/ \E s \in Topic :
           \/ mapping' = add_subscription(mapping, id, s) /\ a.subs = actors[id].subs \cup {s}
           \/ mapping' = remove_subscriptions(mapping, id, {s}) /\ a.subs = actors[id].subs \ {s}

\* The timeouts with those that the actor's code has set.
Adds(T) == T = timeouts \/ \E x \in Timeout : T = timeouts \cup {x}

\* The actor stays: it looks at its queue, or asks for its code once more.
Settles(id, a, s, T) ==
    /\ Stay(id, s, T) /\ Remaps(id, a)
    /\ \/ s = Settle(a)
       \/ /\ s = [actor |-> a, next_timeout |-> FetchTimeout] /\ a.timeout = FetchTimeout
          /\ a.waiting /\ a.waiting_for_code
    /\ a.waiting \/ a.timeout = Forever
    /\ Adds(T) /\ inbox' \in Seq(Incoming) /\ delayed' \in Seq(Delayed)
    /\ UNCHANGED <<next_id, exits>>

Stays(id) ==
    Processing(id) /\ \E a \in Actor : \E s, T : Settles(id, a, s, T)

\* The actor ends, and says so.
Leaves(id) == Processing(id) /\ (Leave(id, 1) \/ Leave(id, 2))

\* The actor that is at the head of the ready queue, with its message taken.
LEMMA TakenTypes ==
    ASSUME ETypes, NEW id \in Live, actors[id].queue # <<>>
    PROVE  /\ actors[id] \in Actor /\ Taken(id) \in Actor /\ Awake(id) \in Actor
           /\ ~Taken(id).waiting /\ ~Awake(id).waiting
           /\ Taken(id).timeout = Forever /\ Awake(id).timeout = Forever
           /\ Taken(id).subs = actors[id].subs /\ Awake(id).subs = actors[id].subs
<1>1. actors[id] \in Actor
  BY DEF ETypes
<1>2. Tail(actors[id].queue) \in Seq(EMessage)
  BY <1>1, HeadTailProperties DEF Actor
<1>3. Taken(id) \in Actor /\ ~Taken(id).waiting /\ Taken(id).subs = actors[id].subs
      /\ Taken(id).timeout = Forever
  <2>1. Forever \in 0 .. Forever
    BY Bounds
  <2> QED
    BY <1>1, <1>2, <2>1, Zenon DEF Taken, Actor
<1> HIDE DEF Taken
<1>4. Awake(id) \in Actor /\ Awake(id).waiting = Taken(id).waiting
      /\ Awake(id).subs = Taken(id).subs /\ Awake(id).timeout = Taken(id).timeout
  BY <1>3, Zenon DEF Awake, Actor
<1> QED
  BY <1>1, <1>3, <1>4

\* A message that makes no call, or only one that leaves mapping and queue alone.
LEMMA SettlesPlain ==
    ASSUME ETypes, NEW id, Processing(id), NEW a \in Actor, a.subs = actors[id].subs,
           a.waiting \/ a.timeout = Forever, NEW T, Adds(T),
           Stay(id, Settle(a), T), mapping' = mapping,
           inbox' \in Seq(Incoming), delayed' \in Seq(Delayed), UNCHANGED <<next_id, exits>>
    PROVE  Stays(id)
<1>1. Remaps(id, a)
  BY DEF Remaps
<1>2. Settles(id, a, Settle(a), T)
  BY <1>1 DEF Settles
<1> QED
  BY <1>2 DEF Stays

\* trigger_code_fetch: the actor waits for its code.
LEMMA FetchTypes ==
    ASSUME NEW a \in Actor
    PROVE  LET b == trigger_code_fetch(a) IN
           /\ b \in Actor /\ b.waiting /\ b.waiting_for_code /\ b.subs = a.subs
           /\ b.timeout = FetchTimeout
  BY Bounds, Zenon DEF trigger_code_fetch, deffered_block_for, Actor

\* A call of the API.
LEMMA CallShape ==
    ASSUME ETypes, NEW b \in Behaviour,
           \/ block_for(b) \/ subscribe(b) \/ unsubscribe(b)
           \/ publish(b) \/ delayed_publish(b) \/ enqueue_wakeup(b)
    PROVE  \E id \in Live : Stays(id)
<1>1. Adds(timeouts) /\ inbox \in Seq(Incoming)
      /\ delayed \in Seq(Delayed) /\ now \in Nat /\ Live \subseteq Local
  BY Bounds DEF ETypes, Given, Local, Adds
<1>2. Live = DOMAIN actors
  BY DEF Live
<1>3. ASSUME NEW id \in Live, NEW op, Calls(id, b, op)
      PROVE  /\ Processing(id) /\ b.op = op /\ UNCHANGED <<next_id, exits>>
             /\ Awake(id) \in Actor /\ ~Awake(id).waiting /\ Awake(id).subs = actors[id].subs
             /\ Awake(id).timeout = Forever
  <2>1. Processing(id) /\ b.op = op /\ UNCHANGED <<next_id, exits>>
    BY <1>3 DEF Calls, Receives, Runs, Ordinary
  <2>2. actors[id].queue # <<>>
    BY <2>1 DEF Processing
  <2> QED
    BY <2>1, <2>2, TakenTypes
<1>4. b.op # "error" => b.arg \in Topic /\ b.time \in Nat
  BY ExecutorAssumption
<1>5. CASE block_for(b)
  <2>1. PICK id \in Live :
            /\ Calls(id, b, "block")
            /\ Stay(id, Settle(deffered_block_for(Awake(id), b.arg, b.time)), timeouts)
            /\ UNCHANGED <<inbox, mapping, delayed>>
    BY <1>2, <1>5 DEF block_for
  <2> DEFINE a == deffered_block_for(Awake(id), b.arg, b.time)
  <2>2. b.op = "block"
    BY <1>3, <2>1
  <2>3. b.time \in 0 .. Forever /\ b.arg \in Topic
    BY <1>4, <2>2, ExecutorAssumption
  <2>4. a \in Actor /\ a.subs = actors[id].subs /\ a.waiting
    BY <1>3, <2>1, <2>3, Zenon DEF deffered_block_for, Actor
  <2> HIDE DEF a
  <2>5. Stays(id)
    BY <1>1, <1>3, <2>1, <2>3, <2>4, SettlesPlain DEF a
  <2> QED
    BY <2>5
<1>6. CASE subscribe(b)
  <2>1. PICK id \in Live :
            /\ Calls(id, b, "subscribe")
            /\ Stay(id, Settle([Awake(id) EXCEPT !.subs = @ \cup {b.arg}]), timeouts)
            /\ mapping' = add_subscription(mapping, id, b.arg) /\ UNCHANGED <<inbox, delayed>>
    BY <1>2, <1>6, Zenon DEF subscribe
  <2> DEFINE a == [Awake(id) EXCEPT !.subs = @ \cup {b.arg}]
  <2>2. b.arg \in Topic
    BY <1>3, <1>4, <2>1
  <2>3. a \in Actor /\ a.subs = actors[id].subs \cup {b.arg} /\ a.timeout = Forever
    BY <1>3, <2>1, <2>2 DEF Actor, Subscription
  <2> HIDE DEF a
  <2>4. Remaps(id, a)
    BY <2>1, <2>2, <2>3 DEF Remaps
  <2>5. Settles(id, a, Settle(a), timeouts)
    BY <1>1, <1>3, <2>1, <2>3, <2>4 DEF Settles, a
  <2>6. Stays(id)
    BY <1>2, <1>3, <2>1, <2>3, <2>5 DEF Stays
  <2> QED
    BY <2>6
<1>7. CASE unsubscribe(b)
  <2>1. PICK id \in Live :
            /\ Calls(id, b, "unsubscribe")
            /\ Stay(id, Settle([Awake(id) EXCEPT !.subs = @ \ {b.arg}]), timeouts)
            /\ mapping' = remove_subscriptions(mapping, id, {b.arg}) /\ UNCHANGED <<inbox, delayed>>
    BY <1>2, <1>7, Zenon DEF unsubscribe
  <2> DEFINE a == [Awake(id) EXCEPT !.subs = @ \ {b.arg}]
  <2>2. b.arg \in Topic
    BY <1>3, <1>4, <2>1
  <2>3. a \in Actor /\ a.subs = actors[id].subs \ {b.arg} /\ a.timeout = Forever
    BY <1>3, <2>1, <2>2 DEF Actor, Subscription
  <2> HIDE DEF a
  <2>4. Remaps(id, a)
    BY <2>1, <2>2, <2>3, Zenon DEF Remaps
  <2>5. Settles(id, a, Settle(a), timeouts)
    BY <1>1, <1>3, <2>1, <2>3, <2>4 DEF Settles, a
  <2>6. Stays(id)
    BY <1>2, <1>3, <2>1, <2>3, <2>5 DEF Stays
  <2> QED
    BY <2>6
<1>8. CASE publish(b)
  <2>1. PICK id \in Live :
            /\ Calls(id, b, "publish") /\ Stay(id, Settle(Awake(id)), timeouts)
            /\ inbox' = Deliver(inbox, mapping, b.arg, User(b.arg)) /\ UNCHANGED <<mapping, delayed>>
    BY <1>2, <1>8 DEF publish
  <2>2. b.arg \in Topic
    BY <1>3, <1>4, <2>1
  <2>3. User(b.arg) \in EMessage
    BY <2>2 DEF User, EMessage
  <2>4. inbox' \in Seq(Incoming)
    BY <2>1, <2>3, DeliverTypes, SMTT(30)
  <2>5. Stays(id)
    BY <1>1, <1>2, <1>3, <2>1, <2>4, SettlesPlain
  <2> QED
    BY <2>5
<1>9. CASE delayed_publish(b)
  <2>1. PICK id \in Live :
            /\ Calls(id, b, "delay") /\ Stay(id, Settle(Awake(id)), timeouts)
            /\ delayed' = Append(delayed, [at |-> now + b.time, topic |-> b.arg])
            /\ UNCHANGED <<inbox, mapping>>
    BY <1>2, <1>9, SMTT(30) DEF delayed_publish
  <2>2. b.arg \in Topic /\ b.time \in Nat
    <3>1. Calls(id, b, "delay")
      BY <2>1
    <3>2. b.op = "delay"
      BY <1>3, <3>1
    <3> QED
      BY <1>4, <3>2
  <2>3. [at |-> now + b.time, topic |-> b.arg] \in Delayed
    BY <1>1, <2>2, SMTT(30) DEF Delayed
  <2>4. delayed' \in Seq(Delayed)
    <3> DEFINE x == [at |-> now + b.time, topic |-> b.arg]
    <3>1. delayed' = Append(delayed, x) /\ delayed \in Seq(Delayed)
      BY <1>1, <2>1
    <3>2. x \in Delayed
      BY <2>3
    <3> HIDE DEF x
    <3> QED
      BY <3>1, <3>2, AppendProperties
  <2>5. Stays(id)
    BY <1>1, <1>2, <1>3, <2>1, <2>4, SettlesPlain
  <2> QED
    BY <2>5
<1>10. CASE enqueue_wakeup(b)
  <2> DEFINE T(id) == timeouts \cup {[at |-> now + b.time, actor |-> id, user |-> TRUE]}
  <2>1. PICK id \in Live :
            /\ Calls(id, b, "wakeup") /\ Stay(id, Settle(Awake(id)), T(id))
            /\ UNCHANGED <<inbox, mapping, delayed>>
    BY <1>2, <1>10 DEF enqueue_wakeup
  <2>2. b.time \in Nat
    <3>1. b.op = "wakeup"
      BY <1>3, <2>1
    <3> QED
      BY <1>4, <3>1, SMTT(30)
  <2>3. [at |-> now + b.time, actor |-> id, user |-> TRUE] \in Timeout
    BY <1>1, <2>2 DEF Timeout
  <2>4. Adds(T(id))
    BY <2>3, Zenon DEF Adds
  <2> HIDE DEF T
  <2>5. Stays(id)
    BY <1>1, <1>2, <1>3, <2>1, <2>4, SettlesPlain, Zenon
  <2> QED
    BY <2>5
<1> QED
  BY <1>5, <1>6, <1>7, <1>8, <1>9, <1>10

\* Every step of an actor has one of the two shapes.
LEMMA StepShape ==
    ASSUME ETypes, Step
    PROVE  (\E id \in Live : Stays(id) \/ Leaves(id)) /\ UNCHANGED now
<1>1. Adds(timeouts) /\ inbox \in Seq(Incoming) /\ delayed \in Seq(Delayed) /\ now \in Nat
  BY DEF ETypes, Adds
<1>2. Live = DOMAIN actors
  BY DEF Live
<1>3. \A id \in Live : Processing(id) => actors[id].queue # <<>>
  BY DEF Processing
<1>4. UNCHANGED now
  <2>1. LateInitialize \/ DelayedCode \/ GiveUp \/ WakeupFails \/ ReceiveAndLeave => UNCHANGED now
    BY Zenon DEF LateInitialize, DelayedCode, GiveUp, WakeupFails, ReceiveAndLeave, svars
  <2>2. RetryFetch \/ WakeupWithoutCode => UNCHANGED now
    BY Zenon DEF RetryFetch, WakeupWithoutCode
  <2>3. \A id : Receives(id) => UNCHANGED now
    BY DEF Receives, svars
  <2>4. ReceiveOnly => UNCHANGED now
    BY <2>3 DEF ReceiveOnly
  <2>5. ASSUME NEW b \in Behaviour,
               \/ block_for(b) \/ subscribe(b) \/ unsubscribe(b)
               \/ publish(b) \/ delayed_publish(b) \/ enqueue_wakeup(b)
        PROVE  UNCHANGED now
    BY <2>3, <2>5, Zenon DEF block_for, subscribe, unsubscribe, publish, delayed_publish,
                      enqueue_wakeup, Calls
  <2> QED
    BY <2>1, <2>2, <2>4, <2>5 DEF Step
<1>5. CASE GiveUp \/ WakeupFails \/ ReceiveAndLeave
  BY <1>2, <1>4, <1>5 DEF GiveUp, WakeupFails, ReceiveAndLeave, Expired, Runs, Ordinary, Leaves
<1>6. CASE LateInitialize
  <2>1. PICK id \in Live, loads \in {TRUE, ~BadCode} :
            /\ Processing(id)
            /\ IF loads
               THEN /\ Stay(id, Settle([Taken(id) EXCEPT !.waiting_for_code = FALSE,
                                                         !.initialized = TRUE]),
                            timeouts)
                    /\ UNCHANGED <<inbox, mapping, delayed, next_id, exits, bounds>>
               ELSE Leave(id, 2)
    BY <1>2, <1>6, Zenon DEF LateInitialize
  <2> DEFINE a == [Taken(id) EXCEPT !.waiting_for_code = FALSE, !.initialized = TRUE]
  <2>2. Taken(id) \in Actor /\ Taken(id).timeout = Forever /\ Taken(id).subs = actors[id].subs
    BY <1>3, <2>1, TakenTypes
  <2>3. a \in Actor /\ a.timeout = Forever /\ a.subs = actors[id].subs
    BY <2>2, Zenon DEF Actor
  <2> HIDE DEF a
  <2>4. CASE ~loads
    BY <1>4, <2>1, <2>4 DEF Leaves
  <2>5. CASE loads
    <3>1. Stay(id, Settle(a), timeouts)
          /\ UNCHANGED <<inbox, mapping, delayed, next_id, exits>>
      BY <2>1, <2>5 DEF a
    <3>2. Stays(id)
      BY <1>1, <1>2, <2>1, <2>3, <3>1, SettlesPlain
    <3> QED
      BY <1>4, <3>2
  <2> QED
    BY <2>4, <2>5
<1>7. CASE DelayedCode
  <2>1. PICK id \in Live : /\ Processing(id) /\ Stay(id, Settle(Taken(id)), timeouts)
                           /\ UNCHANGED <<inbox, mapping, delayed, next_id, exits>>
    BY <1>2, <1>7 DEF DelayedCode
  <2>2. Taken(id) \in Actor /\ Taken(id).timeout = Forever /\ Taken(id).subs = actors[id].subs
    BY <1>3, <2>1, TakenTypes, SMTT(30)
  <2>3. Stays(id)
    BY <1>1, <1>2, <2>1, <2>2, SettlesPlain
  <2> QED
    BY <1>4, <2>3
<1>8. CASE RetryFetch
  <2> DEFINE a(id) == [trigger_code_fetch(Taken(id)) EXCEPT !.retries = @ + 1]
  <2>1. PICK id \in Live :
            /\ Processing(id)
            /\ Stay(id, [actor |-> a(id), next_timeout |-> FetchTimeout], timeouts)
            /\ UNCHANGED <<inbox, mapping, delayed, next_id, exits>>
    BY <1>2, <1>8, Zenon DEF RetryFetch, Expired
  <2>2. Taken(id) \in Actor /\ Taken(id).subs = actors[id].subs
    BY <1>3, <2>1, TakenTypes
  <2>3. a(id) \in Actor /\ a(id).waiting /\ a(id).waiting_for_code /\ a(id).subs = actors[id].subs
        /\ a(id).timeout = FetchTimeout
    <3> DEFINE c == trigger_code_fetch(Taken(id))
    <3>1. c \in Actor /\ c.waiting /\ c.waiting_for_code /\ c.subs = actors[id].subs
          /\ c.timeout = FetchTimeout
      BY <2>2, FetchTypes
    <3> HIDE DEF c
    <3>2. c.retries + 1 \in Nat
      BY <3>1 DEF Actor
    <3>3. LET d == [c EXCEPT !.retries = @ + 1] IN
          /\ d \in Actor /\ d.waiting /\ d.waiting_for_code /\ d.subs = actors[id].subs
          /\ d.timeout = FetchTimeout
      BY <3>1, <3>2, Zenon DEF Actor
    <3> QED
      BY <3>3 DEF c
  <2> HIDE DEF a
  <2>4. Remaps(id, a(id))
    BY <2>1, <2>3 DEF Remaps
  <2>5. Settles(id, a(id), [actor |-> a(id), next_timeout |-> FetchTimeout], timeouts)
    BY <1>1, <1>2, <2>1, <2>3, <2>4 DEF Settles
  <2>6. Stays(id)
    BY <1>2, <2>1, <2>3, <2>5 DEF Stays
  <2> QED
    BY <1>4, <2>6
<1>9. CASE WakeupWithoutCode
  <2> DEFINE a(id) == trigger_code_fetch(actors[id])
  <2>1. PICK id \in Live :
            /\ Processing(id)
            /\ \/ Leave(id, 1)
               \/ /\ Stay(id, Settle(a(id)), timeouts)
                  /\ UNCHANGED <<inbox, mapping, delayed, next_id, exits>>
    BY <1>2, <1>9, Zenon DEF WakeupWithoutCode, Ordinary
  <2>2. actors[id] \in Actor
    BY <1>3, <2>1, TakenTypes
  <2>3. a(id) \in Actor /\ a(id).waiting /\ a(id).subs = actors[id].subs
    BY <2>2, FetchTypes, Zenon
  <2> HIDE DEF a
  <2>4. CASE Leave(id, 1)
    BY <1>4, <2>1, <2>4 DEF Leaves
  <2>5. CASE /\ Stay(id, Settle(a(id)), timeouts)
             /\ UNCHANGED <<inbox, mapping, delayed, next_id, exits>>
    <3>1. Stays(id)
      BY <1>1, <1>2, <2>1, <2>3, <2>5, SettlesPlain
    <3> QED
      BY <1>4, <3>1
  <2> QED
    BY <2>1, <2>4, <2>5
<1>10. CASE ReceiveOnly
  <2>1. PICK id \in Live : /\ Processing(id) /\ Stay(id, Settle(Awake(id)), timeouts)
                           /\ UNCHANGED <<inbox, mapping, delayed, next_id, exits>>
    BY <1>2, <1>10 DEF ReceiveOnly, Receives, Runs, Ordinary
  <2>2. Awake(id) \in Actor /\ Awake(id).timeout = Forever /\ Awake(id).subs = actors[id].subs
    BY <1>3, <2>1, TakenTypes
  <2>3. Stays(id)
    BY <1>1, <1>2, <2>1, <2>2, SettlesPlain
  <2> QED
    BY <1>4, <2>3
<1>11. ASSUME NEW b \in Behaviour,
              \/ block_for(b) \/ subscribe(b) \/ unsubscribe(b)
              \/ publish(b) \/ delayed_publish(b) \/ enqueue_wakeup(b)
       PROVE  \E id \in Live : Stays(id)
  BY <1>11, CallShape
<1> QED
  BY <1>4, <1>5, <1>6, <1>7, <1>8, <1>9, <1>10, <1>11 DEF Step

(***************************************************************************)
(* Sequences without repetition.                                           *)
(***************************************************************************)
\* Taking the first element.
LEMMA TailOnce ==
    ASSUME NEW S, NEW s \in Seq(S), s # <<>>, IsInjective(s)
    PROVE  /\ Tail(s) \in Seq(S) /\ IsInjective(Tail(s))
           /\ Head(s) \in Range(s) /\ Range(Tail(s)) = Range(s) \ {Head(s)}
<1>1. Len(s) \in Nat /\ DOMAIN s = 1 .. Len(s) /\ 1 \in 1 .. Len(s) /\ Head(s) = s[1]
  <2>1. Len(s) \in Nat /\ DOMAIN s = 1 .. Len(s) /\ Len(s) # 0
    BY LenProperties, EmptySeq
  <2> QED
    BY <2>1
<1>2. /\ Tail(s) \in Seq(S) /\ Len(Tail(s)) = Len(s) - 1 /\ DOMAIN Tail(s) = 1 .. Len(s) - 1
      /\ \A i \in 1 .. Len(s) - 1 : Tail(s)[i] = s[i + 1]
  <2>1. Tail(s) \in Seq(S) /\ Len(Tail(s)) = Len(s) - 1
        /\ \A i \in 1 .. Len(Tail(s)) : Tail(s)[i] = s[i + 1]
    BY HeadTailProperties
  <2> QED
    BY <2>1, LenProperties
<1>3. \A i, j \in 1 .. Len(s) : s[i] = s[j] => i = j
  BY <1>1 DEF IsInjective
<1>4. IsInjective(Tail(s))
  <2>1. ASSUME NEW i \in 1 .. Len(s) - 1, NEW j \in 1 .. Len(s) - 1, Tail(s)[i] = Tail(s)[j]
        PROVE  i = j
    <3>1. i + 1 \in 1 .. Len(s) /\ j + 1 \in 1 .. Len(s) /\ s[i + 1] = s[j + 1]
      BY <1>1, <1>2, <2>1
    <3>2. i + 1 = j + 1
      BY <1>3, <3>1
    <3> QED
      BY <1>1, <3>2
  <2> QED
    BY <1>2, <2>1 DEF IsInjective
<1>5. ASSUME NEW x \in Range(Tail(s)) PROVE x \in Range(s) \ {Head(s)}
  <2>1. PICK i \in 1 .. Len(s) - 1 : x = s[i + 1]
    BY <1>2 DEF Range
  <2>2. i + 1 \in 1 .. Len(s) /\ i + 1 # 1
    BY <1>1
  <2>3. s[i + 1] # s[1]
    BY <1>1, <1>3, <2>2
  <2> QED
    BY <1>1, <2>1, <2>2, <2>3 DEF Range
<1>6. ASSUME NEW x \in Range(s), x # Head(s) PROVE x \in Range(Tail(s))
  <2>1. PICK i \in 1 .. Len(s) : x = s[i]
    BY <1>1 DEF Range
  <2>2. i # 1
    BY <1>1, <1>6, <2>1
  <2>3. i - 1 \in 1 .. Len(s) - 1 /\ (i - 1) + 1 = i
    BY <1>1, <2>2
  <2>4. Tail(s)[i - 1] = x
    BY <1>2, <2>1, <2>3
  <2> QED
    BY <1>2, <2>3, <2>4, Zenon DEF Range
<1>7. Head(s) \in Range(s)
  BY <1>1 DEF Range
<1> QED
  BY <1>2, <1>4, <1>5, <1>6, <1>7

\* Putting a sequence behind another.
LEMMA ConcatOnce ==
    ASSUME NEW S, NEW s \in Seq(S), NEW t \in Seq(S), IsInjective(s), IsInjective(t),
           Range(s) \cap Range(t) = {}
    PROVE  /\ s \o t \in Seq(S) /\ IsInjective(s \o t)
           /\ Range(s \o t) = Range(s) \cup Range(t)
<1> DEFINE m == Len(s)
           n == Len(t)
           r == s \o t
<1>1. m \in Nat /\ n \in Nat /\ DOMAIN s = 1 .. m /\ DOMAIN t = 1 .. n
  BY LenProperties
<1>2. r \in Seq(S) /\ Len(r) = m + n
      /\ \A i \in 1 .. m + n : r[i] = IF i <= m THEN s[i] ELSE t[i - m]
  BY ConcatProperties
<1>3. DOMAIN r = 1 .. m + n
  BY <1>2, LenProperties
<1> HIDE DEF m, n, r
<1>4. ASSUME NEW i \in 1 .. m PROVE i \in 1 .. m + n /\ r[i] = s[i] /\ s[i] \in Range(s)
  <2>1. i \in 1 .. m + n /\ i <= m
    BY <1>1
  <2> QED
    BY <1>1, <1>2, <2>1, Zenon DEF Range
<1>5. ASSUME NEW i \in 1 .. m + n, ~(i <= m)
      PROVE  i - m \in 1 .. n /\ r[i] = t[i - m] /\ t[i - m] \in Range(t)
  <2>1. i - m \in 1 .. n
    BY <1>1, <1>5
  <2> QED
    BY <1>1, <1>2, <1>5, <2>1, Zenon DEF Range
<1>6. ASSUME NEW i \in 1 .. m + n, i <= m PROVE i \in 1 .. m
  BY <1>1, <1>6
<1>7. ASSUME NEW i \in 1 .. n PROVE m + i \in 1 .. m + n /\ r[m + i] = t[i]
  <2>1. m + i \in 1 .. m + n /\ ~(m + i <= m) /\ (m + i) - m = i
    BY <1>1
  <2> QED
    BY <1>2, <2>1
<1>8. ASSUME NEW i \in 1 .. m + n, NEW j \in 1 .. m + n, r[i] = r[j] PROVE i = j
  <2>1. CASE i <= m /\ j <= m
    <3>1. i \in 1 .. m /\ j \in 1 .. m
      BY <1>6, <2>1
    <3>2. s[i] = s[j]
      BY <1>4, <1>8, <3>1
    <3> QED
      BY <1>1, <3>1, <3>2 DEF IsInjective
  <2>2. CASE ~(i <= m) /\ ~(j <= m)
    <3>1. i - m \in 1 .. n /\ j - m \in 1 .. n /\ t[i - m] = t[j - m]
      BY <1>5, <1>8, <2>2
    <3>2. i - m = j - m
      BY <1>1, <3>1 DEF IsInjective
    <3> QED
      BY <1>1, <3>2
  <2>3. CASE i <= m /\ ~(j <= m)
    BY <1>4, <1>5, <1>6, <1>8, <2>3
  <2>4. CASE ~(i <= m) /\ j <= m
    BY <1>4, <1>5, <1>6, <1>8, <2>4
  <2> QED
    BY <2>1, <2>2, <2>3, <2>4
<1>9. IsInjective(r)
  BY <1>3, <1>8 DEF IsInjective
<1>10. Range(r) \subseteq Range(s) \cup Range(t)
  <2> SUFFICES ASSUME NEW x \in Range(r) PROVE x \in Range(s) \cup Range(t)
    OBVIOUS
  <2>1. PICK i \in 1 .. m + n : x = r[i]
    BY <1>3 DEF Range
  <2> QED
    BY <1>4, <1>5, <1>6, <2>1
<1>11. Range(s) \subseteq Range(r)
  BY <1>1, <1>3, <1>4, Zenon DEF Range
<1>12. Range(t) \subseteq Range(r)
  BY <1>1, <1>3, <1>7 DEF Range
<1> QED
  BY <1>2, <1>9, <1>10, <1>11, <1>12 DEF r

\* Putting an element behind a sequence.
LEMMA AppendOnce ==
    ASSUME NEW S, NEW s \in Seq(S), NEW e \in S, IsInjective(s), e \notin Range(s)
    PROVE  /\ Append(s, e) \in Seq(S) /\ IsInjective(Append(s, e))
           /\ Range(Append(s, e)) = Range(s) \cup {e}
<1>1. <<e>> \in Seq(S) /\ DOMAIN <<e>> = {1} /\ <<e>>[1] = e
  OBVIOUS
<1>2. IsInjective(<<e>>) /\ Range(<<e>>) = {e}
  BY <1>1 DEF IsInjective, Range
<1>3. Append(s, e) = s \o <<e>>
  BY AppendIsConcat
<1>4. Range(s) \cap Range(<<e>>) = {}
  BY <1>2
<1> DEFINE u == <<e>>
<1> HIDE DEF u
<1>5. /\ s \o u \in Seq(S) /\ IsInjective(s \o u)
      /\ Range(s \o u) = Range(s) \cup Range(u)
  <2>1. u \in Seq(S) /\ IsInjective(u) /\ Range(s) \cap Range(u) = {}
    BY <1>1, <1>2, <1>4 DEF u
  <2> QED
    BY <2>1, ConcatOnce
<1> QED
  BY <1>2, <1>3, <1>5 DEF u

(***************************************************************************)
(* The steps of the others.                                                *)
(***************************************************************************)
\* The other threads add to the executor's queue and leave the rest alone.
LEMMA OthersShape ==
    ASSUME ETypes, Others
    PROVE  /\ UNCHANGED <<actors, mapping, ready_queue, timeouts, delayed, pc, next_id, exits>>
           /\ inbox' \in Seq(Incoming) /\ now' \in Nat
<1>1. inbox \in Seq(Incoming) /\ now \in Nat /\ DOMAIN actors \subseteq Local
  BY Bounds DEF ETypes, Live, Given, Local
<1>2. \A t \in Topic : User(t) \in EMessage
  BY DEF User, EMessage
<1>3. Msg("exit") \in EMessage /\ Msg("code_fetch_response") \in EMessage /\ STOP \in Incoming
  BY DEF Msg, EMessage, STOP, Incoming
<1>4. ASSUME NEW box \in Seq(Incoming), ToExecutor(box)
      PROVE  /\ UNCHANGED <<actors, mapping, ready_queue, timeouts, delayed, pc, next_id, exits>>
             /\ inbox' \in Seq(Incoming) /\ now' \in Nat
  BY <1>1, <1>4 DEF ToExecutor, thread, svars
<1>5. CASE Publish
  <2>1. PICK t \in Topic : ToExecutor(Deliver(inbox, mapping, t, User(t)))
    BY <1>5 DEF Publish
  <2>2. Deliver(inbox, mapping, t, User(t)) \in Seq(Incoming)
    BY <1>2, DeliverTypes
  <2> QED
    BY <1>4, <2>1, <2>2
<1>6. CASE ExitMessage
  <2>1. PICK id \in DOMAIN actors : ToExecutor(Deliver(inbox, mapping, id, Msg("exit")))
    BY <1>6 DEF ExitMessage
  <2>2. Deliver(inbox, mapping, id, Msg("exit")) \in Seq(Incoming)
    BY <1>3, DeliverTypes
  <2> QED
    BY <1>4, <2>1, <2>2
<1>7. CASE EndExecutor
  <2>1. Append(inbox, STOP) \in Seq(Incoming)
    BY <1>1, <1>3, AppendProperties
  <2> QED
    BY <1>4, <1>7, <2>1, Zenon DEF EndExecutor
<1>8. CASE DeployCode \/ ControlRemote
  BY <1>1, <1>8 DEF DeployCode, ControlRemote, ToStore, thread
<1>9. CASE CodeActor
  <2>1. UNCHANGED evars
    BY <1>9 DEF CodeActor
  <2>2. now' = now
    BY <1>9, Zenon DEF CodeActor, StoreCode, CodeUnavailable, RemoteFetchControl, Cleanup,
                       RemoteAnswer
  <2> QED
    BY <1>1, <2>1, <2>2 DEF evars
<1>10. CASE AnswerRequest
  <2>1. Deliver(inbox, mapping, Message.who, Msg("code_fetch_response")) \in Seq(Incoming)
    BY <1>3, DeliverTypes
  <2>2. inbox' \in Seq(Incoming) /\ UNCHANGED thread
    BY <1>1, <1>10, <2>1 DEF AnswerRequest
  <2>3. now' = now
    BY <1>10 DEF AnswerRequest, FetchRequest
  <2> QED
    BY <1>1, <2>2, <2>3 DEF thread
<1>11. CASE AskedByRemote
  BY <1>1, <1>11 DEF AskedByRemote, RemoteRequest, evars
<1>12. CASE Clock
  BY <1>1, <1>12 DEF Clock, StoreTick, evars
<1> QED
  BY <1>5, <1>6, <1>7, <1>8, <1>9, <1>10, <1>11, <1>12 DEF Others

(***************************************************************************)
(* The invariant.                                                          *)
(***************************************************************************)
\* Actor a can go on, with what it waits for if it waits.
Going(a) ==
    /\ a.queue # <<>> \/ Polls(a)
    /\ a.waiting /\ a.queue # <<>> =>
           \/ Matches(a.pattern, Head(a.queue))
           \/ Head(a.queue).type \in {"timeout", "wakeup", "exit"}
           \/ FirstMatch(a) = {} /\ (Head(a.queue).type = "init" \/ a.timeout = 0)

\* Actor a has nothing to go on with.
Idle(a) == IF a.waiting THEN FirstMatch(a) = {} \/ a.waiting_for_code ELSE a.queue = <<>>

Timed(id) == \E t \in timeouts : t.actor = id /\ ~t.user

\* Actor a waits for a limited time.
Limited(a) == a.waiting /\ a.timeout < Forever

\* The ready queue has each actor that can go on once and no other, and an actor that
\* is not in it and waits for a limited time has a timeout.
Scheduled ==
    /\ IsInjective(ready_queue)
    /\ \A id \in Live \cap Range(ready_queue) : Going(actors[id])
    /\ \A id \in Live \ Range(ready_queue) :
           Idle(actors[id]) /\ (Limited(actors[id]) => Timed(id))

EInv == ETypes /\ Scheduled /\ MappingExact /\ ExitsReported

\* The mapping of subscriptions has its type.
Mapping(m) ==
    DOMAIN m \subseteq Subscription /\ m \in [DOMAIN m -> (SUBSET Local) \ {{}}]

\* add_subscription.
LEMMA AddSubscription ==
    ASSUME NEW m, Mapping(m), NEW id \in Local, NEW s \in Subscription
    PROVE  LET n == add_subscription(m, id, s) IN
           /\ Mapping(n) /\ DOMAIN n = DOMAIN m \cup {s}
           /\ n[s] = (IF s \in DOMAIN m THEN m[s] ELSE {}) \cup {id}
           /\ \A x \in DOMAIN m \ {s} : n[x] = m[x]
<1> DEFINE v == (IF s \in DOMAIN m THEN m[s] ELSE {}) \cup {id}
           n == [x \in DOMAIN m \cup {s} |-> IF x = s THEN v ELSE m[x]]
<1>1. add_subscription(m, id, s) = n
  BY DEF add_subscription, Put
<1>2. v \in (SUBSET Local) \ {{}}
  BY DEF Mapping
<1> HIDE DEF v
<1>3. DOMAIN n = DOMAIN m \cup {s} /\ n[s] = v /\ \A x \in DOMAIN m \ {s} : n[x] = m[x]
  OBVIOUS
<1>4. Mapping(n)
  BY <1>2 DEF Mapping
<1> HIDE DEF n
<1> QED
  BY <1>1, <1>3, <1>4 DEF v

\* remove_subscription.
LEMMA RemoveSubscriptions ==
    ASSUME NEW m, Mapping(m), NEW id \in Local, NEW S
    PROVE  LET n == remove_subscriptions(m, id, S) IN
           /\ Mapping(n) /\ DOMAIN n \subseteq DOMAIN m
           /\ \A x \in DOMAIN m : x \in DOMAIN n <=> (x \in S => m[x] \ {id} # {})
           /\ \A x \in DOMAIN n : n[x] = IF x \in S THEN m[x] \ {id} ELSE m[x]
<1> DEFINE left(x) == IF x \in S THEN m[x] \ {id} ELSE m[x]
           D == {x \in DOMAIN m : left(x) # {}}
           n == [x \in D |-> left(x)]
<1>1. remove_subscriptions(m, id, S) = n
  BY DEF remove_subscriptions
<1>2. \A x \in DOMAIN m : m[x] # {} /\ m[x] \subseteq Local
  BY DEF Mapping
<1>3. \A x \in DOMAIN m : x \in D <=> (x \in S => m[x] \ {id} # {})
  BY <1>2
<1>4. \A x \in D : left(x) \in (SUBSET Local) \ {{}}
  BY <1>2
<1>5. D \subseteq Subscription
  BY DEF Mapping
<1>6. Mapping(n)
  <2> HIDE DEF D, left
  <2> QED
    BY <1>4, <1>5 DEF Mapping
<1>7. DOMAIN n = D /\ \A x \in D : n[x] = left(x)
  OBVIOUS
<1>8. D \subseteq DOMAIN m
  OBVIOUS
<1> HIDE DEF n, D
<1> QED
  BY <1>1, <1>3, <1>6, <1>7, <1>8

\* The mapping stays exact when an actor gains or loses a subscription, ...
LEMMA ExactAfterStep ==
    ASSUME ETypes, MappingExact, NEW id \in Live, NEW a \in Actor, Remaps(id, a),
           Live' = Live, actors'[id].subs = a.subs,
           \A k \in Live \ {id} : actors'[k] = actors[k]
    PROVE  Mapping(mapping)' /\ MappingExact'
<1>1. Mapping(mapping) /\ Live \subseteq Local
  BY Bounds, SMTT(30) DEF ETypes, Mapping, Given, Local
<1>2. /\ \A x \in DOMAIN mapping : mapping[x] = {k \in Live : x \in actors[k].subs}
      /\ \A k \in Live : actors[k].subs \subseteq DOMAIN mapping
  BY DEF MappingExact
<1> SUFFICES Mapping(mapping')
             /\ (\A x \in DOMAIN mapping' : mapping'[x] = {k \in Live : x \in actors'[k].subs})
             /\ (\A k \in Live : actors'[k].subs \subseteq DOMAIN mapping')
  BY DEF MappingExact, Mapping
<1>3. CASE mapping' = mapping /\ a.subs = actors[id].subs
  <2>1. \A k \in Live : actors'[k].subs = actors[k].subs
    BY <1>3, SMTT(30)
  <2> QED
    BY <1>1, <1>2, <1>3, <2>1
<1>4. ASSUME NEW s \in Topic, mapping' = add_subscription(mapping, id, s),
             a.subs = actors[id].subs \cup {s}
      PROVE  /\ Mapping(mapping')
             /\ (\A x \in DOMAIN mapping' : mapping'[x] = {k \in Live : x \in actors'[k].subs})
             /\ (\A k \in Live : actors'[k].subs \subseteq DOMAIN mapping')
  <2>1. s \in Subscription /\ id \in Local
    BY <1>1 DEF Subscription
  <2>2. /\ Mapping(mapping') /\ DOMAIN mapping' = DOMAIN mapping \cup {s}
        /\ mapping'[s] = (IF s \in DOMAIN mapping THEN mapping[s] ELSE {}) \cup {id}
        /\ \A x \in DOMAIN mapping \ {s} : mapping'[x] = mapping[x]
    <3> DEFINE n == add_subscription(mapping, id, s)
    <3>1. /\ Mapping(n) /\ DOMAIN n = DOMAIN mapping \cup {s}
          /\ n[s] = (IF s \in DOMAIN mapping THEN mapping[s] ELSE {}) \cup {id}
          /\ \A x \in DOMAIN mapping \ {s} : n[x] = mapping[x]
      BY <1>1, <2>1, AddSubscription, ZenonT(30)
    <3>2. mapping' = n
      BY <1>4
    <3> HIDE DEF n
    <3> QED
      BY <3>1, <3>2
  <2>3. mapping'[s] = {k \in Live : s \in actors'[k].subs}
    <3>1. (IF s \in DOMAIN mapping THEN mapping[s] ELSE {}) = {k \in Live : s \in actors[k].subs}
      BY <1>2
    <3>2. \A k \in Live : s \in actors'[k].subs <=> k = id \/ s \in actors[k].subs
      BY <1>4
    <3> QED
      BY <2>2, <3>1, <3>2
  <2>4. ASSUME NEW x \in DOMAIN mapping \ {s}
        PROVE  mapping'[x] = {k \in Live : x \in actors'[k].subs}
    <3>1. \A k \in Live : x \in actors'[k].subs <=> x \in actors[k].subs
      BY <1>4
    <3>2. mapping'[x] = {k \in Live : x \in actors[k].subs}
      BY <1>2, <2>2, SMTT(30)
    <3> QED
      BY <3>1, <3>2
  <2>5. \A k \in Live : actors'[k].subs \subseteq DOMAIN mapping'
    BY <1>2, <1>4, <2>2
  <2> QED
    BY <2>2, <2>3, <2>4, <2>5
<1>5. ASSUME NEW s \in Topic, mapping' = remove_subscriptions(mapping, id, {s}),
             a.subs = actors[id].subs \ {s}
      PROVE  /\ Mapping(mapping')
             /\ (\A x \in DOMAIN mapping' : mapping'[x] = {k \in Live : x \in actors'[k].subs})
             /\ (\A k \in Live : actors'[k].subs \subseteq DOMAIN mapping')
  <2>1. id \in Local
    BY <1>1
  <2>2. /\ Mapping(mapping')
        /\ DOMAIN mapping' \subseteq DOMAIN mapping
        /\ \A x \in DOMAIN mapping : x \in DOMAIN mapping' <=> (x \in {s} => mapping[x] \ {id} # {})
        /\ \A x \in DOMAIN mapping' :
               mapping'[x] = IF x \in {s} THEN mapping[x] \ {id} ELSE mapping[x]
    <3> DEFINE n == remove_subscriptions(mapping, id, {s})
    <3>1. /\ Mapping(n)
          /\ DOMAIN n \subseteq DOMAIN mapping
          /\ \A x \in DOMAIN mapping : x \in DOMAIN n <=> (x \in {s} => mapping[x] \ {id} # {})
          /\ \A x \in DOMAIN n : n[x] = IF x \in {s} THEN mapping[x] \ {id} ELSE mapping[x]
      BY <1>1, <2>1, RemoveSubscriptions, ZenonT(30)
    <3>2. mapping' = n
      BY <1>5
    <3> HIDE DEF n
    <3> QED
      BY <3>1, <3>2
  <2>3. ASSUME NEW x \in DOMAIN mapping'
        PROVE  mapping'[x] = {k \in Live : x \in actors'[k].subs}
    <3>1. x \in DOMAIN mapping /\ mapping[x] = {k \in Live : x \in actors[k].subs}
      BY <1>2, <2>2
    <3>2. mapping'[x] = IF x = s THEN mapping[x] \ {id} ELSE mapping[x]
      BY <2>2
    <3>3. \A k \in Live \ {id} : actors'[k].subs = actors[k].subs
      OBVIOUS
    <3>4. x \in actors'[id].subs <=> x \in actors[id].subs /\ x # s
      BY <1>5
    <3>5. \A k \in Live : x \in actors'[k].subs <=> x \in actors[k].subs /\ (k # id \/ x # s)
      BY <3>3, <3>4, SMTT(30)
    <3> QED
      BY <3>1, <3>2, <3>5
  <2>4. ASSUME NEW k \in Live, NEW x \in actors'[k].subs PROVE x \in DOMAIN mapping'
    <3>1. x \in actors[k].subs /\ (k = id => x # s)
      BY <1>5
    <3>2. x \in DOMAIN mapping /\ k \in mapping[x]
      BY <1>2, <3>1
    <3> QED
      BY <2>2, <3>1, <3>2
  <2> QED
    BY <2>2, <2>3, <2>4
<1> QED
  BY <1>3, <1>4, <1>5, Zenon DEF Remaps

\* ... and when it leaves.
LEMMA ExactAfterLeave ==
    ASSUME ETypes, MappingExact, NEW id \in Live,
           mapping' = remove_subscriptions(mapping, id, actors[id].subs),
           Live' = Live \ {id}, \A k \in Live \ {id} : actors'[k] = actors[k]
    PROVE  Mapping(mapping)' /\ MappingExact'
<1>1. Mapping(mapping) /\ id \in Local
  BY Bounds DEF ETypes, Mapping, Given, Local
<1>2. /\ \A x \in DOMAIN mapping : mapping[x] = {k \in Live : x \in actors[k].subs}
      /\ \A k \in Live : actors[k].subs \subseteq DOMAIN mapping
  BY DEF MappingExact
<1> DEFINE S == actors[id].subs
<1>3. /\ Mapping(mapping')
      /\ DOMAIN mapping' \subseteq DOMAIN mapping
      /\ \A x \in DOMAIN mapping : x \in DOMAIN mapping' <=> (x \in S => mapping[x] \ {id} # {})
      /\ \A x \in DOMAIN mapping' : mapping'[x] = IF x \in S THEN mapping[x] \ {id} ELSE mapping[x]
  <2> DEFINE n == remove_subscriptions(mapping, id, S)
  <2>1. /\ Mapping(n) /\ DOMAIN n \subseteq DOMAIN mapping
        /\ \A x \in DOMAIN mapping : x \in DOMAIN n <=> (x \in S => mapping[x] \ {id} # {})
        /\ \A x \in DOMAIN n : n[x] = IF x \in S THEN mapping[x] \ {id} ELSE mapping[x]
    <3> HIDE DEF S
    <3> QED
      BY <1>1, RemoveSubscriptions
  <2>2. mapping' = n
    BY SMTT(30)
  <2> HIDE DEF n
  <2> QED
    BY <2>1, <2>2, SMTT(30)
<1>4. ASSUME NEW x \in DOMAIN mapping'
      PROVE  mapping'[x] = {k \in Live \ {id} : x \in actors'[k].subs}
  <2>1. x \in DOMAIN mapping /\ mapping[x] = {k \in Live : x \in actors[k].subs}
    BY <1>2, <1>3, SMTT(30)
  <2>2. mapping'[x] = IF x \in S THEN mapping[x] \ {id} ELSE mapping[x]
    BY <1>3
  <2> QED
    BY <2>1, <2>2, SMTT(30)
<1>5. ASSUME NEW k \in Live \ {id}, NEW x \in actors'[k].subs PROVE x \in DOMAIN mapping'
  <2>1. x \in DOMAIN mapping /\ k \in mapping[x]
    BY <1>2
  <2> QED
    BY <1>3, <2>1
<1> QED
  BY <1>3, <1>4, <1>5 DEF MappingExact, Mapping

(***************************************************************************)
(* Each step keeps the invariant.                                          *)
(***************************************************************************)
\* The steps of the other threads.
LEMMA OthersKeep ==
    ASSUME EInv, Others
    PROVE  EInv'
<1>1. ETypes /\ Scheduled /\ MappingExact /\ ExitsReported
  BY DEF EInv
<1>2. /\ UNCHANGED <<actors, mapping, ready_queue, timeouts, delayed, pc, next_id, exits>>
      /\ inbox' \in Seq(Incoming) /\ now' \in Nat
  BY <1>1, OthersShape
<1>3. ETypes'
  BY <1>1, <1>2, SMTT(30) DEF ETypes, Live, Given
<1>4. Scheduled'
  BY <1>1, <1>2, SMTT(30) DEF Scheduled, Live, Timed
<1>5. MappingExact' /\ ExitsReported'
  BY <1>1, <1>2 DEF MappingExact, ExitsReported, Live
<1> QED
  BY <1>3, <1>4, <1>5 DEF EInv

\* The loop ends: it returns, or reads a message that is not there.
LEMMA LoopEndKeeps ==
    ASSUME EInv, LoopReturns \/ ReadsNothing
    PROVE  EInv'
<1>1. ETypes
  BY DEF EInv
<1>2. /\ pc' \in {"ended", "undefined"} /\ DOMAIN actors' = {} /\ DOMAIN mapping' = {}
      /\ inbox' = <<>> /\ ready_queue' = <<>> /\ timeouts' = {} /\ delayed' = <<>>
      /\ UNCHANGED <<now, next_id, exits>>
  BY DEF LoopReturns, ReadsNothing, EmptyStore, svars
<1>3. actors' \in [{} -> Actor] /\ mapping' \in [{} -> (SUBSET Local) \ {{}}]
  <2>1. actors' = EmptyStore /\ mapping' = EmptyStore
    BY DEF LoopReturns, ReadsNothing
  <2> QED
    BY <2>1 DEF EmptyStore
<1>4. Range(<<>>) = {} /\ IsInjective(<<>>)
  BY DEF Range, IsInjective
<1>5. ETypes'
  <2>1. inbox' \in Seq(Incoming) /\ ready_queue' \in Seq(Local) /\ delayed' \in Seq(Delayed)
    BY <1>2
  <2>2. timeouts' \subseteq Timeout
    BY <1>2
  <2>3. Live' = {} /\ Range(ready_queue') = {}
    BY <1>2, <1>4 DEF Live
  <2>4. now' \in Nat /\ next_id' \in 1 .. MaxActors + 1 /\ exits' \in [Local -> Nat]
        /\ \A id \in Local \ Given' : exits'[id] = 0
    BY <1>1, <1>2, SMTT(30) DEF ETypes, Given
  <2> QED
    BY <1>2, <1>3, <2>1, <2>2, <2>3, <2>4 DEF ETypes
<1>6. Scheduled' /\ MappingExact' /\ ExitsReported'
  BY <1>2, <1>4 DEF Scheduled, MappingExact, ExitsReported, Live
<1> QED
  BY <1>5, <1>6 DEF EInv

\* The loop has nobody to run.
LEMMA SkipKeeps ==
    ASSUME EInv, Skip
    PROVE  EInv'
<1>1. ETypes /\ Scheduled /\ MappingExact /\ ExitsReported
  BY DEF EInv
<1>2. /\ UNCHANGED <<now, inbox, actors, mapping, timeouts, delayed, next_id, exits>>
      /\ pc = "process" /\ pc' = "receive"
  BY DEF Skip, svars
<1>3. /\ ready_queue' \in Seq(Local) /\ IsInjective(ready_queue')
      /\ Range(ready_queue') \subseteq Range(ready_queue)
      /\ Live \cap Range(ready_queue') = Live \cap Range(ready_queue)
  <2>1. ready_queue \in Seq(Local) /\ IsInjective(ready_queue)
    BY <1>1 DEF ETypes, Scheduled
  <2>2. CASE ready_queue = <<>>
    BY <2>1, <2>2 DEF Skip
  <2>3. CASE ready_queue # <<>>
    <3>1. ready_queue' = Tail(ready_queue) /\ Head(ready_queue) \notin Live
      BY <2>3 DEF Skip, Live
    <3>2. /\ Tail(ready_queue) \in Seq(Local) /\ IsInjective(Tail(ready_queue))
          /\ Range(Tail(ready_queue)) = Range(ready_queue) \ {Head(ready_queue)}
      BY <2>1, <2>3, TailOnce, SMTT(30)
    <3> QED
      BY <3>1, <3>2
  <2> QED
    BY <2>2, <2>3
<1>4. ETypes'
  BY <1>1, <1>2, <1>3, SMTT(30) DEF ETypes, Live, Given
<1>5. Scheduled'
  <2>1. Live' = Live /\ actors' = actors /\ timeouts' = timeouts
    BY <1>2 DEF Live
  <2> QED
    BY <1>1, <1>3, <2>1 DEF Scheduled, Timed
<1>6. MappingExact' /\ ExitsReported'
  BY <1>1, <1>2 DEF MappingExact, ExitsReported, Live
<1> QED
  BY <1>4, <1>5, <1>6 DEF EInv

\* An actor ends.
LEMMA LeavesKeeps ==
    ASSUME EInv, NEW id \in Live, Leaves(id), UNCHANGED now
    PROVE  EInv'
<1>1. ETypes /\ Scheduled /\ MappingExact /\ ExitsReported
  BY DEF EInv
<1>2. PICK n \in {1, 2} : Leave(id, n)
  BY SMTT(30) DEF Leaves
<1>3. /\ pc = "process" /\ pc' = "receive" /\ ready_queue # <<>> /\ id = Head(ready_queue)
      /\ ready_queue' = Tail(ready_queue)
      /\ UNCHANGED <<now, inbox, timeouts, delayed, next_id>>
  BY <1>2 DEF Leaves, Processing, Leave
<1>4. Live' = Live \ {id} /\ \A k \in Live \ {id} : actors'[k] = actors[k]
  BY <1>2 DEF Leave, Drop, Live
<1>5. actors' \in [Live \ {id} -> Actor]
  BY <1>1, <1>2 DEF Leave, Drop, Live, ETypes
<1>6. /\ ready_queue' \in Seq(Local) /\ IsInjective(ready_queue')
      /\ Range(ready_queue') = Range(ready_queue) \ {id}
  <2>1. ready_queue \in Seq(Local) /\ IsInjective(ready_queue)
    BY <1>1, SMTT(30) DEF ETypes, Scheduled
  <2> QED
    BY <1>3, <2>1, TailOnce
<1>7. Mapping(mapping)' /\ MappingExact'
  <2>1. mapping' = remove_subscriptions(mapping, id, actors[id].subs)
    BY <1>2 DEF Leave
  <2> QED
    BY <1>1, <1>4, <2>1, ExactAfterLeave
<1>8. id \in Local /\ id \in Given /\ exits \in [Local -> Nat]
  BY <1>1, Bounds DEF ETypes, Given, Local
<1>9. /\ exits' \in [Local -> Nat] /\ exits'[id] # 0
      /\ \A k \in Local \ {id} : exits'[k] = exits[k]
  BY <1>2, <1>8 DEF Leave
<1>10. ETypes'
  <2>1. Given' = Given
    BY <1>3 DEF Given
  <2>2. Live' \subseteq Given /\ actors' \in [Live' -> Actor]
    BY <1>1, <1>4, <1>5 DEF ETypes
  <2>3. \A k \in Local \ Given : exits'[k] = 0
    BY <1>1, <1>8, <1>9 DEF ETypes
  <2>4. Range(ready_queue') \subseteq Given
    BY <1>1, <1>6 DEF ETypes
  <2>5. inbox' \in Seq(Incoming) /\ now' \in Nat /\ next_id' \in 1 .. MaxActors + 1
        /\ timeouts' \subseteq Timeout /\ delayed' \in Seq(Delayed)
        /\ pc' \in {"receive", "process", "ended", "undefined"}
    BY <1>1, <1>3, SMTT(30) DEF ETypes
  <2> QED
    BY <1>6, <1>7, <1>9, <2>1, <2>2, <2>3, <2>4, <2>5, SMTT(30) DEF ETypes, Mapping
<1>11. Scheduled'
  <2>1. \A k \in Live' : k # id /\ k \in Live /\ actors'[k] = actors[k]
                         /\ (k \in Range(ready_queue') <=> k \in Range(ready_queue))
    BY <1>4, <1>6
  <2>2. \A k : Timed(k)' <=> Timed(k)
    BY <1>3 DEF Timed
  <2> QED
    BY <1>1, <1>6, <2>1, <2>2, SMTT(30) DEF Scheduled
<1>12. ExitsReported'
  <2>1. ASSUME NEW k \in 1 .. next_id - 1 PROVE (k \in Live') <=> (exits'[k] = 0)
    <3>1. k \in Local
      BY <1>1, Bounds DEF ETypes, Local
    <3>2. (k \in Live) <=> (exits[k] = 0)
      BY <1>1, <1>3 DEF ExitsReported
    <3> QED
      BY <1>4, <1>9, <3>1, <3>2
  <2> QED
    BY <1>3, <2>1 DEF ExitsReported
<1> QED
  BY <1>7, <1>10, <1>11, <1>12 DEF EInv
\* An actor has processed a message and stays.
LEMMA StaysKeeps ==
    ASSUME EInv, NEW id \in Live, Stays(id), UNCHANGED now
    PROVE  EInv'
<1>1. ETypes /\ Scheduled /\ MappingExact /\ ExitsReported
  BY DEF EInv
<1>0. PICK a \in Actor : \E s, T : Settles(id, a, s, T)
  BY DEF Stays
<1>2. PICK s, T : Settles(id, a, s, T)
  BY <1>0
<1>3. /\ pc = "process" /\ pc' = "receive" /\ ready_queue # <<>> /\ id = Head(ready_queue)
  BY DEF Stays, Processing
<1>4. /\ Stay(id, s, T) /\ Remaps(id, a)
      /\ \/ s = Settle(a)
         \/ /\ s = [actor |-> a, next_timeout |-> FetchTimeout] /\ a.timeout = FetchTimeout
            /\ a.waiting /\ a.waiting_for_code
      /\ a.waiting \/ a.timeout = Forever
      /\ Adds(T) /\ inbox' \in Seq(Incoming) /\ delayed' \in Seq(Delayed)
      /\ UNCHANGED <<next_id, exits>>
  BY <1>2, SMTT(30) DEF Settles
<1> DEFINE ready == s.next_timeout = 0
<1>5. /\ s.actor \in Actor /\ s.next_timeout \in Nat
      /\ s.actor.waiting = a.waiting /\ s.actor.subs = a.subs /\ s.actor.timeout = a.timeout
      /\ ready => Going(s.actor)
      /\ ~ready => Idle(s.actor) /\ s.next_timeout = a.timeout
  <2>0. a.timeout \in Nat /\ Forever # 0 /\ FetchTimeout \in Nat /\ FetchTimeout # 0
    <3>1. a.timeout \in 0 .. Forever
      BY DEF Actor
    <3> QED
      BY <3>1, Bounds
  <2>1. CASE s = Settle(a)
    <3>1. /\ s.actor \in Actor
          /\ s.actor.waiting = a.waiting /\ s.actor.pattern = a.pattern /\ s.actor.subs = a.subs
          /\ s.actor.timeout = a.timeout
          /\ \/ /\ s.next_timeout = 0 /\ s.actor.queue # <<>>
                /\ a.waiting => Matches(a.pattern, Head(s.actor.queue))
             \/ /\ s.next_timeout = a.timeout
                /\ IF a.waiting THEN FirstMatch(s.actor) = {} ELSE s.actor.queue = <<>>
      BY <2>1, SettleResult
    <3>2. CASE /\ s.next_timeout = 0 /\ s.actor.queue # <<>>
               /\ a.waiting => Matches(a.pattern, Head(s.actor.queue))
      <4>1. Going(s.actor)
        BY <3>1, <3>2, Zenon DEF Going
      <4> QED
        BY <3>1, <3>2, <4>1
    <3>3. CASE /\ s.next_timeout = a.timeout
               /\ IF a.waiting THEN FirstMatch(s.actor) = {} ELSE s.actor.queue = <<>>
      <4>1. ASSUME ready PROVE Going(s.actor)
        <5>1. a.waiting /\ a.timeout = 0
          BY <1>4, <2>0, <3>3, <4>1
        <5> QED
          BY <3>1, <3>3, <5>1, Zenon DEF Going, Polls
      <4>2. Idle(s.actor)
        BY <3>1, <3>3, Zenon DEF Idle
      <4> QED
        BY <2>0, <3>1, <3>3, <4>1, <4>2
    <3> QED
      BY <3>1, <3>2, <3>3
  <2>2. CASE /\ s = [actor |-> a, next_timeout |-> FetchTimeout] /\ a.timeout = FetchTimeout
             /\ a.waiting /\ a.waiting_for_code
    <3>1. s.actor = a /\ s.next_timeout = FetchTimeout
      BY <2>2
    <3> QED
      BY <2>0, <2>2, <3>1 DEF Idle
  <2> QED
    BY <1>4, <2>1, <2>2
<1>6. /\ ready_queue' \in Seq(Local) /\ IsInjective(ready_queue')
      /\ \A k : k \in Range(ready_queue') <=>
                    IF k = id THEN ready ELSE k \in Range(ready_queue)
  <2>1. ready_queue \in Seq(Local) /\ IsInjective(ready_queue) /\ id \in Local
    BY <1>1, Bounds, SMTT(30) DEF ETypes, Scheduled, Given, Local
  <2> DEFINE r == Tail(ready_queue)
  <2>2. r \in Seq(Local) /\ IsInjective(r) /\ Range(r) = Range(ready_queue) \ {id}
    BY <1>3, <2>1, TailOnce
  <2>3. ready_queue' = IF ready THEN Append(r, id) ELSE r
    BY <1>4 DEF Stay
  <2> HIDE DEF r
  <2>4. /\ Append(r, id) \in Seq(Local) /\ IsInjective(Append(r, id))
        /\ Range(Append(r, id)) = Range(r) \cup {id}
    BY <2>1, <2>2, AppendOnce
  <2>5. CASE ready
    BY <2>2, <2>3, <2>4, <2>5
  <2>6. CASE ~ready
    BY <2>2, <2>3, <2>6
  <2> QED
    BY <2>5, <2>6
<1>7. /\ Live' = Live /\ actors' \in [Live -> Actor] /\ actors'[id] = s.actor
      /\ \A k \in Live \ {id} : actors'[k] = actors[k]
  <2>1. actors \in [Live -> Actor] /\ actors' = [actors EXCEPT ![id] = s.actor]
    BY <1>1, <1>4 DEF ETypes, Stay
  <2>2. actors' \in [Live -> Actor] /\ actors'[id] = s.actor
        /\ \A k \in Live \ {id} : actors'[k] = actors[k]
    BY <1>5, <2>1
  <2> QED
    BY <2>2, SMTT(30) DEF Live
<1>8. /\ timeouts \subseteq timeouts' /\ timeouts' \subseteq Timeout
      /\ ~ready /\ Limited(s.actor) => Timed(id)'
  <2> DEFINE x == [at |-> now + s.next_timeout, actor |-> id, user |-> FALSE]
             later == s.next_timeout \in 1 .. MaxTime
  <2>1. x \in Timeout /\ x.actor = id /\ ~x.user
    <3>1. now + s.next_timeout \in Nat /\ id \in Local
      BY <1>1, <1>5, Bounds, SMTT(30) DEF ETypes, Given, Local
    <3> QED
      BY <3>1 DEF Timeout
  <2>2. timeouts' = T \cup (IF later THEN {x} ELSE {})
    BY <1>4 DEF Stay
  <2>3. timeouts \subseteq T /\ T \subseteq Timeout
    BY <1>1, <1>4, SMTT(30) DEF Adds, ETypes
  <2>4. ASSUME ~ready, Limited(s.actor) PROVE later
    <3>1. s.next_timeout \in Nat /\ s.next_timeout # 0 /\ s.next_timeout < Forever
      BY <1>5, <2>4, Zenon DEF Limited
    <3> QED
      BY <3>1, Bounds
  <2> HIDE DEF x, later, ready
  <2> QED
    BY <2>1, <2>2, <2>3, <2>4 DEF Timed
<1> HIDE DEF ready
<1>9. Mapping(mapping)' /\ MappingExact'
  <2>1. actors'[id].subs = a.subs /\ Remaps(id, a)
    BY <1>4, <1>5, <1>7
  <2> QED
    BY <1>1, <1>7, <2>1, ExactAfterStep
<1>10. ETypes'
  <2>1. Given' = Given
    BY <1>4 DEF Given
  <2>2. Live' \subseteq Given /\ actors' \in [Live' -> Actor]
    BY <1>1, <1>7 DEF ETypes
  <2>3. exits' \in [Local -> Nat] /\ \A k \in Local \ Given : exits'[k] = 0
    BY <1>1, <1>4 DEF ETypes
  <2>4. Range(ready_queue') \subseteq Given
    BY <1>1, <1>6 DEF ETypes
  <2>5. now' \in Nat /\ next_id' \in 1 .. MaxActors + 1
        /\ pc' \in {"receive", "process", "ended", "undefined"}
    BY <1>1, <1>3, <1>4 DEF ETypes
  <2> QED
    BY <1>4, <1>6, <1>8, <1>9, <2>1, <2>2, <2>3, <2>4, <2>5, SMTT(30) DEF ETypes, Mapping
<1>11. Scheduled'
  <2>1. \A k : Timed(k) => Timed(k)'
    BY <1>8, SMTT(30) DEF Timed
  <2>2. ASSUME NEW k \in Live, k # id
        PROVE  /\ k \in Range(ready_queue') => Going(actors'[k])
               /\ k \notin Range(ready_queue') =>
                      Idle(actors'[k]) /\ (Limited(actors'[k]) => Timed(k)')
    BY <1>1, <1>6, <1>7, <2>1, <2>2, Zenon DEF Scheduled
  <2>3. /\ id \in Range(ready_queue') => Going(actors'[id])
        /\ id \notin Range(ready_queue') =>
               Idle(actors'[id]) /\ (Limited(actors'[id]) => Timed(id)')
    BY <1>5, <1>6, <1>7, <1>8, ZenonT(30)
  <2> QED
    BY <1>6, <1>7, <2>2, <2>3, Zenon DEF Scheduled
<1>12. ExitsReported'
  BY <1>1, <1>3, <1>4, <1>7 DEF ExitsReported
<1> QED
  BY <1>9, <1>10, <1>11, <1>12 DEF EInv

\* The message at the head of the executor's queue.
LEMMA HeadTypes ==
    ASSUME ETypes, inbox # <<>>
    PROVE  /\ Tail(inbox) \in Seq(Incoming)
           /\ Head(inbox).sub \in Subscription \cup {SPAWN} /\ Head(inbox).msg \in EMessage
<1>1. inbox \in Seq(Incoming)
  BY DEF ETypes
<1>2. Head(inbox) \in Incoming /\ Tail(inbox) \in Seq(Incoming)
  BY <1>1, HeadTailProperties
<1> QED
  BY <1>2 DEF Incoming

\* A new actor is ready for its first message.
LEMMA NewActorGoes ==
    ASSUME NEW id \in Local, NEW f \in BOOLEAN, NEW l \in BOOLEAN
    PROVE  LET a == IF f THEN [NewActor(id) EXCEPT !.initialized = l]
                    ELSE trigger_code_fetch(NewActor(id))
               b == enqueue(a, Msg("init"))
           IN  b \in Actor /\ b.subs = {id} /\ Going(b)
<1> DEFINE a == IF f THEN [NewActor(id) EXCEPT !.initialized = l]
                ELSE trigger_code_fetch(NewActor(id))
           b == enqueue(a, Msg("init"))
<1>1. /\ a \in Actor /\ a.subs = {id} /\ a.queue = <<>> /\ a.pattern = "code_fetch_response"
  <2>1. /\ NewActor(id) \in Actor /\ NewActor(id).subs = {id} /\ NewActor(id).queue = <<>>
        /\ NewActor(id).pattern = "code_fetch_response"
    <3>1. {id} \in SUBSET Subscription /\ <<>> \in Seq(EMessage)
      BY DEF Subscription
    <3>2. "code_fetch_response" \in Topic \cup {"code_fetch_response"} /\ 0 \in Nat
      OBVIOUS
    <3>3. Forever \in 0 .. Forever
      BY Bounds
    <3> QED
      BY <3>1, <3>2, <3>3, Zenon DEF NewActor, Actor
  <2>2. CASE f
    BY <2>1, <2>2 DEF Actor
  <2>3. CASE ~f
    BY <2>1, <2>3, Bounds, Zenon DEF Actor, trigger_code_fetch, deffered_block_for
  <2> QED
    BY <2>2, <2>3, SMTT(30)
<1> HIDE DEF a
<1>2. Msg("init") \in EMessage /\ Msg("init").type = "init"
  BY DEF Msg, EMessage
<1>3. ~Matches("code_fetch_response", Msg("init"))
  BY <1>2 DEF Matches
<1>4. /\ b \in Actor /\ b.queue # <<>> /\ b.subs = a.subs /\ b.waiting = a.waiting
      /\ a.waiting /\ FirstMatch(a) = {} => FirstMatch(b) = {}
  BY <1>1, <1>2, <1>3, EnqueueResult, Zenon
<1>5. FirstMatch(a) = {}
  <2>1. DOMAIN <<>> = {}
    OBVIOUS
  <2>2. DOMAIN a.queue = {}
    BY <1>1, <2>1, Zenon
  <2> QED
    BY <2>2, Zenon DEF FirstMatch
<1>6. Head(b.queue).type = "init"
  <2>1. b.queue = Append(<<>>, Msg("init"))
    BY <1>1, <1>2, <1>3 DEF enqueue, Actor
  <2>2. Append(<<>>, Msg("init")) = <<Msg("init")>>
    OBVIOUS
  <2> QED
    BY <1>2, <2>1, <2>2
<1> HIDE DEF b
<1>7. Going(b)
  BY <1>4, <1>5, <1>6, Zenon DEF Going
<1> QED
  BY <1>1, <1>4, <1>7 DEF a, b

\* The timeout of an actor whose code is not there.
LEMMA AddActorTimeouts ==
    ASSUME NEW loads, add_actor(loads)
    PROVE  \/ timeouts' = timeouts
           \/ timeouts' = timeouts \cup
                  {[at |-> now + FetchTimeout, actor |-> next_id, user |-> FALSE]}
<1>1. trigger_code_fetch(NewActor(next_id)).timeout = FetchTimeout
  BY DEF trigger_code_fetch, deffered_block_for, NewActor
<1> QED
  BY <1>1, Zenon DEF add_actor

\* An actor is started.
LEMMA AddActorKeeps ==
    ASSUME EInv, AddActor
    PROVE  EInv'
<1>1. ETypes /\ Scheduled /\ MappingExact /\ ExitsReported
  BY DEF EInv
<1> DEFINE id == next_id
<1>2. PICK loads \in {TRUE, ~BadCode} : add_actor(loads)
  BY Zenon DEF AddActor
<1>3. /\ inbox # <<>> /\ id <= MaxActors /\ inbox' = Tail(inbox) /\ next_id' = id + 1
      /\ pc = "receive" /\ UNCHANGED <<delayed, pc, exits, now>>
  BY <1>2 DEF AddActor, add_actor
<1>4. id \in Local /\ id \notin Given /\ Given \subseteq Local /\ Given' = Given \cup {id}
      /\ next_id' \in 1 .. MaxActors + 1
  <2>1. MaxActors \in Nat /\ id \in 1 .. MaxActors + 1 /\ id <= MaxActors
    BY <1>1, <1>3, Bounds DEF ETypes
  <2>2. id \in 1 .. MaxActors /\ id \notin 1 .. id - 1 /\ 1 .. id - 1 \subseteq 1 .. MaxActors
    BY <2>1
  <2>3. 1 .. (id + 1) - 1 = (1 .. id - 1) \cup {id} /\ id + 1 \in 1 .. MaxActors + 1
    BY <2>1
  <2> QED
    BY <1>3, <2>2, <2>3 DEF Given, Local
<1>5. Live \subseteq Given /\ id \notin Live
  BY <1>1, <1>4 DEF ETypes
<1>6. PICK b \in Actor : b.subs = {id} /\ Going(b) /\ actors' = Put(actors, id, b)
  <2> DEFINE f == retrieve(code_store, CodeId)
             a == IF f THEN [NewActor(id) EXCEPT !.initialized = loads]
                  ELSE trigger_code_fetch(NewActor(id))
             b == enqueue(a, Msg("init"))
  <2>1. actors' = Put(actors, id, b)
    BY <1>2 DEF add_actor
  <2>2. loads \in BOOLEAN /\ f \in BOOLEAN
    BY ExecutorAssumption, Zenon DEF retrieve
  <2>3. b \in Actor /\ b.subs = {id} /\ Going(b)
    <3> HIDE DEF f
    <3> QED
      BY <1>4, <2>2, NewActorGoes
  <2> QED
    BY <2>1, <2>3
<1>7. /\ Live' = Live \cup {id} /\ actors' \in [Live \cup {id} -> Actor] /\ actors'[id] = b
      /\ \A k \in Live : actors'[k] = actors[k]
  <2>1. actors \in [Live -> Actor]
    BY <1>1 DEF ETypes
  <2>2. actors' = [x \in Live \cup {id} |-> IF x = id THEN b ELSE actors[x]]
    BY <1>6 DEF Put, Live
  <2>3. actors' \in [Live \cup {id} -> Actor] /\ actors'[id] = b
        /\ \A k \in Live : actors'[k] = actors[k]
    BY <1>5, <2>1, <2>2, SMTT(30)
  <2> QED
    BY <2>3 DEF Live
<1>8. /\ ready_queue' \in Seq(Local) /\ IsInjective(ready_queue')
      /\ Range(ready_queue') = Range(ready_queue) \cup {id}
  <2>1. ready_queue' = Append(ready_queue, id)
    BY <1>2 DEF add_actor
  <2>2. ready_queue \in Seq(Local) /\ IsInjective(ready_queue) /\ id \notin Range(ready_queue)
    BY <1>1, <1>4 DEF ETypes, Scheduled
  <2> QED
    BY <1>4, <2>1, <2>2, AppendOnce
<1>9. timeouts \subseteq timeouts' /\ timeouts' \subseteq Timeout
  <2> DEFINE x == [at |-> now + FetchTimeout, actor |-> id, user |-> FALSE]
  <2>1. timeouts' = timeouts \/ timeouts' = timeouts \cup {x}
    BY <1>2, AddActorTimeouts
  <2>2. x \in Timeout
    <3>1. now + FetchTimeout \in Nat
      BY <1>1, Bounds DEF ETypes
    <3> QED
      BY <1>4, <3>1 DEF Timeout
  <2> HIDE DEF x
  <2>3. timeouts \subseteq Timeout
    BY <1>1 DEF ETypes
  <2> QED
    BY <2>1, <2>2, <2>3
<1>10. Mapping(mapping)' /\ MappingExact'
  <2> DEFINE n == add_subscription(mapping, id, id)
  <2>1. Mapping(mapping) /\ id \in Subscription
    BY <1>1, <1>4 DEF ETypes, Mapping, Subscription
  <2>2. /\ Mapping(n) /\ DOMAIN n = DOMAIN mapping \cup {id}
        /\ n[id] = (IF id \in DOMAIN mapping THEN mapping[id] ELSE {}) \cup {id}
        /\ \A x \in DOMAIN mapping \ {id} : n[x] = mapping[x]
    <3> HIDE DEF id
    <3> QED
      BY <1>4, <2>1, AddSubscription, ZenonT(30)
  <2>3. mapping' = n
    BY <1>2 DEF add_actor
  <2> HIDE DEF n
  <2>4. /\ \A x \in DOMAIN mapping : mapping[x] = {k \in Live : x \in actors[k].subs}
        /\ \A k \in Live : actors[k].subs \subseteq DOMAIN mapping
    BY <1>1 DEF MappingExact
  <2>5. n[id] = {k \in Live \cup {id} : id \in actors'[k].subs}
    <3>1. (IF id \in DOMAIN mapping THEN mapping[id] ELSE {}) = {k \in Live : id \in actors[k].subs}
      BY <2>4
    <3>2. \A k \in Live : id \in actors'[k].subs <=> id \in actors[k].subs
      BY <1>7
    <3>3. id \in actors'[id].subs
      BY <1>6, <1>7
    <3> HIDE DEF id
    <3> QED
      BY <2>2, <3>1, <3>2, <3>3
  <2>6. ASSUME NEW x \in DOMAIN mapping \ {id}
        PROVE  n[x] = {k \in Live \cup {id} : x \in actors'[k].subs}
    <3>1. n[x] = {k \in Live : x \in actors[k].subs}
      BY <2>2, <2>4
    <3>2. \A k \in Live : x \in actors'[k].subs <=> x \in actors[k].subs
      BY <1>7
    <3>3. x \notin actors'[id].subs
      BY <1>6, <1>7, SMTT(30)
    <3> HIDE DEF id
    <3> QED
      BY <3>1, <3>2, <3>3, SMTT(30)
  <2>7. \A k \in Live \cup {id} : actors'[k].subs \subseteq DOMAIN n
    BY <1>6, <1>7, <2>2, <2>4, SMTT(30)
  <2> HIDE DEF id
  <2> QED
    BY <1>7, <2>2, <2>3, <2>5, <2>6, <2>7, SMTT(30) DEF MappingExact, Mapping
<1>11. ETypes'
  <2>1. inbox' \in Seq(Incoming)
    BY <1>1, <1>3, HeadTypes
  <2>2. Live' \subseteq Given' /\ actors' \in [Live' -> Actor]
    BY <1>4, <1>5, <1>7
  <2>3. exits' \in [Local -> Nat] /\ \A k \in Local \ Given' : exits'[k] = 0
    BY <1>1, <1>3, <1>4 DEF ETypes
  <2>4. Range(ready_queue') \subseteq Given'
    BY <1>1, <1>4, <1>8 DEF ETypes
  <2>5. now' \in Nat /\ pc' \in {"receive", "process", "ended", "undefined"} /\ delayed' \in Seq(Delayed)
    BY <1>1, <1>3 DEF ETypes
  <2> QED
    BY <1>4, <1>8, <1>9, <1>10, <2>1, <2>2, <2>3, <2>4, <2>5, SMTT(30) DEF ETypes, Mapping
<1>12. Scheduled'
  <2>1. \A k : Timed(k) => Timed(k)'
    BY <1>9, SMTT(30) DEF Timed
  <2>2. ASSUME NEW k \in Live
        PROVE  /\ k \in Range(ready_queue') => Going(actors'[k])
               /\ k \notin Range(ready_queue') =>
                      Idle(actors'[k]) /\ (Limited(actors'[k]) => Timed(k)')
    BY <1>1, <1>5, <1>7, <1>8, <2>1 DEF Scheduled
  <2> QED
    BY <1>6, <1>7, <1>8, <2>2, Zenon DEF Scheduled
<1>13. ExitsReported'
  <2>1. ASSUME NEW k \in Given' PROVE (k \in Live') <=> (exits'[k] = 0)
    <3>1. CASE k = id
      BY <1>1, <1>3, <1>4, <1>7, <3>1, SMTT(30) DEF ETypes
    <3>2. CASE k # id
      <4>1. k \in Given
        BY <1>4, <3>2
      <4>2. (k \in Live) <=> (exits[k] = 0)
        BY <1>1, <1>3, <4>1 DEF ExitsReported, Given
      <4> QED
        BY <1>3, <1>7, <3>2, <4>2
    <3> QED
      BY <3>1, <3>2
  <2> QED
    BY <2>1 DEF ExitsReported, Given
<1> QED
  BY <1>10, <1>11, <1>12, <1>13 DEF EInv

\* A step of the loop adds at most a wakeup and a timeout.
LEMMA FewTimeouts ==
    ASSUME EInv, [RNext]_rvars
    PROVE  \E x, y : timeouts' \subseteq timeouts \cup {x, y}
<1>1. CASE AddActor
  <2> DEFINE x == [at |-> now + FetchTimeout, actor |-> next_id, user |-> FALSE]
  <2>1. timeouts' = timeouts \/ timeouts' = timeouts \cup {x}
    BY <1>1, AddActorTimeouts, Zenon DEF AddActor
  <2> HIDE DEF x
  <2> QED
    BY <2>1
<1>2. CASE LoopReturns \/ Dispatch \/ Fire \/ Skip \/ ReadsNothing
  <2>1. timeouts' \subseteq timeouts
    BY <1>2, Zenon DEF LoopReturns, Dispatch, Fire, Skip, ReadsNothing
  <2> QED
    BY <2>1
<1>3. CASE Step
  <2>1. PICK id \in Live : Stays(id) \/ Leaves(id)
    BY <1>3, StepShape DEF EInv
  <2>2. CASE Leaves(id)
    <3>1. timeouts' = timeouts
      BY <2>2 DEF Leaves, Leave
    <3> QED
      BY <3>1
  <2>3. CASE Stays(id)
    <3>1. PICK a \in Actor : \E s, T : Settles(id, a, s, T)
      BY <2>3 DEF Stays
    <3>2. PICK s, T : Stay(id, s, T) /\ Adds(T)
      BY <3>1, SMTT(30) DEF Settles
    <3> DEFINE y == [at |-> now + s.next_timeout, actor |-> id, user |-> FALSE]
    <3>3. timeouts' \subseteq T \cup {y}
      BY <3>2 DEF Stay
    <3>4. \E x : T \subseteq timeouts \cup {x}
      BY <3>2 DEF Adds
    <3> HIDE DEF y
    <3> QED
      BY <3>3, <3>4, SMTT(30)
  <2> QED
    BY <2>1, <2>2, <2>3
<1>4. CASE Others
  BY <1>4, OthersShape DEF EInv
<1>5. CASE UNCHANGED rvars
  BY <1>5 DEF rvars, evars
<1> QED
  BY <1>1, <1>2, <1>3, <1>4, <1>5 DEF RNext, Loop
=============================================================================
