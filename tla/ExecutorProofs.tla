---------------------------- MODULE ExecutorProofs ----------------------------
(***************************************************************************)
(* The executor's bookkeeping agrees with its actors, whatever the actors  *)
(* do and whatever the other threads send.                                 *)
(***************************************************************************)
EXTENDS ExecutorSteps, FiniteSetTheorems, TLAPS

(***************************************************************************)
(* Sets in order.                                                          *)
(***************************************************************************)
\* R orders T totally and strictly.
Orders(R, T) ==
    /\ \A x \in T : <<x, x>> \notin R
    /\ \A x, y, z \in T : <<x, y>> \in R /\ <<y, z>> \in R => <<x, z>> \in R
    /\ \A x, y \in T : x = y \/ <<x, y>> \in R \/ <<y, x>> \in R

\* InOrder lists every element of T once, from the first on.
Listed(T, R) ==
    /\ Cardinality(T) \in Nat
    /\ InOrder(T, R) \in [1 .. Cardinality(T) -> T]
    /\ IsInjective(InOrder(T, R))
    /\ \A t \in T : \E i \in 1 .. Cardinality(T) : InOrder(T, R)[i] = t
    /\ T # {} => \E t \in T : \A u \in T : <<u, t>> \notin R

\* InOrder as a sequence.
LEMMA ListedSeq ==
    ASSUME NEW T, NEW R, Listed(T, R)
    PROVE  /\ InOrder(T, R) \in Seq(T) /\ DOMAIN InOrder(T, R) = 1 .. Cardinality(T)
           /\ Cardinality(T) \in Nat
           /\ IsInjective(InOrder(T, R)) /\ Range(InOrder(T, R)) = T
<1> DEFINE s == InOrder(T, R)
           n == Cardinality(T)
<1>1. /\ n \in Nat /\ s \in [1 .. n -> T] /\ IsInjective(s)
      /\ \A t \in T : \E i \in 1 .. n : s[i] = t
  BY DEF Listed
<1> HIDE DEF s, n
<1>2. s \in Seq(T) /\ DOMAIN s = 1 .. n
  BY <1>1
<1>3. Range(s) = T
  BY <1>1, <1>2 DEF Range
<1> QED
  BY <1>1, <1>2, <1>3 DEF s, n

\* Nothing is listed exactly if there is nothing.
LEMMA ListedNone ==
    ASSUME NEW T, NEW R, Listed(T, R)
    PROVE  (Cardinality(T) = 0) <=> (T = {})
<1> DEFINE s == InOrder(T, R)
           n == Cardinality(T)
<1>1. n \in Nat /\ s \in [1 .. n -> T] /\ \A t \in T : \E i \in 1 .. n : s[i] = t
  BY DEF Listed
<1> HIDE DEF s, n
<1>2. ASSUME n # 0 PROVE T # {}
  <2>1. 1 \in 1 .. n
    BY <1>1, <1>2
  <2> QED
    BY <1>1, <2>1
<1>3. ASSUME n = 0 PROVE T = {}
  <2>1. 1 .. n = {}
    BY <1>3
  <2> QED
    BY <1>1, <2>1
<1> QED
  BY <1>2, <1>3 DEF n

\* InOrder lists every element once, from the first on.
LEMMA InOrderLists ==
    ASSUME NEW T, IsFiniteSet(T), NEW R, Orders(R, T)
    PROVE  Listed(T, R)
<1> DEFINE n == Cardinality(T)
           Before(t) == {u \in T : <<u, t>> \in R}
           rank(t) == Cardinality(Before(t))
           s == InOrder(T, R)
<1>1. n \in Nat
  BY FS_CardinalityType
<1>2. ASSUME NEW t \in T
      PROVE  IsFiniteSet(Before(t)) /\ rank(t) \in 0 .. n - 1
  <2>1. Before(t) \subseteq T \ {t}
    BY DEF Orders
  <2>2. IsFiniteSet(T \ {t}) /\ Cardinality(T \ {t}) = n - 1
    BY FS_RemoveElement
  <2> HIDE DEF Before
  <2>3. IsFiniteSet(Before(t)) /\ rank(t) <= n - 1
    <3>1. Before(t) \in SUBSET (T \ {t})
      BY <2>1
    <3> QED
      BY <2>2, <3>1, FS_Subset
  <2>4. rank(t) \in Nat
    BY <2>3, FS_CardinalityType
  <2> QED
    BY <1>1, <2>3, <2>4
<1>3. ASSUME NEW t \in T, NEW u \in T, <<t, u>> \in R
      PROVE  rank(t) < rank(u)
  <2>1. Before(t) \subseteq Before(u) /\ t \in Before(u) /\ t \notin Before(t)
    BY <1>3 DEF Orders
  <2>2. IsFiniteSet(Before(t)) /\ IsFiniteSet(Before(u)) /\ rank(t) \in Nat /\ rank(u) \in Nat
    BY <1>2, FS_CardinalityType
  <2> HIDE DEF Before
  <2>3. rank(t) <= rank(u) /\ (rank(t) = rank(u) => Before(t) = Before(u))
    BY <2>1, <2>2, FS_Subset
  <2> QED
    BY <2>1, <2>2, <2>3
<1> HIDE DEF rank, n
<1>4. ASSUME NEW t \in T, NEW u \in T, rank(t) = rank(u) PROVE t = u
  <2>1. rank(t) \in 0 .. n - 1
    BY <1>2, Zenon
  <2>2. ~(rank(t) < rank(u)) /\ ~(rank(u) < rank(t))
    BY <1>1, <1>4, <2>1, SMTT(30)
  <2>3. <<t, u>> \notin R /\ <<u, t>> \notin R
    BY <1>3, <2>2
  <2> QED
    BY <2>3 DEF Orders
<1> DEFINE g == [t \in T |-> rank(t) + 1]
<1>5. \A i \in 1 .. n : \E t \in T : rank(t) = i - 1
  <2>1. g \in [T -> 1 .. n]
    <3>1. ASSUME NEW t \in T PROVE rank(t) + 1 \in 1 .. n
      <4>1. rank(t) \in 0 .. n - 1
        BY <1>2, Zenon
      <4> QED
        BY <1>1, <4>1
    <3> QED
      BY <3>1
  <2>2. IsInjective(g)
    <3>1. ASSUME NEW t \in T, NEW u \in T, g[t] = g[u] PROVE t = u
      <4>1. rank(t) \in 0 .. n - 1 /\ rank(u) \in 0 .. n - 1
        BY <1>2, Zenon
      <4>2. rank(t) = rank(u)
        BY <1>1, <3>1, <4>1
      <4> QED
        BY <1>4, <4>2
    <3> QED
      BY <3>1 DEF IsInjective
  <2>3. IsFiniteSet(1 .. n) /\ Cardinality(1 .. n) = n
    BY <1>1, FS_Interval
  <2>4. g \in Surjection(T, 1 .. n)
    <3>1. g \in Injection(T, 1 .. n)
      BY <2>1, <2>2 DEF Injection
    <3> HIDE DEF g
    <3> QED
      BY <2>3, <3>1, FS_Injection DEF n
  <2>5. ASSUME NEW i \in 1 .. n PROVE \E t \in T : rank(t) = i - 1
    <3>1. PICK t \in T : g[t] = i
      BY <2>4, Zenon DEF Surjection
    <3>2. rank(t) \in 0 .. n - 1
      BY <1>2, Zenon
    <3> QED
      BY <1>1, <3>1, <3>2
  <2> QED
    BY <2>5
<1> DEFINE Pick(i) == CHOOSE t \in T : Cardinality({u \in T : <<u, t>> \in R}) = i - 1
<1>6. ASSUME NEW i \in 1 .. n PROVE Pick(i) \in T /\ rank(Pick(i)) = i - 1
  <2>1. \E t \in T : Cardinality({u \in T : <<u, t>> \in R}) = i - 1
    BY <1>5 DEF rank
  <2>2. Pick(i) \in T /\ Cardinality({u \in T : <<u, Pick(i)>> \in R}) = i - 1
    BY <2>1, Zenon
  <2> HIDE DEF Pick
  <2> QED
    BY <2>2 DEF rank
<1>7. DOMAIN s = 1 .. n /\ s \in [1 .. n -> T] /\ \A i \in 1 .. n : rank(s[i]) = i - 1
  <2>1. s = [i \in 1 .. n |-> Pick(i)]
    BY DEF InOrder, n
  <2> HIDE DEF s, Pick
  <2> QED
    BY <1>6, <2>1
<1> HIDE DEF s
<1>8. IsInjective(s)
  <2>1. ASSUME NEW i \in 1 .. n, NEW j \in 1 .. n, s[i] = s[j] PROVE i = j
    <3>1. i - 1 = j - 1
      BY <1>7, <2>1
    <3> QED
      BY <1>1, <3>1
  <2> QED
    BY <1>7, <2>1 DEF IsInjective
<1>9. ASSUME NEW t \in T PROVE \E i \in 1 .. n : s[i] = t
  <2>1. rank(t) \in 0 .. n - 1
    BY <1>2, Zenon
  <2>2. rank(t) + 1 \in 1 .. n /\ (rank(t) + 1) - 1 = rank(t)
    BY <1>1, <2>1
  <2>3. s[rank(t) + 1] \in T /\ rank(s[rank(t) + 1]) = rank(t)
    BY <1>7, <2>2
  <2> QED
    BY <1>4, <2>2, <2>3
<1>10. ASSUME T # {} PROVE \E t \in T : \A u \in T : <<u, t>> \notin R
  <2>1. 1 \in 1 .. n
    <3>1. n # 0
      BY <1>10, FS_EmptySet DEF n
    <3> QED
      BY <1>1, <3>1
  <2>2. PICK t \in T : rank(t) = 0
    BY <1>5, <2>1
  <2>3. Before(t) = {}
    BY <1>2, <2>2, FS_EmptySet DEF rank
  <2> QED
    BY <2>3
<1> QED
  BY <1>1, <1>7, <1>8, <1>9, <1>10, SMTT(30) DEF Listed, s, n

\* std::set orders its elements.
LEMMA AscendingListed ==
    ASSUME NEW S \in SUBSET Local
    PROVE  Listed(S, Ascending)
<1>1. IsFiniteSet(Local)
  BY Bounds, FS_Interval DEF Local
<1>2. \A x, y \in Local : <<x, y>> \in Ascending <=> x < y
  BY DEF Ascending
<1>3. Local \subseteq Nat
  BY Bounds DEF Local
<1>4. IsFiniteSet(S)
  BY <1>1, FS_Subset
<1>5. Orders(Ascending, S)
  <2>1. \A x \in S : x \in Nat /\ x \in Local
    BY <1>3
  <2> QED
    BY <1>2, <2>1 DEF Orders
<1> QED
  BY <1>4, <1>5, InOrderLists

\* The multimap orders the delayed messages.
LEMMA TimeListed ==
    ASSUME ETypes, NEW S \in SUBSET DOMAIN delayed
    PROVE  Listed(S, ByTime)
<1>1. Len(delayed) \in Nat /\ DOMAIN delayed = 1 .. Len(delayed)
      /\ \A i \in DOMAIN delayed : delayed[i].at \in Nat
  <2>1. delayed \in Seq(Delayed)
    BY DEF ETypes
  <2>2. Len(delayed) \in Nat /\ DOMAIN delayed = 1 .. Len(delayed)
    BY <2>1, LenProperties
  <2>3. \A i \in DOMAIN delayed : delayed[i] \in Delayed
    BY <2>1, <2>2, ElementOfSeq
  <2> QED
    BY <2>2, <2>3 DEF Delayed
<1>2. IsFiniteSet(DOMAIN delayed)
  BY <1>1, FS_Interval
<1>3. \A i, j \in S : <<i, j>> \in ByTime <=>
          delayed[i].at < delayed[j].at \/ (delayed[i].at = delayed[j].at /\ i < j)
  BY DEF ByTime
<1>4. \A i \in S : i \in Nat /\ delayed[i].at \in Nat
  BY <1>1
<1>5. IsFiniteSet(S)
  BY <1>2, FS_Subset
<1>6. Orders(ByTime, S)
  <2>1. \A i \in S : <<i, i>> \notin ByTime
    BY <1>3, <1>4
  <2>2. ASSUME NEW i \in S, NEW j \in S, i # j PROVE <<i, j>> \in ByTime \/ <<j, i>> \in ByTime
    <3>1. i \in Nat /\ j \in Nat /\ delayed[i].at \in Nat /\ delayed[j].at \in Nat
      BY <1>4
    <3>2. \/ delayed[i].at < delayed[j].at \/ (delayed[i].at = delayed[j].at /\ i < j)
          \/ delayed[j].at < delayed[i].at \/ (delayed[j].at = delayed[i].at /\ j < i)
      BY <2>2, <3>1
    <3> QED
      BY <1>3, <3>2
  <2>3. ASSUME NEW i \in S, NEW j \in S, NEW k \in S, <<i, j>> \in ByTime, <<j, k>> \in ByTime
        PROVE  <<i, k>> \in ByTime
    <3>1. i \in Nat /\ j \in Nat /\ k \in Nat /\ delayed[i].at \in Nat /\ delayed[j].at \in Nat
          /\ delayed[k].at \in Nat
      BY <1>4
    <3>2. /\ delayed[i].at < delayed[j].at \/ (delayed[i].at = delayed[j].at /\ i < j)
          /\ delayed[j].at < delayed[k].at \/ (delayed[j].at = delayed[k].at /\ j < k)
      BY <1>3, <2>3
    <3>3. delayed[i].at < delayed[k].at \/ (delayed[i].at = delayed[k].at /\ i < k)
      BY <3>1, <3>2
    <3> QED
      BY <1>3, <3>3
  <2> QED
    BY <2>1, <2>2, <2>3 DEF Orders
<1> QED
  BY <1>5, <1>6, InOrderLists

\* Timeout::operator< orders the timeouts.
LEMMA ScheduleOrders ==
    ASSUME ETypes, NEW S \in SUBSET timeouts
    PROVE  Orders(Schedule, S)
<1>1. timeouts \subseteq Timeout /\ Local \subseteq Nat
  BY Bounds DEF ETypes, Local
<1>2. \A x, y \in S : <<x, y>> \in Schedule <=> BySchedule(x, y)
  BY DEF Schedule
<1>3. \A x, y \in S : x = y \/ BySchedule(x, y) \/ BySchedule(y, x)
  <2> SUFFICES ASSUME NEW x \in S, NEW y \in S, ~BySchedule(x, y), ~BySchedule(y, x)
               PROVE  x = y
    OBVIOUS
  <2>1. x \in Timeout /\ y \in Timeout
    BY <1>1
  <2>2. x.at \in Nat /\ y.at \in Nat /\ x.actor \in Nat /\ y.actor \in Nat
    BY <1>1, <2>1, Zenon DEF Timeout
  <2>3. x.at = y.at /\ x.actor = y.actor
    BY <2>2 DEF BySchedule
  <2>4. x.user = y.user
    BY <2>1, <2>3 DEF BySchedule, Timeout
  <2> QED
    BY <2>1, <2>3, <2>4 DEF Timeout
<1>4. ASSUME NEW x \in S PROVE ~BySchedule(x, x)
  <2>1. x.at \in Nat /\ x.actor \in Nat
    BY <1>1, Zenon DEF Timeout
  <2>2. ~(x.at < x.at) /\ ~(x.actor < x.actor)
    BY <2>1
  <2> QED
    BY <2>2, Zenon DEF BySchedule
<1>5. \A x, y, z \in S : BySchedule(x, y) /\ BySchedule(y, z) => BySchedule(x, z)
  <2> SUFFICES ASSUME NEW x \in S, NEW y \in S, NEW z \in S, BySchedule(x, y), BySchedule(y, z)
               PROVE  BySchedule(x, z)
    OBVIOUS
  <2>1. x.at \in Nat /\ y.at \in Nat /\ z.at \in Nat /\ x.actor \in Nat /\ y.actor \in Nat
        /\ z.actor \in Nat
    BY <1>1, Zenon DEF Timeout
  <2> QED
    BY <2>1 DEF BySchedule
<1> QED
  BY <1>2, <1>3, <1>4, <1>5 DEF Orders

\* The set of timeouts is in the order of Timeout::operator<.
LEMMA ScheduleListed ==
    ASSUME ETypes, IsFiniteSet(timeouts), NEW S \in SUBSET timeouts
    PROVE  Listed(S, Schedule)
<1>1. IsFiniteSet(S)
  BY FS_Subset
<1>2. Orders(Schedule, S)
  BY ScheduleOrders
<1> QED
  BY <1>1, <1>2, InOrderLists

\* A step adds finitely many timeouts.
LEMMA TimeoutsStayFinite ==
    ASSUME EInv, IsFiniteSet(timeouts), [RNext]_rvars
    PROVE  IsFiniteSet(timeouts')
<1>1. PICK x, y : timeouts' \subseteq timeouts \cup {x, y}
  BY FewTimeouts
<1>2. IsFiniteSet(timeouts \cup {x})
  BY FS_AddElement
<1>3. IsFiniteSet((timeouts \cup {x}) \cup {y})
  BY <1>2, FS_AddElement
<1>4. timeouts' \in SUBSET ((timeouts \cup {x}) \cup {y})
  BY <1>1
<1> QED
  BY <1>3, <1>4, FS_Subset

(***************************************************************************)
(* The two steps that go through a set in its order.                       *)
(***************************************************************************)
\* In an empty queue there is nothing to match.
LEMMA NothingMatches ==
    ASSUME NEW a, a.queue = <<>>
    PROVE  FirstMatch(a) = {}
<1>1. DOMAIN <<>> = {}
  OBVIOUS
<1>2. DOMAIN a.queue = {}
  BY <1>1, Zenon
<1> QED
  BY <1>2, Zenon DEF FirstMatch

\* A publication goes to the actors that have subscribed.
LEMMA DispatchKeeps ==
    ASSUME EInv, Dispatch, \A S \in SUBSET Local : Listed(S, Ascending)
    PROVE  EInv'
<1>1. ETypes /\ Scheduled /\ MappingExact /\ ExitsReported
  BY SMTT(30) DEF EInv
<1> DEFINE s == Head(inbox).sub
           m == Head(inbox).msg
           R == (IF s \in DOMAIN mapping THEN mapping[s] ELSE {}) \cap DOMAIN actors
           W == {id \in R : Wakes(actors[id], m)}
           o == InOrder(W \ Range(ready_queue), Ascending)
<1>2. /\ inbox # <<>> /\ inbox' = Tail(inbox)
      /\ actors' = [id \in DOMAIN actors |->
                       IF id \in R THEN enqueue(actors[id], m) ELSE actors[id]]
      /\ ready_queue' = ready_queue \o o
      /\ timeouts' = timeouts \ UNION {FirstTimeout(id) : id \in W}
      /\ UNCHANGED <<now, mapping, delayed, pc, next_id, exits>>
  BY DEF Dispatch, svars
<1>3. R \subseteq Live /\ W \subseteq R /\ Live \subseteq Given /\ Given \subseteq Local
  <2>1. R \subseteq Live /\ W \subseteq R
    BY DEF Live
  <2>2. Live \subseteq Given /\ Given \subseteq Local
    BY <1>1, Bounds, SMTT(30) DEF ETypes, Given, Local
  <2> QED
    BY <2>1, <2>2
<1>4. m \in EMessage /\ inbox' \in Seq(Incoming)
  BY <1>1, <1>2, HeadTypes
<1>5. \A id \in R : id \in W <=> Wakes(actors[id], m)
  OBVIOUS
<1>6. timeouts' \subseteq timeouts
      /\ \A t \in timeouts : t.actor \notin W => t \in timeouts'
  <2>1. timeouts' \subseteq timeouts
    BY <1>2
  <2>3. \A id : \A t \in FirstTimeout(id) : t.actor = id
    BY DEF FirstTimeout
  <2> HIDE DEF W
  <2>4. \A t \in timeouts : t.actor \notin W => t \in timeouts'
    BY <1>2, <2>3
  <2> QED
    BY <2>1, <2>4, SMTT(30)
<1> HIDE DEF s, m, R, W
<1>7. ready_queue \in Seq(Local) /\ IsInjective(ready_queue) /\ Range(ready_queue) \subseteq Given
  BY <1>1 DEF ETypes, Scheduled
<1>8. /\ ready_queue' \in Seq(Local) /\ IsInjective(ready_queue')
      /\ Range(ready_queue') = Range(ready_queue) \cup W
  <2> DEFINE N == W \ Range(ready_queue)
  <2>1. N \subseteq Local
    BY <1>3
  <2>2. o = InOrder(N, Ascending)
    OBVIOUS
  <2>3. Range(ready_queue) \cap N = {} /\ Range(ready_queue) \cup N = Range(ready_queue) \cup W
    OBVIOUS
  <2> HIDE DEF N, o
  <2>4. Listed(N, Ascending)
    BY <2>1
  <2>5. o \in Seq(N) /\ IsInjective(o) /\ Range(o) = N
    BY <2>2, <2>4, ListedSeq
  <2>6. o \in Seq(Local)
    BY <2>1, <2>5, SeqMonotonic
  <2>7. /\ ready_queue \o o \in Seq(Local) /\ IsInjective(ready_queue \o o)
        /\ Range(ready_queue \o o) = Range(ready_queue) \cup Range(o)
    BY <1>7, <2>3, <2>5, <2>6, ConcatOnce, SMTT(30)
  <2> QED
    BY <1>2, <2>3, <2>5, <2>7, SMTT(30)
<1> HIDE DEF o
<1>9. actors \in [Live -> Actor]
  BY <1>1 DEF ETypes
<1>10. ASSUME NEW id \in R
       PROVE  /\ actors'[id] = enqueue(actors[id], m) /\ actors'[id] \in Actor
              /\ actors'[id].queue # <<>> /\ actors'[id].waiting = actors[id].waiting
              /\ actors'[id].waiting_for_code = actors[id].waiting_for_code
              /\ actors'[id].pattern = actors[id].pattern
              /\ actors'[id].subs = actors[id].subs
              /\ actors'[id].timeout = actors[id].timeout
  <2>1. id \in Live /\ actors[id] \in Actor
    BY <1>3, <1>9, SMTT(30)
  <2>2. actors'[id] = enqueue(actors[id], m)
    BY <1>2, <2>1, SMTT(30) DEF Live
  <2> DEFINE a == actors[id]
  <2> HIDE DEF a
  <2>3. LET b == enqueue(a, m) IN
        /\ b \in Actor /\ b.queue # <<>> /\ b.waiting = a.waiting
        /\ b.waiting_for_code = a.waiting_for_code
        /\ b.pattern = a.pattern /\ b.subs = a.subs /\ b.timeout = a.timeout
    BY <1>4, <2>1, EnqueueResult DEF a
  <2> QED
    BY <2>2, <2>3 DEF a
<1>11. \A id \in Live \ R : actors'[id] = actors[id]
  BY <1>2 DEF Live
<1>12. Live' = Live /\ actors' \in [Live -> Actor]
  <2>1. \A id \in Live : actors'[id] \in Actor
    BY <1>9, <1>10, <1>11, SMTT(30)
  <2>2. DOMAIN actors' = Live /\ actors' = [id \in Live |-> actors'[id]]
    BY <1>2 DEF Live
  <2>3. actors' \in [Live -> Actor]
    BY <2>1, <2>2
  <2> QED
    BY <2>2, <2>3 DEF Live
<1>13. ETypes'
  <2>1. Given' = Given
    BY <1>2 DEF Given
  <2>2. Range(ready_queue') \subseteq Given
    BY <1>3, <1>7, <1>8
  <2>3. timeouts' \subseteq Timeout
    BY <1>1, <1>6, SMTT(30) DEF ETypes
  <2>4. /\ now' \in Nat /\ next_id' \in 1 .. MaxActors + 1 /\ delayed' \in Seq(Delayed)
        /\ DOMAIN mapping' \subseteq Subscription
        /\ mapping' \in [DOMAIN mapping' -> (SUBSET Local) \ {{}}]
        /\ pc' \in {"receive", "process", "ended", "undefined"}
        /\ exits' \in [Local -> Nat] /\ \A id \in Local \ Given : exits'[id] = 0
    BY <1>1, <1>2 DEF ETypes
  <2> QED
    BY <1>3, <1>4, <1>6, <1>8, <1>12, <2>1, <2>2, <2>3, <2>4, SMTT(30) DEF ETypes
<1>14. ASSUME NEW id \in Live, id \in Range(ready_queue')
       PROVE  Going(actors'[id])
  <2>1. CASE id \notin R
    BY <1>1, <1>3, <1>8, <1>11, <1>14, <2>1, SMTT(30) DEF Scheduled
  <2>2. CASE id \in R
    <3> DEFINE a == actors[id]
               b == actors'[id]
    <3>1. /\ m.type = "exit" \/ (a.waiting /\ Matches(a.pattern, m)) => Head(b.queue) = m
          /\ ~(m.type = "exit" \/ (a.waiting /\ Matches(a.pattern, m))) =>
                /\ a.queue # <<>> => Head(b.queue) = Head(a.queue)
                /\ a.waiting /\ FirstMatch(a) = {} => FirstMatch(b) = {}
      <4>1. a \in Actor /\ b = enqueue(a, m)
        BY <1>3, <1>9, <1>10, <2>2, SMTT(30)
      <4> HIDE DEF a, b
      <4>2. LET e == enqueue(a, m) IN
            /\ m.type = "exit" \/ (a.waiting /\ Matches(a.pattern, m)) => Head(e.queue) = m
            /\ ~(m.type = "exit" \/ (a.waiting /\ Matches(a.pattern, m))) =>
                  /\ a.queue # <<>> => Head(e.queue) = Head(a.queue)
                  /\ a.waiting /\ FirstMatch(a) = {} => FirstMatch(e) = {}
        BY <1>4, <4>1, EnqueueResult, SMTT(30)
      <4> QED
        BY <4>1, <4>2, SMTT(30)
    <3>2. b.queue # <<>> /\ b.waiting = a.waiting /\ b.pattern = a.pattern
          /\ b.timeout = a.timeout
      BY <1>10, <2>2
    <3>3. ASSUME a.waiting, m.type # "exit", ~Matches(a.pattern, m)
          PROVE  Going(a)
      <4>1. id \notin W
        BY <1>5, <2>2, <3>3 DEF Wakes
      <4>2. id \in Range(ready_queue)
        BY <1>8, <1>14, <4>1, SMTT(30)
      <4> QED
        BY <1>1, <4>2, SMTT(30) DEF Scheduled
    <3> HIDE DEF a, b
    <3>4. Going(b)
      <4>1. CASE ~a.waiting \/ m.type = "exit" \/ Matches(a.pattern, m)
        BY <3>1, <3>2, <4>1, SMTT(30) DEF Going
      <4>2. CASE a.waiting /\ m.type # "exit" /\ ~Matches(a.pattern, m)
        <5>1. Going(a)
          BY <3>3, <4>2
        <5>2. CASE a.queue = <<>>
          <6>1. FirstMatch(a) = {} /\ a.timeout = 0
            BY <5>1, <5>2, NothingMatches DEF Going, Polls
          <6> QED
            BY <3>1, <3>2, <4>2, <6>1 DEF Going
        <5>3. CASE a.queue # <<>>
          BY <3>1, <3>2, <4>2, <5>1, <5>3 DEF Going
        <5> QED
          BY <5>2, <5>3
      <4> QED
        BY <4>1, <4>2
    <3> QED
      BY <3>4, SMTT(30) DEF b
  <2> QED
    BY <2>1, <2>2, SMTT(30)
<1>15. ASSUME NEW id \in Live, id \notin Range(ready_queue')
       PROVE  Idle(actors'[id]) /\ (Limited(actors'[id]) => Timed(id)')
  <2>1. id \notin Range(ready_queue) /\ id \notin W
    BY <1>8, <1>15
  <2>2. Idle(actors[id]) /\ (Limited(actors[id]) => Timed(id))
    BY <1>1, <2>1 DEF Scheduled
  <2>3. Timed(id) => Timed(id)'
    BY <1>6, <2>1 DEF Timed
  <2>4. CASE id \notin R
    BY <1>11, <2>2, <2>3, <2>4, SMTT(30)
  <2>5. CASE id \in R
    <3>1. ~Wakes(actors[id], m)
      BY <1>5, <2>1, <2>5, SMTT(30)
    <3>2. /\ actors[id].waiting /\ m.type # "exit" /\ ~Matches(actors[id].pattern, m)
      BY <3>1 DEF Wakes
    <3>3. FirstMatch(actors[id]) = {} => FirstMatch(actors'[id]) = {}
      <4> DEFINE a == actors[id]
      <4>1. a \in Actor /\ actors'[id] = enqueue(a, m)
            /\ a.waiting /\ m.type # "exit" /\ ~Matches(a.pattern, m)
        BY <1>3, <1>9, <1>10, <2>5, <3>2, SMTT(30)
      <4> HIDE DEF a
      <4>2. FirstMatch(a) = {} => FirstMatch(enqueue(a, m)) = {}
        BY <1>4, <4>1, EnqueueResult, SMTT(30)
      <4>3. FirstMatch(a) = {} => FirstMatch(actors'[id]) = {}
        BY <4>1, <4>2, SMTT(30)
      <4> QED
        BY <4>3, SMTT(30) DEF a
    <3>4. Idle(actors'[id])
      BY <1>10, <2>2, <2>5, <3>2, <3>3, SMTT(30) DEF Idle
    <3>5. Limited(actors'[id]) => Limited(actors[id])
      BY <1>10, <2>5 DEF Limited
    <3> QED
      BY <2>2, <2>3, <3>4, <3>5
  <2> QED
    BY <2>4, <2>5
<1>16. Scheduled'
  BY <1>8, <1>12, <1>14, <1>15, SMTT(30) DEF Scheduled
<1>17. MappingExact' /\ ExitsReported'
  <2>1. \A id \in Live : actors'[id].subs = actors[id].subs
    BY <1>10, <1>11
  <2> QED
    BY <1>1, <1>2, <1>12, <2>1, SMTT(30) DEF MappingExact, ExitsReported
<1> QED
  BY <1>13, <1>16, <1>17 DEF EInv

\* What is due fires.
LEMMA FireKeeps ==
    ASSUME EInv, Fire, \A S \in SUBSET timeouts : Listed(S, Schedule),
           \A S \in SUBSET DOMAIN delayed : Listed(S, ByTime)
    PROVE  EInv'
<1>1. ETypes /\ Scheduled /\ MappingExact /\ ExitsReported
  BY SMTT(30) DEF EInv
<1> DEFINE Due == {t \in timeouts : Past(t.at)}
           DueOf(id) == {t \in Due : t.actor = id}
           First == {t \in Due : /\ t.actor \in DOMAIN actors \ Range(ready_queue)
                                 /\ \A u \in DueOf(t.actor) : ~BySchedule(u, t)}
           new == InOrder(First, Schedule)
           Late == {i \in DOMAIN delayed : Past(delayed[i].at)}
           late == InOrder({i \in Late : delayed[i].topic \in DOMAIN mapping}, ByTime)
           rest == InOrder(DOMAIN delayed \ Late, ByTime)
           fired(id) == InOrder(DueOf(id), Schedule)
           go == [k \in DOMAIN new |-> new[k].actor]
<1>2. /\ pc = "receive"
      /\ delayed' = [k \in DOMAIN rest |-> delayed[rest[k]]]
      /\ inbox' = [k \in DOMAIN late |-> [sub |-> delayed[late[k]].topic,
                                          msg |-> User(delayed[late[k]].topic)]]
      /\ timeouts' = timeouts \ Due
      /\ actors' = [id \in DOMAIN actors |-> trigger_timeout(actors[id], fired(id))]
      /\ ready_queue' = ready_queue \o go
      /\ pc' = "process"
      /\ UNCHANGED <<now, mapping, next_id, exits>>
  BY Zenon DEF Fire, svars
<1>3. \A i \in DOMAIN delayed : delayed[i] \in Delayed
  <2>1. delayed \in Seq(Delayed)
    BY <1>1 DEF ETypes
  <2> QED
    BY <2>1, LenProperties, ElementOfSeq
<1>4. delayed' \in Seq(Delayed)
  <2> DEFINE D == DOMAIN delayed \ Late
  <2>1. D \in SUBSET DOMAIN delayed
    OBVIOUS
  <2> HIDE DEF D
  <2>2. Listed(D, ByTime)
    BY <2>1
  <2> DEFINE r == InOrder(D, ByTime)
             n == Cardinality(D)
  <2>3. r \in Seq(D) /\ DOMAIN r = 1 .. n /\ n \in Nat
    BY <2>2, ListedSeq, SMTT(30)
  <2>4. delayed' = [k \in DOMAIN r |-> delayed[r[k]]]
    BY <1>2, Zenon DEF D
  <2> HIDE DEF r, n
  <2>5. \A k \in 1 .. n : r[k] \in D
    BY <2>3, ElementOfSeq
  <2>6. delayed' \in [1 .. n -> Delayed]
    BY <1>3, <2>1, <2>3, <2>4, <2>5, SMTT(30)
  <2> QED
    BY <2>3, <2>6
<1>5. inbox' \in Seq(Incoming)
  <2> DEFINE D == {i \in Late : delayed[i].topic \in DOMAIN mapping}
  <2>1. D \in SUBSET DOMAIN delayed
    BY SMTT(30)
  <2> DEFINE r == InOrder(D, ByTime)
             n == Cardinality(D)
             x(i) == [sub |-> delayed[i].topic, msg |-> User(delayed[i].topic)]
  <2>2. inbox' = [k \in DOMAIN r |-> x(r[k])]
    BY <1>2, Zenon
  <2> HIDE DEF D
  <2>3. Listed(D, ByTime)
    BY <2>1
  <2>4. r \in Seq(D) /\ DOMAIN r = 1 .. n /\ n \in Nat
    BY <2>3, ListedSeq, SMTT(30)
  <2> HIDE DEF r, n
  <2>5. \A k \in 1 .. n : r[k] \in D
    BY <2>4, ElementOfSeq
  <2>6. \A i \in D : x(i) \in Incoming
    <3>1. \A i \in D : delayed[i].topic \in Topic
      BY <1>3, <2>1 DEF Delayed
    <3> QED
      BY <3>1 DEF Incoming, User, EMessage, Subscription
  <2> HIDE DEF x
  <2>7. inbox' \in [1 .. n -> Incoming]
    BY <2>2, <2>4, <2>5, <2>6, SMTT(30)
  <2> QED
    BY <2>4, <2>7, SMTT(30)
<1>6. Due \subseteq timeouts /\ timeouts \subseteq Timeout
  BY <1>1 DEF ETypes
<1>7. \A x, y \in timeouts : <<x, y>> \in Schedule <=> BySchedule(x, y)
  BY DEF Schedule
<1>8. First \in SUBSET timeouts /\ \A id : DueOf(id) \in SUBSET timeouts
  BY SMTT(30)
<1>9. /\ \A t \in First : t.actor \in Live /\ t.actor \notin Range(ready_queue)
      /\ \A t, u \in First : t.actor = u.actor => t = u
  <2>1. ASSUME NEW t \in First, NEW u \in First, t.actor = u.actor PROVE t = u
    <3>1. t \in DueOf(u.actor) /\ u \in DueOf(t.actor)
      BY <2>1, SMTT(30)
    <3>2. ~BySchedule(t, u) /\ ~BySchedule(u, t)
      BY <3>1
    <3>3. Orders(Schedule, timeouts) /\ t \in timeouts /\ u \in timeouts
      BY <1>1, ScheduleOrders
    <3> HIDE DEF First, DueOf, Due
    <3> QED
      BY <1>7, <3>2, <3>3, Zenon DEF Orders
  <2>2. \A t \in First : t.actor \in Live /\ t.actor \notin Range(ready_queue)
    BY DEF Live
  <2> QED
    BY <2>1, <2>2
<1>10. ASSUME NEW id \in Live, id \notin Range(ready_queue), DueOf(id) # {}
       PROVE  \E t \in First : t.actor = id
  <2>1. Listed(DueOf(id), Schedule)
    BY <1>8
  <2> DEFINE D == DueOf(id)
  <2>2. PICK t \in D : \A u \in D : <<u, t>> \notin Schedule
    <3> HIDE DEF D
    <3>1. Listed(D, Schedule) /\ D # {}
      BY <1>10, <2>1 DEF D
    <3> QED
      BY <3>1 DEF Listed
  <2>3. t \in Due /\ t.actor = id /\ \A u \in DueOf(id) : ~BySchedule(u, t)
    BY <1>7, <1>8, <2>2, ZenonT(30)
  <2>4. t.actor \in DOMAIN actors \ Range(ready_queue)
    BY <1>10, <2>3, SMTT(30) DEF Live
  <2> HIDE DEF Due
  <2> QED
    BY <2>3, <2>4, SMTT(30)
<1>11. \A t \in First : DueOf(t.actor) # {}
  OBVIOUS
<1>12. \A id : \A t \in timeouts : t.actor = id /\ DueOf(id) = {} => t \in timeouts'
  BY <1>2, ZenonT(30)
<1>13. timeouts' \subseteq timeouts
  BY <1>2, ZenonT(30)
<1>14. \A id \in Live : actors'[id] = trigger_timeout(actors[id], fired(id))
       /\ Live' = Live
  BY <1>2, ZenonT(30) DEF Live
<1> HIDE DEF Due, DueOf, First, Late, late, rest
<1>15. /\ ready_queue' \in Seq(Local) /\ IsInjective(ready_queue')
       /\ Range(ready_queue') = Range(ready_queue) \cup {t.actor : t \in First}
  <2> DEFINE n == Cardinality(First)
  <2>1. Listed(First, Schedule)
    BY <1>8
  <2>2. new \in Seq(First) /\ DOMAIN new = 1 .. n /\ n \in Nat /\ IsInjective(new)
        /\ Range(new) = First
    BY <2>1, ListedSeq
  <2> HIDE DEF new, n
  <2>3. \A k \in 1 .. n : new[k] \in First
    BY <2>2, ElementOfSeq
  <2>4. go \in [1 .. n -> Local]
    <3>1. \A t \in First : t.actor \in Local
      BY <1>6, <1>8, SMTT(30) DEF Timeout
    <3> QED
      BY <2>2, <2>3, <3>1, SMTT(30)
  <2>5. go \in Seq(Local) /\ DOMAIN go = 1 .. n /\ \A k \in 1 .. n : go[k] = new[k].actor
    BY <2>2, <2>4
  <2> HIDE DEF go
  <2>6. IsInjective(go)
    <3>1. ASSUME NEW i \in 1 .. n, NEW j \in 1 .. n, go[i] = go[j] PROVE i = j
      <4>1. new[i] = new[j]
        BY <1>9, <2>3, <2>5, <3>1, SMTT(30)
      <4> QED
        BY <2>2, <4>1 DEF IsInjective
    <3> QED
      BY <2>5, <3>1 DEF IsInjective
  <2>7. Range(go) = {t.actor : t \in First}
    <3>1. \A t \in First : \E k \in 1 .. n : new[k] = t
      BY <2>2 DEF Range
    <3>2. Range(go) = {go[k] : k \in 1 .. n}
      BY <2>5 DEF Range
    <3> QED
      BY <2>3, <2>5, <3>1, <3>2, SMTT(30)
  <2>8. Range(ready_queue) \cap Range(go) = {}
    BY <1>9, <2>7, SMTT(30)
  <2>9. ready_queue \in Seq(Local) /\ IsInjective(ready_queue)
    BY <1>1 DEF ETypes, Scheduled
  <2>10. /\ ready_queue \o go \in Seq(Local) /\ IsInjective(ready_queue \o go)
         /\ Range(ready_queue \o go) = Range(ready_queue) \cup Range(go)
    <3>1. go \in Seq(Local)
      BY <2>5, SMTT(30)
    <3> QED
      BY <2>6, <2>8, <2>9, <3>1, ConcatOnce, SMTT(30)
  <2> QED
    BY <1>2, <2>7, <2>10, Zenon
<1> HIDE DEF new, go
<1>16. ASSUME NEW id \in Live
       PROVE  /\ actors'[id] \in Actor /\ actors'[id].waiting = actors[id].waiting
              /\ actors'[id].waiting_for_code = actors[id].waiting_for_code
              /\ actors'[id].pattern = actors[id].pattern
              /\ actors'[id].subs = actors[id].subs
              /\ actors'[id].timeout = actors[id].timeout
              /\ DueOf(id) = {} => actors'[id].queue = actors[id].queue
              /\ DueOf(id) # {} => /\ actors'[id].queue # <<>>
                                   /\ Head(actors'[id].queue).type \in {"timeout", "wakeup"}
  <2> DEFINE D == DueOf(id)
             n == Cardinality(D)
             a == actors[id]
  <2>1. Listed(D, Schedule) /\ D \subseteq Timeout
    BY <1>6, <1>8, SMTT(30)
  <2> HIDE DEF D
  <2>2. InOrder(D, Schedule) \in [1 .. n -> D] /\ n \in Nat
    BY <2>1 DEF Listed
  <2> DEFINE f == InOrder(D, Schedule)
  <2>3. f \in [1 .. n -> Timeout] /\ a \in Actor
    <3>1. a \in Actor
      BY <1>1 DEF ETypes
    <3> HIDE DEF f, n
    <3> QED
      BY <2>1, <2>2, <3>1, SMTT(30) DEF f
  <2>4. (n = 0) <=> (D = {})
    BY <2>1, ListedNone, SMTT(30)
  <2>5. actors'[id] = trigger_timeout(a, f)
    BY <1>14, SMTT(30) DEF D
  <2> HIDE DEF f, n, a
  <2> DEFINE b == trigger_timeout(a, f)
  <2>6. /\ b \in Actor
        /\ b.waiting = a.waiting /\ b.waiting_for_code = a.waiting_for_code
        /\ b.pattern = a.pattern /\ b.subs = a.subs /\ b.timeout = a.timeout
        /\ n = 0 => b.queue = a.queue
        /\ n > 0 => b.queue # <<>> /\ Head(b.queue).type \in {"timeout", "wakeup"}
    BY <2>2, <2>3, TriggerResult, SMTT(30)
  <2> HIDE DEF b
  <2>7. n > 0 <=> D # {}
    BY <2>2, <2>4, SMTT(30)
  <2> QED
    BY <2>4, <2>5, <2>6, <2>7, SMTT(30) DEF D, a, b
<1> HIDE DEF fired
<1>17. Live' = Live /\ actors' \in [Live -> Actor]
  <2>1. DOMAIN actors' = Live /\ actors' = [id \in Live |-> actors'[id]]
    BY <1>2 DEF Live
  <2>2. actors' \in [Live -> Actor]
    BY <1>16, <2>1, SMTT(30)
  <2> QED
    BY <2>1, <2>2, SMTT(30) DEF Live
<1>18. ETypes'
  <2>1. Given' = Given
    BY <1>2 DEF Given
  <2>2. Range(ready_queue') \subseteq Given /\ Live' \subseteq Given
    BY <1>1, <1>9, <1>15, <1>17, SMTT(30) DEF ETypes
  <2>3. timeouts' \subseteq Timeout
    BY <1>6, <1>13, SMTT(30)
  <2>4. /\ now' \in Nat /\ next_id' \in 1 .. MaxActors + 1
        /\ DOMAIN mapping' \subseteq Subscription
        /\ mapping' \in [DOMAIN mapping' -> (SUBSET Local) \ {{}}]
        /\ pc' \in {"receive", "process", "ended", "undefined"}
        /\ exits' \in [Local -> Nat] /\ \A id \in Local \ Given : exits'[id] = 0
    BY <1>1, <1>2, SMTT(30) DEF ETypes
  <2> QED
    BY <1>4, <1>5, <1>13, <1>15, <1>17, <2>1, <2>2, <2>3, <2>4, SMTT(30) DEF ETypes
<1>19. ASSUME NEW id \in Live, DueOf(id) = {}
       PROVE  /\ Going(actors[id]) => Going(actors'[id])
              /\ Idle(actors[id]) => Idle(actors'[id])
              /\ Limited(actors'[id]) => Limited(actors[id])
  <2>1. /\ actors'[id].waiting = actors[id].waiting /\ actors'[id].pattern = actors[id].pattern
        /\ actors'[id].waiting_for_code = actors[id].waiting_for_code
        /\ actors'[id].queue = actors[id].queue /\ actors'[id].timeout = actors[id].timeout
    BY <1>16, <1>19, SMTT(30)
  <2>2. FirstMatch(actors'[id]) = FirstMatch(actors[id])
    BY <2>1 DEF FirstMatch
  <2> QED
    BY <2>1, <2>2, SMTT(30) DEF Going, Idle, Polls, Limited
<1>20. ASSUME NEW id \in Live, id \in Range(ready_queue')
       PROVE  Going(actors'[id])
  <2>1. CASE DueOf(id) # {}
    <3>1. /\ actors'[id].queue # <<>>
          /\ Head(actors'[id].queue).type \in {"timeout", "wakeup"}
      BY <1>16, <2>1, SMTT(30)
    <3> QED
      BY <3>1 DEF Going
  <2>2. CASE DueOf(id) = {}
    <3>1. id \in Range(ready_queue)
      BY <1>11, <1>15, <1>20, <2>2, SMTT(30)
    <3> QED
      BY <1>1, <1>19, <2>2, <3>1, SMTT(30) DEF Scheduled
  <2> QED
    BY <2>1, <2>2, SMTT(30)
<1>21. ASSUME NEW id \in Live, id \notin Range(ready_queue')
       PROVE  Idle(actors'[id]) /\ (Limited(actors'[id]) => Timed(id)')
  <2>1. id \notin Range(ready_queue) /\ DueOf(id) = {}
    BY <1>10, <1>15, <1>21, SMTT(30)
  <2>2. Idle(actors[id]) /\ (Limited(actors[id]) => Timed(id))
    BY <1>1, <2>1 DEF Scheduled
  <2>3. Timed(id) => Timed(id)'
    BY <1>12, <2>1, SMTT(30) DEF Timed
  <2> QED
    BY <1>16, <1>19, <2>1, <2>2, <2>3, SMTT(30)
<1>22. Scheduled'
  BY <1>15, <1>17, <1>20, <1>21, SMTT(30) DEF Scheduled
<1>23. MappingExact' /\ ExitsReported'
  <2>1. \A id \in Live : actors'[id].subs = actors[id].subs
    BY <1>16
  <2> QED
    BY <1>1, <1>2, <1>17, <2>1, ZenonT(30) DEF MappingExact, ExitsReported
<1> QED
  BY <1>18, <1>22, <1>23 DEF EInv

(***************************************************************************)
(* The invariant.                                                          *)
(***************************************************************************)
\* No actor yet, and spawn messages on their way.
LEMMA ExecutorStarts ==
    ASSUME NEW store, NEW n \in Nat, NEW in, NEW call, RInit(store, n, in, call)
    PROVE  EInv /\ IsFiniteSet(timeouts)
<1>1. /\ inbox = [i \in 1 .. n |-> [sub |-> SPAWN, msg |-> Msg("spawn")]]
      /\ DOMAIN actors = {} /\ DOMAIN mapping = {}
      /\ ready_queue = <<>> /\ timeouts = {} /\ delayed = <<>> /\ pc = "receive"
      /\ next_id = 1 /\ exits = [i \in Local |-> 0] /\ now = 0
  BY DEF RInit, StoreInit, EmptyStore
<1>2. actors \in [{} -> Actor] /\ mapping \in [{} -> (SUBSET Local) \ {{}}]
  <2>1. actors = EmptyStore /\ mapping = EmptyStore
    BY DEF RInit
  <2> QED
    BY <2>1 DEF EmptyStore
<1>3. inbox \in Seq(Incoming)
  <2>1. [sub |-> SPAWN, msg |-> Msg("spawn")] \in Incoming
    BY DEF Incoming, Msg, EMessage
  <2>2. inbox \in [1 .. n -> Incoming]
    BY <1>1, <2>1
  <2> QED
    BY <2>2, SMTT(30)
<1>4. Range(<<>>) = {} /\ IsInjective(<<>>)
  BY DEF Range, IsInjective
<1>5. ETypes
  <2>1. ready_queue \in Seq(Local) /\ delayed \in Seq(Delayed) /\ timeouts \subseteq Timeout
    BY <1>1
  <2>2. Live = {} /\ Range(ready_queue) = {}
    BY <1>1, <1>4 DEF Live
  <2>3. now \in Nat /\ next_id \in 1 .. MaxActors + 1 /\ exits \in [Local -> Nat]
        /\ \A id \in Local \ Given : exits[id] = 0
    BY <1>1, Bounds, SMTT(30)
  <2> QED
    BY <1>1, <1>2, <1>3, <2>1, <2>2, <2>3, SMTT(30) DEF ETypes
<1>6. Scheduled /\ MappingExact
  BY <1>1, <1>4 DEF Scheduled, MappingExact, Live
<1>7. ExitsReported
  BY <1>1 DEF ExitsReported
<1>8. IsFiniteSet(timeouts)
  BY <1>1, FS_EmptySet
<1> QED
  BY <1>5, <1>6, <1>7, <1>8, SMTT(30) DEF EInv

\* Every step keeps the invariant.
LEMMA ExecutorStep ==
    ASSUME EInv, IsFiniteSet(timeouts), [RNext]_rvars
    PROVE  EInv'
<1>1. CASE Loop
  <2>1. /\ \A S \in SUBSET Local : Listed(S, Ascending)
        /\ \A S \in SUBSET timeouts : Listed(S, Schedule)
        /\ \A S \in SUBSET DOMAIN delayed : Listed(S, ByTime)
    BY AscendingListed, ScheduleListed, TimeListed DEF EInv
  <2>2. CASE AddActor \/ LoopReturns \/ ReadsNothing \/ Skip
    BY <2>2, AddActorKeeps, LoopEndKeeps, SkipKeeps, SMTT(30)
  <2>3. CASE Dispatch
    BY <2>1, <2>3, DispatchKeeps, SMTT(30)
  <2>4. CASE Fire
    BY <2>1, <2>4, FireKeeps
  <2> QED
    BY <1>1, <2>2, <2>3, <2>4, SMTT(30) DEF Loop
<1>2. CASE Step
  <2>1. (\E id \in Live : Stays(id) \/ Leaves(id)) /\ UNCHANGED now
    BY <1>2, StepShape DEF EInv
  <2> QED
    BY <2>1, StaysKeeps, LeavesKeeps
<1>3. CASE Others
  BY <1>3, OthersKeep
<1>4. CASE UNCHANGED rvars
  <2>1. UNCHANGED evars /\ UNCHANGED now
    BY <1>4 DEF rvars, svars
  <2>2. ETypes'
    BY <2>1, SMTT(30) DEF EInv, ETypes, Live, Given, evars
  <2>3. Scheduled' /\ MappingExact' /\ ExitsReported'
    BY <2>1 DEF EInv, Scheduled, MappingExact, ExitsReported, Live, Timed, evars
  <2> QED
    BY <2>2, <2>3 DEF EInv
<1> QED
  BY <1>1, <1>2, <1>3, <1>4, SMTT(30) DEF RNext

\* What the invariant says of the scheduling.
LEMMA InvariantSchedules ==
    ASSUME EInv
    PROVE  SchedulingSound /\ BlockedGetsItsMessage
<1>1. ETypes /\ Scheduled
  BY DEF EInv
<1>2. RTypeOK
  <2>1. Live \subseteq Local /\ Range(ready_queue) \subseteq Local
    BY <1>1, Bounds DEF ETypes, Given, Local
  <2>2. \A s \in DOMAIN mapping : s \in Topic \cup Local /\ mapping[s] # {}
    BY <1>1 DEF ETypes, Subscription
  <2>3. \A t \in timeouts : t.actor \in Local
    BY <1>1 DEF ETypes, Timeout
  <2> QED
    BY <1>1, <2>1, <2>2, <2>3 DEF RTypeOK, ETypes, Scheduled
<1>3. ReadyHasMessage /\ BlockedGetsItsMessage
  BY <1>1 DEF Scheduled, Going, ReadyHasMessage, BlockedGetsItsMessage
<1>4. NobodyForgotten
  BY <1>1, SMTT(30) DEF Scheduled, Idle, NobodyForgotten
<1>5. WaitingIsTimed
  BY <1>1 DEF Scheduled, Timed, Limited, WaitingIsTimed
<1> QED
  BY <1>2, <1>3, <1>4, <1>5 DEF SchedulingSound

\* The invariant holds at every step of the loop.
THEOREM ExecutorInvariant == RSpec => [](EInv /\ IsFiniteSet(timeouts))
<1>1. ASSUME NEW C \in SUBSET Code, NEW n \in 0 .. MaxActors,
             NEW in \in 0 .. MaxInputs, NEW call \in 0 .. MaxCalls,
             RInit([c \in C |-> [end |-> INFINITE, available |-> TRUE]], n, in, call)
      PROVE  EInv /\ IsFiniteSet(timeouts)
  <2>1. n \in Nat
    BY Bounds
  <2> QED
    BY <1>1, <2>1, ExecutorStarts
<1>2. EInv /\ IsFiniteSet(timeouts) /\ [RNext]_rvars => (EInv /\ IsFiniteSet(timeouts))'
  BY ExecutorStep, TimeoutsStayFinite
<1>3. (\E C \in SUBSET Code, n \in 0 .. MaxActors, in \in 0 .. MaxInputs, call \in 0 .. MaxCalls :
          RInit([c \in C |-> [end |-> INFINITE, available |-> TRUE]], n, in, call))
          => EInv /\ IsFiniteSet(timeouts)
  BY <1>1
<1> QED
  BY <1>2, <1>3, PTL DEF RSpec

\* Whom the executor runs next has something to do, and whom it does not run has nothing
\* to do, or waits and has a timeout unless it waits without a limit: the loop forgets
\* nobody, and takes the front of an empty queue only for an actor that blocked with a
\* limit of zero, whatever the actors do and whatever the other threads send.
THEOREM NobodyIsForgotten == RSpec => []SchedulingSound
<1>1. EInv => SchedulingSound
  BY InvariantSchedules
<1> QED
  BY <1>1, ExecutorInvariant, PTL

\* An actor in block_for gets what it waits for, a timeout or wakeup, or its exit; another
\* message only if it is its first, or its limit was zero, and nothing that it waits for
\* is there.
THEOREM BlocksAreSelective == RSpec => []BlockedGetsItsMessage
<1>1. EInv => BlockedGetsItsMessage
  BY InvariantSchedules
<1> QED
  BY <1>1, ExecutorInvariant, PTL

\* add_subscription, remove_subscription and the end of an actor keep the executor's
\* mapping equal to what its actors have subscribed to.
THEOREM MappingFollowsActors == RSpec => []MappingExact
<1>1. EInv => MappingExact
  BY DEF EInv
<1> QED
  BY <1>1, ExecutorInvariant, PTL

\* An actor that ends publishes actor_exit, and one that runs has not.
THEOREM ExitsAreReported == RSpec => []ExitsReported
<1>1. EInv => ExitsReported
  BY DEF EInv
<1> QED
  BY <1>1, ExecutorInvariant, PTL
=============================================================================
