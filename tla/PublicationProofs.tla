-------------------------- MODULE PublicationProofs --------------------------
(***************************************************************************)
(* Proofs about publications, in a node and between nodes.  Forwarding:    *)
(* the types, that nodes accept each publication once and in order, and    *)
(* that no publication is sent to a node it comes from, for any network,   *)
(* any number of threads and any lost connections and restarts.  Copying:  *)
(* copies that share a map are marked, and as long as Lua actors do not    *)
(* write to publications with copies, every publication behaves as a       *)
(* variable with a map of its own.                                         *)
(***************************************************************************)
EXTENDS Publication, SequenceForwarding, FiniteSetTheorems, SequenceTheorems, TLAPS

(***************************************************************************)
(* Forwarding between nodes.                                               *)
(***************************************************************************)
\* The rest of the types: the tables of sequence numbers and the history.
Infos == [epoch : Nat, seq : Nat]
TablesOK ==
    /\ queue \in [FNode -> Seq(Pub)] /\ wire \in [Link -> Seq(Pub)]
    /\ incomming = [n \in FNode |-> incomming[n]]
    /\ \A n \in FNode : \A f \in DOMAIN incomming[n] : incomming[n][f] \in Infos
    /\ accepted \in [FNode -> Seq(FNode \X Nat \X Nat)]

\* What was accepted from a publisher is recorded, and no later than the record.
Recorded(a, infos) ==
    /\ a[1] \in DOMAIN infos
    /\ a[2] < infos[a[1]].epoch \/ (a[2] = infos[a[1]].epoch /\ a[3] <= infos[a[1]].seq)

HistoryRecorded ==
    \A n \in FNode : \A i \in DOMAIN accepted[n] : Recorded(accepted[n][i], incomming[n])

\* A publication that is not at its publisher names it among the forwarders.
Origin(n, p) == p.from = n \/ p.from \in p.via

\* The inductive invariants of the types and of what is accepted.
TypeInv == FTypeOK /\ TablesOK
AcceptInv == AcceptedOnceInOrder /\ HistoryRecorded

\* What Head and Tail leave of a sequence.
LEMMA HeadTail ==
    ASSUME NEW S, NEW s \in Seq(S), s # <<>>
    PROVE  /\ Head(s) = s[1] /\ Head(s) \in S /\ 1 \in DOMAIN s /\ Tail(s) \in Seq(S)
           /\ \A i \in DOMAIN Tail(s) : i + 1 \in DOMAIN s /\ Tail(s)[i] = s[i + 1]
  OBVIOUS

\* A publication appended k times.
LEMMA AppendCopies ==
    ASSUME NEW S, NEW s \in Seq(S), NEW x \in S, NEW k \in Nat
    PROVE  /\ s \o [i \in 1 .. k |-> x] \in Seq(S)
           /\ \A i \in DOMAIN (s \o [j \in 1 .. k |-> x]) :
                 \/ i \in DOMAIN s /\ (s \o [j \in 1 .. k |-> x])[i] = s[i]
                 \/ (s \o [j \in 1 .. k |-> x])[i] = x
<1> DEFINE t == [i \in 1 .. k |-> x]
<1>1. t \in Seq(S) /\ Len(t) = k /\ \A i \in 1 .. k : t[i] = x
  OBVIOUS
<1> HIDE DEF t
<1>2. /\ s \o t \in Seq(S) /\ Len(s \o t) = Len(s) + k
      /\ \A i \in 1 .. Len(s \o t) : (s \o t)[i] = IF i <= Len(s) THEN s[i] ELSE t[i - Len(s)]
  BY <1>1, ConcatProperties
<1>3. \A i \in DOMAIN (s \o t) : (i \in DOMAIN s /\ (s \o t)[i] = s[i]) \/ (s \o t)[i] = x
  BY <1>1, <1>2
<1> QED
  BY <1>2, <1>3 DEF t

\* The types hold initially.
LEMMA TypeInit == FInit => TypeInv
  BY ForwardingAssumption DEF FInit, TypeInv, FTypeOK, TablesOK, NoInfos

\* Connections that are made again start empty.
LEMMA ResetTypes ==
    ASSUME TypeInv, NEW L, Reset(L)
    PROVE  wire' \in [Link -> Seq(Pub)]
  BY DEF TypeInv, TablesOK, Reset

\* What is received is a publication, and its record one of epoch and number.
LEMMA ReceiveTypes ==
    ASSUME TypeInv, NEW l \in Link, Receive(l)
    PROVE  /\ queue' \in [FNode -> Seq(Pub)] /\ wire' \in [Link -> Seq(Pub)]
           /\ incomming' = [n \in FNode |-> incomming'[n]]
           /\ \A n \in FNode : \A f \in DOMAIN incomming'[n] : incomming'[n][f] \in Infos
           /\ accepted' \in [FNode -> Seq(FNode \X Nat \X Nat)]
<1> USE DEF TypeInv, TablesOK
<1> DEFINE p == Head(wire[l])
           n == l[2]
<1>1. l[1] \in FNode /\ n \in FNode
  BY ForwardingAssumption
<1>2. wire[l] \in Seq(Pub) /\ wire[l] # <<>> /\ wire' = [wire EXCEPT ![l] = Tail(@)]
  BY DEF Receive
<1>3. p \in Pub /\ Tail(wire[l]) \in Seq(Pub)
  BY <1>2, HeadTail
<1>4. wire' \in [Link -> Seq(Pub)]
  BY <1>2, <1>3
<1> HIDE DEF p, n
<1>5. CASE /\ incomming' = [incomming EXCEPT ![n] = Record(@, p)]
           /\ accepted' = [accepted EXCEPT ![n] = Append(@, Id(p))]
           /\ \E k \in 1 .. MaxCopies :
                 queue' = [queue EXCEPT ![n] =
                     @ \o [i \in 1 .. k |-> add_incomming_routing_fields(p, l[1])]]
  <2>1. add_incomming_routing_fields(p, l[1]) \in Pub
    BY <1>1, <1>3, Zenon DEF add_incomming_routing_fields, Pub
  <2>2. PICK k \in 1 .. MaxCopies : queue' = [queue EXCEPT ![n] =
            @ \o [i \in 1 .. k |-> add_incomming_routing_fields(p, l[1])]]
    BY <1>5, Zenon
  <2>3. k \in Nat
    BY ForwardingAssumption
  <2>4. queue' \in [FNode -> Seq(Pub)]
    <3> DEFINE a == add_incomming_routing_fields(p, l[1])
               s == queue[n] \o [i \in 1 .. k |-> a]
    <3>1. queue[n] \in Seq(Pub)
      BY <1>1
    <3>2. s \in Seq(Pub)
      BY <2>1, <2>3, <3>1, AppendCopies, ZenonT(30)
    <3>3. queue' = [queue EXCEPT ![n] = s]
      BY <2>2
    <3> HIDE DEF s
    <3> QED
      BY <1>1, <3>2, <3>3
  <2>5. Id(p) \in FNode \X Nat \X Nat /\ Info(p) \in Infos
    <3>1. p.from \in FNode /\ p.epoch \in 1 .. MaxEpoch /\ p.seq \in 1 .. MaxSeq
      BY <1>3 DEF Pub
    <3>2. 1 .. MaxEpoch \subseteq Nat /\ 1 .. MaxSeq \subseteq Nat
      OBVIOUS
    <3>3. p.epoch \in Nat /\ p.seq \in Nat
      BY <3>1, <3>2
    <3> QED
      BY <3>1, <3>3 DEF Id, Info, Infos
  <2>6. accepted' \in [FNode -> Seq(FNode \X Nat \X Nat)]
    BY <1>1, <1>5, <2>5
  <2>7. \A m \in FNode : \A f \in DOMAIN incomming'[m] : incomming'[m][f] \in Infos
    BY <1>1, <1>5, <2>5, Zenon DEF Record
  <2>8. incomming' = [m \in FNode |-> incomming'[m]]
    BY <1>5, Zenon
  <2> QED
    BY <1>4, <2>4, <2>6, <2>7, <2>8
<1>6. CASE UNCHANGED <<incomming, accepted, queue>>
  BY <1>4, <1>6
<1> QED
  BY <1>5, <1>6, Zenon DEF Receive, p, n

\* Every step keeps the types.
LEMMA TypeStep ==
    ASSUME TypeInv, [FNext]_fvars
    PROVE  TypeInv'
<1> USE DEF TypeInv
<1>1. ASSUME NEW n \in FNode, Number(n) PROVE TypeInv'
  <2>1. PICK k \in 1 .. MaxCopies :
          publishing' = [publishing EXCEPT ![n] = @ \cup
              {[pub |-> [from |-> n, epoch |-> epoch[n],
                         seq |-> sequence_number[n], via |-> {}], copies |-> k]}]
    BY <1>1, Zenon DEF Number
  <2>2. [from |-> n, epoch |-> epoch[n], seq |-> sequence_number[n], via |-> {}] \in Pub
    BY <1>1, ForwardingAssumption DEF Number, Pub, FTypeOK
  <2>3. publishing' \in [FNode -> SUBSET [pub : Pub, copies : 1 .. MaxCopies]]
    <3> DEFINE q == [from |-> n, epoch |-> epoch[n], seq |-> sequence_number[n], via |-> {}]
               T == [pub : Pub, copies : 1 .. MaxCopies]
               X == {[pub |-> q, copies |-> k]}
    <3>1. publishing \in [FNode -> SUBSET T]
      BY DEF FTypeOK
    <3>2. X \subseteq T
      <4> HIDE DEF q
      <4> QED
        BY <2>2 DEF q
    <3>3. publishing' = [publishing EXCEPT ![n] = @ \cup X]
      BY <2>1
    <3> HIDE DEF T, X
    <3>4. publishing' \in [FNode -> SUBSET T]
      BY <3>1, <3>2, <3>3
    <3> QED
      BY <3>4 DEF T
  <2>4. sequence_number' \in [FNode -> 1 .. MaxSeq + 1]
    BY <1>1, ForwardingAssumption, SMTT(30) DEF Number, FTypeOK
  <2> QED
    BY <1>1, <2>3, <2>4, Zenon DEF Number, FTypeOK, TablesOK
<1>2. ASSUME NEW n \in FNode, Enqueue(n) PROVE TypeInv'
  <2>1. PICK t \in publishing[n] :
          /\ queue' = [queue EXCEPT ![n] = Append(@, t.pub)]
          /\ publishing' = [publishing EXCEPT ![n] = (@ \ {t}) \cup RestOf(t)]
          /\ UNCHANGED <<sequence_number, epoch, outgoing, incomming, wire, accepted,
                         sent, lost, drops>>
    BY <1>2, Zenon DEF Enqueue
  <2>2. t \in [pub : Pub, copies : 1 .. MaxCopies]
    BY DEF FTypeOK
  <2>3. RestOf(t) \subseteq [pub : Pub, copies : 1 .. MaxCopies]
    BY <2>2, ForwardingAssumption DEF RestOf
  <2>4. publishing' \in [FNode -> SUBSET [pub : Pub, copies : 1 .. MaxCopies]]
    BY <2>1, <2>3 DEF FTypeOK
  <2>5. queue' \in [FNode -> Seq(Pub)]
    BY <2>1, <2>2 DEF TablesOK
  <2> QED
    BY <2>1, <2>4, <2>5 DEF FTypeOK, TablesOK
<1>3. ASSUME NEW n \in FNode, Forward(n) PROVE TypeInv'
  <2>1. queue[n] \in Seq(Pub) /\ queue[n] # <<>>
    BY <1>3 DEF Forward, TablesOK
  <2>2. Head(queue[n]) \in Pub /\ Tail(queue[n]) \in Seq(Pub)
    BY <2>1, HeadTail
  <2>3. queue' \in [FNode -> Seq(Pub)]
    BY <1>3, <2>2 DEF Forward, TablesOK
  <2>4. wire' \in [Link -> Seq(Pub)]
    BY <1>3, <2>2, SMTT(30) DEF Forward, TablesOK
  <2> QED
    BY <1>3, <2>3, <2>4 DEF Forward, FTypeOK, TablesOK
<1>4. ASSUME NEW l \in Link, Receive(l) PROVE TypeInv'
  BY <1>4, ReceiveTypes, Zenon DEF Receive, FTypeOK, TablesOK
<1>5. ASSUME NEW l \in Link, Reconnect(l) PROVE TypeInv'
  <2>1. wire' \in [Link -> Seq(Pub)]
    BY <1>5, ResetTypes DEF Reconnect
  <2>2. drops' \in 0 .. MaxDrops
    BY <1>5, ForwardingAssumption, SMTT(30) DEF Reconnect, FTypeOK
  <2> QED
    BY <1>5, <2>1, <2>2 DEF Reconnect, FTypeOK, TablesOK
<1>6. ASSUME NEW n \in FNode, Restart(n) PROVE TypeInv'
  <2>1. wire' \in [Link -> Seq(Pub)]
    BY <1>6, ResetTypes DEF Restart
  <2>2. FTypeOK'
    BY <1>6, <2>1, ForwardingAssumption, SMTT(30) DEF Restart, FTypeOK, TablesOK
  <2>3. queue' \in [FNode -> Seq(Pub)] /\ accepted' \in [FNode -> Seq(FNode \X Nat \X Nat)]
    BY <1>6 DEF Restart, TablesOK
  <2>4. incomming' = [m \in FNode |-> IF m = n THEN NoInfos ELSE incomming[m]]
    BY <1>6, Zenon DEF Restart, TablesOK
  <2>5. /\ incomming' = [m \in FNode |-> incomming'[m]]
        /\ \A m \in FNode : \A f \in DOMAIN incomming'[m] : incomming'[m][f] \in Infos
    BY <2>4 DEF TablesOK, NoInfos
  <2> QED
    BY <2>1, <2>2, <2>3, <2>5 DEF TablesOK
<1>7. CASE UNCHANGED fvars
  BY <1>7 DEF fvars, FTypeOK, TablesOK
<1> QED
  BY <1>1, <1>2, <1>3, <1>4, <1>5, <1>6, <1>7 DEF FNext

\* What is newer than the record of its publisher is newer than all of the history.
LEMMA NewerThanHistory ==
    ASSUME NEW infos, \A f \in DOMAIN infos : infos[f] \in Infos,
           NEW a \in FNode \X Nat \X Nat, Recorded(a, infos),
           NEW p \in Pub, Newer(infos, p)
    PROVE  /\ a[1] = p.from => p.epoch > a[2] \/ (p.epoch = a[2] /\ p.seq > a[3])
           /\ Recorded(a, Record(infos, p))
<1>1. p.epoch \in Nat /\ p.seq \in Nat /\ a[2] \in Nat /\ a[3] \in Nat
  BY ForwardingAssumption DEF Pub
<1>2. infos[a[1]].epoch \in Nat /\ infos[a[1]].seq \in Nat
  BY DEF Recorded, Infos
<1>3. a[1] = p.from => p.epoch > a[2] \/ (p.epoch = a[2] /\ p.seq > a[3])
  BY <1>1, <1>2 DEF Recorded, Newer, is_older_than
<1> QED
  BY <1>1, <1>3 DEF Recorded, Record, Info

\* A publication that is accepted goes to the end of the history, in order.
LEMMA AcceptReceive ==
    ASSUME TypeInv, AcceptInv, NEW l \in Link, Receive(l)
    PROVE  AcceptInv'
<1> DEFINE p == Head(wire[l])
           n == l[2]
<1>1. n \in FNode /\ p \in Pub
  <2>1. wire[l] \in Seq(Pub) /\ wire[l] # <<>>
    BY SMTT(30) DEF Receive, TypeInv, TablesOK
  <2> QED
    BY <2>1, HeadTail, ForwardingAssumption
<1>2. CASE UNCHANGED <<incomming, accepted>>
  BY <1>2 DEF AcceptInv, AcceptedOnceInOrder, HistoryRecorded, Recorded
<1>3. CASE /\ Newer(incomming[n], p)
           /\ incomming' = [incomming EXCEPT ![n] = Record(@, p)]
           /\ accepted' = [accepted EXCEPT ![n] = Append(@, Id(p))]
  <2> DEFINE s == accepted[n]
             infos == incomming[n]
  <2> HIDE DEF p, n
  <2>1. /\ s \in Seq(FNode \X Nat \X Nat)
        /\ \A f \in DOMAIN infos : infos[f] \in Infos
        /\ \A i \in DOMAIN s : Recorded(s[i], infos)
    BY <1>1 DEF TypeInv, TablesOK, AcceptInv, HistoryRecorded
  <2>2. /\ \A m \in FNode \ {n} : incomming'[m] = incomming[m] /\ accepted'[m] = accepted[m]
        /\ incomming'[n] = Record(infos, p) /\ accepted'[n] = Append(s, Id(p))
    BY <1>1, <1>3 DEF TypeInv, TablesOK
  <2>3. /\ DOMAIN Append(s, Id(p)) = 1 .. Len(s) + 1 /\ DOMAIN s = 1 .. Len(s) /\ Len(s) \in Nat
        /\ \A i \in 1 .. Len(s) : Append(s, Id(p))[i] = s[i] /\ s[i] \in FNode \X Nat \X Nat
        /\ Append(s, Id(p))[Len(s) + 1] = Id(p)
    BY <2>1, SMTT(30)
  <2>4. \A i \in 1 .. Len(s) :
          /\ s[i][1] = p.from => p.epoch > s[i][2] \/ (p.epoch = s[i][2] /\ p.seq > s[i][3])
          /\ Recorded(s[i], Record(infos, p))
    BY <1>1, <1>3, <2>1, <2>3, NewerThanHistory, Zenon
  <2>5. Recorded(Id(p), Record(infos, p))
    BY <1>1, ForwardingAssumption DEF Recorded, Record, Id, Info, Pub
  <2>6. HistoryRecorded'
    <3> SUFFICES ASSUME NEW m \in FNode, NEW i \in DOMAIN accepted'[m]
                 PROVE  Recorded(accepted'[m][i], incomming'[m])
      BY DEF HistoryRecorded, Recorded
    <3>1. CASE m = n
      <4>1. /\ accepted'[m] = Append(s, Id(p)) /\ incomming'[m] = Record(infos, p)
            /\ i \in 1 .. Len(s) + 1
        BY <2>2, <2>3, <3>1
      <4>2. CASE i <= Len(s)
        <5>1. i \in 1 .. Len(s) /\ accepted'[m][i] = s[i]
          BY <2>3, <4>1, <4>2
        <5> QED
          BY <2>4, <4>1, <5>1
      <4>3. CASE i > Len(s)
        <5>1. accepted'[m][i] = Id(p)
          BY <2>3, <4>1, <4>3
        <5> QED
          BY <2>5, <4>1, <5>1
      <4> QED
        BY <2>3, <4>1, <4>2, <4>3
    <3>2. CASE m # n
      BY <2>2, <3>2, SMTT(30) DEF AcceptInv, HistoryRecorded
    <3> QED
      BY <3>1, <3>2, SMTT(30)
  <2>7. AcceptedOnceInOrder'
    <3> DEFINE Ordered(a, b) == a[1] = b[1] => b[2] > a[2] \/ (b[2] = a[2] /\ b[3] > a[3])
    <3> SUFFICES ASSUME NEW m \in FNode, NEW i \in DOMAIN accepted'[m],
                        NEW j \in DOMAIN accepted'[m], i < j
                 PROVE  Ordered(accepted'[m][i], accepted'[m][j])
      BY DEF AcceptedOnceInOrder
    <3>1. \A k \in FNode : \A a, b \in DOMAIN accepted[k] :
            a < b => Ordered(accepted[k][a], accepted[k][b])
      BY DEF AcceptInv, AcceptedOnceInOrder
    <3>2. CASE m # n
      BY <2>2, <3>1, <3>2
    <3>3. CASE m = n /\ j <= Len(s)
      <4>1. i \in 1 .. Len(s) /\ j \in 1 .. Len(s)
        BY <2>2, <2>3, <3>3
      <4>2. accepted'[m][i] = s[i] /\ accepted'[m][j] = s[j]
        BY <2>2, <2>3, <3>3, <4>1, SMTT(30)
      <4>3. Ordered(s[i], s[j])
        BY <1>1, <2>3, <3>1, <4>1, Zenon
      <4> QED
        BY <4>2, <4>3
    <3>4. CASE m = n /\ j > Len(s)
      <4>1. i \in 1 .. Len(s) /\ j = Len(s) + 1
        BY <2>2, <2>3, <3>4
      <4>2. accepted'[m][i] = s[i] /\ accepted'[m][j] = Id(p)
        BY <2>2, <2>3, <3>4, <4>1
      <4>3. Ordered(s[i], Id(p))
        BY <2>4, <4>1 DEF Id
      <4> QED
        BY <4>2, <4>3
    <3> QED
      BY <2>2, <2>3, <3>2, <3>3, <3>4
  <2> QED
    BY <2>6, <2>7 DEF AcceptInv
<1> QED
  BY <1>2, <1>3 DEF Receive

\* The other steps accept nothing; who restarts has accepted nothing yet.
LEMMA AcceptStep ==
    ASSUME TypeInv, AcceptInv, [FNext]_fvars
    PROVE  AcceptInv'
<1>1. ASSUME UNCHANGED <<incomming, accepted>> PROVE AcceptInv'
  BY <1>1 DEF AcceptInv, AcceptedOnceInOrder, HistoryRecorded, Recorded
<1>2. ASSUME NEW n \in FNode, Number(n) \/ Enqueue(n) \/ Forward(n) PROVE AcceptInv'
  BY <1>1, <1>2 DEF Number, Enqueue, Forward
<1>3. ASSUME NEW n \in FNode, Restart(n) PROVE AcceptInv'
  <2>1. /\ accepted' = [accepted EXCEPT ![n] = <<>>]
        /\ incomming' = [incomming EXCEPT ![n] = NoInfos]
    BY <1>3 DEF Restart
  <2>2. /\ accepted'[n] = <<>> /\ DOMAIN accepted'[n] = {}
        /\ \A m \in FNode \ {n} : accepted'[m] = accepted[m] /\ incomming'[m] = incomming[m]
    BY <2>1, SMTT(30) DEF TypeInv, TablesOK
  <2>3. HistoryRecorded'
    BY <2>2 DEF AcceptInv, HistoryRecorded, Recorded
  <2>4. AcceptedOnceInOrder'
    BY <2>2 DEF AcceptInv, AcceptedOnceInOrder
  <2> QED
    BY <2>3, <2>4 DEF AcceptInv
<1>4. ASSUME NEW l \in Link, Reconnect(l) PROVE AcceptInv'
  BY <1>1, <1>4 DEF Reconnect
<1> QED
  BY <1>1, <1>2, <1>3, <1>4, AcceptReceive, SMTT(30) DEF FNext, fvars

\* What is on a connection, by position: it knows its publisher and is not returned.
OnWire(l, s) ==
    \A i \in DOMAIN s : Origin(l[1], s[i]) /\ l[2] \notin s[i].via \cup {s[i].from}

\* The inductive invariant about origins.
OriginInv ==
    /\ \A n \in FNode : \A t \in publishing[n] : Origin(n, t.pub)
    /\ \A n \in FNode : \A i \in DOMAIN queue[n] : Origin(n, queue[n][i])
    /\ \A l \in Link : OnWire(l, wire[l])

\* What the forwarder sends knows its publisher, so that the list of forwarders and the
\* connection's own end exclude the publisher.
LEMMA OriginForward ==
    ASSUME TypeInv, OriginInv, NEW n \in FNode, Forward(n)
    PROVE  OriginInv'
<1> DEFINE p == Head(queue[n])
<1>1. queue[n] \in Seq(Pub) /\ queue[n] # <<>>
  BY DEF Forward, TypeInv, TablesOK
<1>2. /\ p \in Pub /\ Origin(n, p)
      /\ \A i \in DOMAIN Tail(queue[n]) : Origin(n, Tail(queue[n])[i])
  BY <1>1, HeadTail DEF OriginInv
<1>3. \A m \in FNode : \A i \in DOMAIN queue'[m] : Origin(m, queue'[m][i])
  <2>1. queue' = [m \in FNode |-> IF m = n THEN Tail(queue[n]) ELSE queue[m]]
    BY Zenon DEF Forward, TypeInv, TablesOK
  <2> QED
    BY <1>2, <2>1 DEF OriginInv
<1>4. ASSUME NEW l \in Link PROVE OnWire(l, wire'[l])
  <2>1. wire[l] \in Seq(Pub) /\ OnWire(l, wire[l])
    BY DEF TypeInv, TablesOK, OriginInv
  <2>2. CASE l[1] = n /\ should_forward(l, p)
    <3>1. wire'[l] = Append(wire[l], p)
      BY <2>2, SMTT(30) DEF Forward
    <3>2. l[2] \notin p.via \cup {p.from} /\ Origin(l[1], p)
      BY <1>2, <2>2, ForwardingAssumption DEF should_forward, Origin
    <3> HIDE DEF p
    <3>3. /\ DOMAIN wire'[l] = 1 .. Len(wire[l]) + 1 /\ DOMAIN wire[l] = 1 .. Len(wire[l])
          /\ \A i \in 1 .. Len(wire[l]) : wire'[l][i] = wire[l][i]
          /\ wire'[l][Len(wire[l]) + 1] = p /\ Len(wire[l]) \in Nat
      BY <1>2, <2>1, <3>1
    <3> QED
      BY <2>1, <3>2, <3>3, SMTT(30) DEF OnWire
  <2>3. CASE ~(l[1] = n /\ should_forward(l, p))
    <3>1. wire'[l] = wire[l]
      BY <2>3 DEF Forward
    <3> QED
      BY <2>1, <3>1, SMTT(30)
  <2> QED
    BY <2>2, <2>3
<1>5. publishing' = publishing
  BY DEF Forward
<1> QED
  BY <1>3, <1>4, <1>5 DEF OriginInv, OnWire, Origin

\* What is received has its publisher's name, or gets it now.
LEMMA OriginReceive ==
    ASSUME TypeInv, OriginInv, NEW l \in Link, Receive(l)
    PROVE  OriginInv'
<1> DEFINE p == Head(wire[l])
           n == l[2]
           a == add_incomming_routing_fields(p, l[1])
<1>1. l[1] \in FNode /\ n \in FNode
  BY ForwardingAssumption
<1>2. wire[l] \in Seq(Pub) /\ wire[l] # <<>> /\ OnWire(l, wire[l])
  BY DEF Receive, TypeInv, TablesOK, OriginInv
<1>3. p \in Pub /\ Origin(l[1], p) /\ OnWire(l, Tail(wire[l]))
  BY <1>2, HeadTail DEF OnWire
<1>4. a \in Pub /\ Origin(n, a)
  BY <1>1, <1>3 DEF add_incomming_routing_fields, Pub, Origin
<1>5. \A k \in Link : OnWire(k, wire'[k])
  <2>1. wire' = [k \in Link |-> IF k = l THEN Tail(wire[l]) ELSE wire[k]]
    BY Zenon DEF Receive, TypeInv, TablesOK
  <2> QED
    BY <1>3, <2>1, SMTT(30) DEF OriginInv
<1> HIDE DEF p, n, a
<1>6. \A m \in FNode : \A i \in DOMAIN queue'[m] : Origin(m, queue'[m][i])
  <2>1. CASE UNCHANGED queue
    BY <2>1 DEF OriginInv
  <2>2. ASSUME NEW k \in 1 .. MaxCopies,
               queue' = [queue EXCEPT ![n] = @ \o [i \in 1 .. k |-> a]]
        PROVE  \A m \in FNode : \A i \in DOMAIN queue'[m] : Origin(m, queue'[m][i])
    <3> DEFINE s == queue[n] \o [i \in 1 .. k |-> a]
    <3>1. k \in Nat /\ queue[n] \in Seq(Pub)
      BY <1>1, ForwardingAssumption DEF TypeInv, TablesOK
    <3>2. \A i \in DOMAIN s : (i \in DOMAIN queue[n] /\ s[i] = queue[n][i]) \/ s[i] = a
      BY <1>4, <3>1, AppendCopies
    <3>3. \A i \in DOMAIN s : Origin(n, s[i])
      <4> HIDE DEF s
      <4> QED
        BY <1>1, <1>4, <3>2 DEF OriginInv
    <3>4. queue' = [m \in FNode |-> IF m = n THEN s ELSE queue[m]]
      BY <2>2, Zenon DEF TypeInv, TablesOK
    <3> HIDE DEF s
    <3> QED
      BY <3>3, <3>4 DEF OriginInv
  <2>3. UNCHANGED queue \/ \E k \in 1 .. MaxCopies :
            queue' = [queue EXCEPT ![n] = @ \o [i \in 1 .. k |-> a]]
    BY Zenon DEF Receive, p, n, a
  <2> QED
    BY <2>1, <2>2, <2>3, Zenon
<1>7. publishing' = publishing
  BY DEF Receive
<1> QED
  BY <1>5, <1>6, <1>7 DEF OriginInv, OnWire, Origin

\* Every step keeps it.
LEMMA OriginStep ==
    ASSUME TypeInv, OriginInv, [FNext]_fvars
    PROVE  OriginInv'
<1>1. ASSUME NEW n \in FNode, Number(n) PROVE OriginInv'
  <2>1. PICK k \in 1 .. MaxCopies :
          publishing' = [publishing EXCEPT ![n] = @ \cup
              {[pub |-> [from |-> n, epoch |-> epoch[n],
                         seq |-> sequence_number[n], via |-> {}], copies |-> k]}]
    BY <1>1, Zenon DEF Number
  <2>2. \A m \in FNode : \A t \in publishing'[m] : Origin(m, t.pub)
    BY <2>1 DEF TypeInv, FTypeOK, OriginInv, Origin
  <2> QED
    BY <1>1, <2>2 DEF Number, OriginInv, OnWire, Origin
<1>2. ASSUME NEW n \in FNode, Enqueue(n) PROVE OriginInv'
  <2>1. PICK t \in publishing[n] :
          /\ queue' = [queue EXCEPT ![n] = Append(@, t.pub)]
          /\ publishing' = [publishing EXCEPT ![n] = (@ \ {t}) \cup RestOf(t)]
          /\ UNCHANGED wire
    BY <1>2, Zenon DEF Enqueue
  <2>2. t \in [pub : Pub, copies : 1 .. MaxCopies] /\ Origin(n, t.pub) /\ queue[n] \in Seq(Pub)
    BY DEF TypeInv, FTypeOK, TablesOK, OriginInv
  <2>3. \A u \in RestOf(t) : u.pub = t.pub
    BY <2>2 DEF RestOf
  <2>4. \A m \in FNode : \A u \in publishing'[m] : Origin(m, u.pub)
    BY <2>1, <2>2, <2>3 DEF TypeInv, FTypeOK, OriginInv
  <2>5. \A i \in DOMAIN Append(queue[n], t.pub) : Origin(n, Append(queue[n], t.pub)[i])
    BY <2>2 DEF OriginInv
  <2>6. queue' = [m \in FNode |-> IF m = n THEN Append(queue[n], t.pub) ELSE queue[m]]
    BY <2>1, Zenon DEF TypeInv, TablesOK
  <2>7. \A m \in FNode : \A i \in DOMAIN queue'[m] : Origin(m, queue'[m][i])
    BY <2>5, <2>6 DEF OriginInv
  <2> QED
    BY <2>1, <2>4, <2>7 DEF OriginInv, OnWire, Origin
<1>3. ASSUME NEW L, Reset(L) PROVE \A l \in Link : OnWire(l, wire'[l])
  BY <1>3 DEF Reset, OriginInv, OnWire
<1>4. ASSUME NEW l \in Link, Reconnect(l) PROVE OriginInv'
  BY <1>3, <1>4 DEF Reconnect, OriginInv, OnWire, Origin
<1>5. ASSUME NEW n \in FNode, Restart(n) PROVE OriginInv'
  <2>1. \A l \in Link : OnWire(l, wire'[l])
    BY <1>3, <1>5 DEF Restart
  <2>2. /\ queue' = [m \in FNode |-> IF m = n THEN <<>> ELSE queue[m]]
        /\ publishing' = [m \in FNode |-> IF m = n THEN {} ELSE publishing[m]]
    BY <1>5, Zenon DEF Restart, TypeInv, FTypeOK, TablesOK
  <2> QED
    BY <2>1, <2>2 DEF OriginInv, OnWire, Origin
<1>6. CASE UNCHANGED fvars
  BY <1>6 DEF fvars, OriginInv, OnWire, Origin
<1> QED
  BY <1>1, <1>2, <1>4, <1>5, <1>6, OriginForward, OriginReceive, SMTT(30) DEF FNext

\* The types of the forwarding, for every network and every bound.
THEOREM ForwardingTypes == FSpec => []FTypeOK
<1>1. TypeInv /\ [FNext]_fvars => TypeInv'
  BY TypeStep
<1>2. TypeInv => FTypeOK
  BY DEF TypeInv
<1> QED
  BY TypeInit, <1>1, <1>2, PTL DEF FSpec

\* No node accepts a publication twice, or out of its publisher's order (should_accept),
\* in any network, whoever restarts and whatever is lost.
THEOREM AcceptedInOrder == FSpec => []AcceptedOnceInOrder
<1>1. FInit => TypeInv /\ AcceptInv
  BY TypeInit DEF FInit, AcceptInv, AcceptedOnceInOrder, HistoryRecorded
<1>2. TypeInv /\ AcceptInv /\ [FNext]_fvars => TypeInv' /\ AcceptInv'
  BY TypeStep, AcceptStep
<1>3. AcceptInv => AcceptedOnceInOrder
  BY DEF AcceptInv
<1> QED
  BY <1>1, <1>2, <1>3, PTL DEF FSpec

\* No publication is sent to its publisher or to a node that forwarded it
\* (should_forward), in any network.
THEOREM NothingReturns == FSpec => []NeverReturned
<1>1. FInit => TypeInv /\ OriginInv
  BY TypeInit DEF FInit, OriginInv, OnWire
<1>2. TypeInv /\ OriginInv /\ [FNext]_fvars => TypeInv' /\ OriginInv'
  BY TypeStep, OriginStep
<1>3. OriginInv => NeverReturned
  BY DEF OriginInv, OnWire, NeverReturned, Range
<1> QED
  BY <1>1, <1>2, <1>3, PTL DEF FSpec

(***************************************************************************)
(* Copies in a node.                                                       *)
(***************************************************************************)
\* A marked publication has no nested map, else the copy would not share it.
MarkedIsFlat ==
    ~LuaWritesShared =>
        \A h \in Holder : Live(h) /\ pub[h].shallow => heap[pub[h].obj].nested = None

\* The inductive invariant: what is shared is marked, what is marked has no nested
\* map, so that writes into nested maps never reach a shared one.
PubInv == PubTypeOK /\ SharedIsMarked /\ MarkedIsFlat

USE DEF Live, Unused, Content, has_map_attrs

\* A publication that has no map, or shares one, leaves an object for a map of its own.
LEMMA FreshObject ==
    ASSUME NEW h \in Holder, Shared(h) \/ Unused(h)
    PROVE  NewObject \in Object /\ NewObject \notin Used(pub)
<1> DEFINE S == Holder \ {h}
           T == {pub[g].obj : g \in S}
           f == [g \in S |-> pub[g].obj]
<1>1. IsFiniteSet(S) /\ Cardinality(S) = Cardinality(Holder) - 1 /\ Cardinality(Holder) \in Nat
  BY PublicationAssumption, FS_RemoveElement, FS_CardinalityType
<1>2. f \in Surjection(S, T)
  BY DEF Surjection
<1>3. IsFiniteSet(T) /\ Cardinality(T) <= Cardinality(S)
  BY <1>1, <1>2, FS_Surjection
<1>4. Used(pub) \subseteq T
  BY DEF Used, Shared
<1>5. Cardinality(Object) = Cardinality(Holder) /\ IsFiniteSet(Object)
  BY <1>1, FS_Interval DEF Object
<1>6. ~(Object \subseteq T)
  <2> SUFFICES ASSUME Object \subseteq T PROVE FALSE
    OBVIOUS
  <2>1. Cardinality(Object) <= Cardinality(T)
    BY <1>3, FS_Subset
  <2>2. Cardinality(T) \in Nat
    BY <1>3, FS_CardinalityType
  <2> QED
    BY <2>1, <2>2, <1>1, <1>3, <1>5
<1>7. \E o \in Object : o \notin Used(pub)
  BY <1>4, <1>6
<1> QED
  BY <1>7 DEF NewObject

\* What a map of its own does to the invariant and to the values: the publication is
\* unmarked and has the new map, every other one has what it had.
LEMMA OwnStep ==
    ASSUME PubInv, NEW h \in Holder, NEW m \in AttributeMap, Own(h, m)
    PROVE  /\ PubInv'
           /\ ValueOf' = [ValueOf EXCEPT ![h] = MapCopy(m)]
<1> USE DEF PubInv, PubTypeOK
<1> DEFINE o == IF Shared(h) \/ Unused(h) THEN NewObject ELSE pub[h].obj
           p == [pub EXCEPT ![h] = [obj |-> o, shallow |-> FALSE]]
<1>1. o \in Object /\ \A g \in Holder \ {h} : pub[g].obj # o
  <2>1. CASE Shared(h) \/ Unused(h)
    BY <2>1, FreshObject, PublicationAssumption DEF Used
  <2>2. CASE ~(Shared(h) \/ Unused(h))
    BY <2>2 DEF Shared
  <2> QED
    BY <2>1, <2>2
<1>2. pub' = p /\ heap' = Put([heap EXCEPT ![o] = m], p)
  BY Zenon DEF Own
<1> HIDE DEF o
<1>3. o # Null
  BY <1>1, PublicationAssumption
<1>4. p \in [Holder -> [obj : Object \cup {Null}, shallow : BOOLEAN]]
  BY <1>1
<1>5. heap' \in [Object -> AttributeMap]
  BY <1>1, <1>2 DEF Put, Empty, AttributeMap
<1>6. heap'[o] = m
  BY <1>1, <1>2, <1>3, <1>4 DEF Put, Used
<1>7. \A g \in Holder \ {h} : pub'[g] = pub[g] /\ (Live(g) => heap'[pub[g].obj] = heap[pub[g].obj])
  BY <1>1, <1>2, <1>4 DEF Put, Used
<1>8. pub'[h] = [obj |-> o, shallow |-> FALSE]
  BY <1>2
<1>9. SharedIsMarked'
  BY <1>1, <1>7, <1>8 DEF SharedIsMarked
<1>10. MarkedIsFlat'
  BY <1>7, <1>8 DEF MarkedIsFlat
<1>11. ValueOf' = [ValueOf EXCEPT ![h] = MapCopy(m)]
  <2>1. ValueOf'[h] = MapCopy(m)
    BY <1>3, <1>6, <1>8, SMTT(30) DEF ValueOf, MapCopy
  <2>2. ASSUME NEW g \in Holder \ {h} PROVE ValueOf'[g] = ValueOf[g]
    BY <1>7, <2>2 DEF ValueOf, MapCopy
  <2>3. /\ DOMAIN ValueOf = Holder /\ DOMAIN ValueOf' = Holder
        /\ ValueOf = [g \in Holder |-> ValueOf[g]] /\ ValueOf' = [g \in Holder |-> ValueOf'[g]]
    BY SMTT(30) DEF ValueOf
  <2> HIDE DEF ValueOf
  <2> QED
    BY <2>1, <2>2, <2>3, SMTT(30)
<1> QED
  BY <1>2, <1>4, <1>5, <1>9, <1>10, <1>11, Zenon

\* Copying drops binary data, and nothing else the second time.
LEMMA MapCopyFacts ==
    ASSUME NEW m \in AttributeMap
    PROVE  /\ MapCopy(m) \in AttributeMap /\ MapCopy(MapCopy(m)) = MapCopy(m)
           /\ MapCopy(m) \in {MapCopy(n) : n \in AttributeMap} /\ MapCopy(m) # Null
           /\ (MapCopy(m).nested = None <=> m.nested = None)
  BY PublicationAssumption DEF AttributeMap, Inner, MapCopy, Bare

\* The value of a publication with a map is a map, and not the value of one without.
LEMMA ValueFacts ==
    ASSUME PubTypeOK, NEW h \in Holder
    PROVE  /\ Live(h) => Content(h) \in AttributeMap /\ ValueOf[h] = MapCopy(Content(h))
           /\ (ValueOf[h] = Null <=> Unused(h))
  BY MapCopyFacts DEF PubTypeOK, ValueOf

\* A change of the maps and marks of publications that leaves the objects in use as
\* they are: each publication has the value of the one whose map it got.
LEMMA PutStep ==
    ASSUME PubTypeOK, NEW p \in [Holder -> [obj : Object \cup {Null}, shallow : BOOLEAN]],
           pub' = p, heap' = Put(heap, p)
    PROVE  /\ PubTypeOK'
           /\ \A g \in Holder : p[g].obj # Null => heap'[p[g].obj] = heap[p[g].obj]
<1>1. heap' \in [Object -> AttributeMap]
  BY DEF PubTypeOK, Put, Empty, AttributeMap
<1>2. \A g \in Holder : p[g].obj # Null => heap'[p[g].obj] = heap[p[g].obj]
  BY DEF Put, Used
<1> QED
  BY <1>1, <1>2 DEF PubTypeOK

\* Two functions on publications are equal if they agree everywhere.
LEMMA ValueOfByCases ==
    ASSUME NEW w, w = [g \in Holder |-> w[g]], \A g \in Holder : ValueOf'[g] = w[g]
    PROVE  ValueOf' = w
<1>1. ValueOf' = [g \in Holder |-> ValueOf'[g]]
  BY DEF ValueOf
<1> HIDE DEF ValueOf
<1> QED
  BY <1>1

\* A copy without nested maps shares the map; both are marked.
LEMMA ShareStep ==
    ASSUME PubInv, NEW h \in Holder, NEW g \in Holder \ {h},
           Copy(h, g), Content(g).nested = None
    PROVE  PubInv' /\ ValueOf' = [ValueOf EXCEPT ![h] = ValueOf[g]]
<1> USE DEF PubInv
<1> DEFINE p == [pub EXCEPT ![h] = [obj |-> pub[g].obj, shallow |-> TRUE],
                            ![g].shallow = TRUE]
<1>1. p \in [Holder -> [obj : Object \cup {Null}, shallow : BOOLEAN]]
  BY Zenon DEF PubTypeOK
<1>2. /\ p[h] = [obj |-> pub[g].obj, shallow |-> TRUE]
      /\ p[g] = [obj |-> pub[g].obj, shallow |-> TRUE]
      /\ \A k \in Holder \ {h, g} : p[k] = pub[k]
  BY Zenon DEF PubTypeOK
<1>3. Live(g) /\ pub' = p /\ heap' = Put(heap, p)
  BY DEF Copy
<1> HIDE DEF p
<1>4. PubTypeOK' /\ \A k \in Holder : p[k].obj # Null => heap'[p[k].obj] = heap[p[k].obj]
  BY <1>1, <1>3, PutStep, SMTT(30)
<1>5. SharedIsMarked'
  BY <1>2, <1>3, SMTT(30) DEF SharedIsMarked
<1>6. MarkedIsFlat'
  BY <1>2, <1>3, <1>4, SMTT(30) DEF MarkedIsFlat
<1>7. \A k \in Holder : ValueOf'[k] = IF k = h THEN ValueOf[g] ELSE ValueOf[k]
  <2>1. \A k \in Holder : ValueOf'[k] = IF p[k].obj # Null THEN MapCopy(heap'[p[k].obj])
                                       ELSE Null
    BY <1>3, Zenon DEF ValueOf
  <2>2. \A k \in Holder : ValueOf'[k] = IF p[k].obj # Null THEN MapCopy(heap[p[k].obj])
                                       ELSE Null
    BY <2>1, <1>4, Zenon
  <2>3. \A k \in Holder : ValueOf[k] = IF pub[k].obj # Null THEN MapCopy(heap[pub[k].obj])
                                      ELSE Null
    BY Zenon DEF ValueOf
  <2> QED
    BY <1>2, <2>2, <2>3
<1>8. ValueOf' = [ValueOf EXCEPT ![h] = ValueOf[g]]
  BY <1>7, ValueOfByCases, Zenon DEF ValueOf
<1> QED
  BY <1>4, <1>5, <1>6, <1>8

\* A move takes map and mark along.
LEMMA MoveStep ==
    ASSUME PubInv, NEW h \in Holder, NEW g \in Holder \ {h}, Move(h, g)
    PROVE  PubInv' /\ ValueOf' = [ValueOf EXCEPT ![h] = ValueOf[g], ![g] = Null]
<1> USE DEF PubInv
<1> DEFINE p == [pub EXCEPT ![h] = pub[g], ![g].obj = Null]
<1>1. p \in [Holder -> [obj : Object \cup {Null}, shallow : BOOLEAN]]
  BY DEF PubTypeOK
<1>2. /\ p[h] = pub[g] /\ p[g].obj = Null
      /\ \A k \in Holder \ {h, g} : p[k] = pub[k]
  BY DEF PubTypeOK
<1>3. pub' = p /\ heap' = Put(heap, p)
  BY Zenon DEF Move
<1> HIDE DEF p
<1>4. PubTypeOK' /\ \A k \in Holder : p[k].obj # Null => heap'[p[k].obj] = heap[p[k].obj]
  BY <1>1, <1>3, PutStep
<1>5. SharedIsMarked'
  BY <1>2, <1>3 DEF SharedIsMarked
<1>6. MarkedIsFlat'
  BY <1>2, <1>3, <1>4, SMTT(30) DEF MarkedIsFlat
<1>7. \A k \in Holder : ValueOf'[k] = IF k = h THEN ValueOf[g]
                                      ELSE IF k = g THEN Null ELSE ValueOf[k]
  <2>1. \A k \in Holder : ValueOf'[k] = IF p[k].obj # Null THEN MapCopy(heap'[p[k].obj])
                                       ELSE Null
    BY <1>3, Zenon DEF ValueOf
  <2>2. \A k \in Holder : ValueOf'[k] = IF p[k].obj # Null THEN MapCopy(heap[p[k].obj])
                                       ELSE Null
    BY <2>1, <1>4, Zenon
  <2>3. \A k \in Holder : ValueOf[k] = IF pub[k].obj # Null THEN MapCopy(heap[pub[k].obj])
                                      ELSE Null
    BY Zenon DEF ValueOf
  <2> QED
    BY <1>2, <2>2, <2>3
<1>8. ValueOf' = [ValueOf EXCEPT ![h] = ValueOf[g], ![g] = Null]
  BY <1>7, ValueOfByCases, Zenon DEF ValueOf
<1> QED
  BY <1>4, <1>5, <1>6, <1>8

\* A write of Lua to the map itself: no mark changes, and who is unmarked shares with
\* nobody.
LEMMA WriteStep ==
    ASSUME PubInv, NEW h \in Holder, Live(h), NEW m \in AttributeMap,
           heap' = [heap EXCEPT ![pub[h].obj] = m], pub' = pub,
           LuaWritesShared \/ ~pub[h].shallow
    PROVE  PubInv' /\ (~pub[h].shallow => ValueOf' = [ValueOf EXCEPT ![h] = MapCopy(m)])
<1> USE DEF PubInv
<1>1. PubTypeOK'
  BY DEF PubTypeOK
<1>2. SharedIsMarked'
  BY DEF SharedIsMarked
<1>3. ~pub[h].shallow => \A g \in Holder \ {h} : Live(g) => pub[g].obj # pub[h].obj
  BY DEF SharedIsMarked
<1>4. ~pub[h].shallow => \A g \in Holder \ {h} : Live(g) => heap'[pub[g].obj] = heap[pub[g].obj]
  BY <1>3 DEF PubTypeOK
<1>5. heap'[pub[h].obj] = m
  BY DEF PubTypeOK
<1>6. MarkedIsFlat'
  BY <1>4, PublicationAssumption DEF MarkedIsFlat
<1>7. ASSUME ~pub[h].shallow
      PROVE  ValueOf' = [ValueOf EXCEPT ![h] = MapCopy(m)]
  <2>1. ValueOf'[h] = MapCopy(m)
    BY <1>5, SMTT(30) DEF ValueOf, MapCopy
  <2>2. \A g \in Holder \ {h} : ValueOf'[g] = ValueOf[g]
    BY <1>4, <1>7 DEF ValueOf, MapCopy
  <2>3. ValueOf = [g \in Holder |-> ValueOf[g]]
    BY DEF ValueOf
  <2> HIDE DEF ValueOf
  <2>4. \A g \in Holder : ValueOf'[g] = [ValueOf EXCEPT ![h] = MapCopy(m)][g]
    BY <2>1, <2>2, <2>3
  <2> QED
    BY <2>3, <2>4, ValueOfByCases, Zenon
<1> QED
  BY <1>1, <1>2, <1>6, <1>7

\* A new map for a publication that had none is a step of the abstract variables.
LEMMA MakeRefines ==
    ASSUME PubTypeOK, NEW h \in Holder, Unused(h), NEW m \in AttributeMap,
           ValueOf' = [ValueOf EXCEPT ![h] = MapCopy(m)]
    PROVE  Values!VNext
  BY MapCopyFacts, ValueFacts, Zenon DEF Values!VNext, Values!VMake

\* So is a change of one attribute.
LEMMA WriteRefines ==
    ASSUME PubTypeOK, NEW h \in Holder, Live(h), NEW m \in AttributeMap,
           ValueOf' = [ValueOf EXCEPT ![h] = MapCopy(m)],
           \/ MapCopy(m).nested = MapCopy(Content(h)).nested
           \/ MapCopy(m).plain = MapCopy(Content(h)).plain
    PROVE  Values!VNext
<1> DEFINE w == MapCopy(m)
<1>1. /\ DOMAIN w = {"plain", "nested"} /\ w["plain"] = w.plain /\ w["nested"] = w.nested
      /\ ValueOf[h]["plain"] = ValueOf[h].plain /\ ValueOf[h]["nested"] = ValueOf[h].nested
  BY SMTT(30) DEF MapCopy
<1>2. \E a \in DOMAIN w : \A b \in DOMAIN w \ {a} : w[b] = ValueOf[h][b]
  <2>1. CASE w.nested = ValueOf[h].nested
    BY <1>1, <2>1, SMTT(30)
  <2>2. CASE w.plain = ValueOf[h].plain
    BY <1>1, <2>2
  <2> QED
    BY <2>1, <2>2, ValueFacts, SMTT(30)
<1>3. w \in {MapCopy(n) : n \in AttributeMap} /\ ValueOf[h] # Null
  BY MapCopyFacts, ValueFacts
<1>4. Values!VWrite(h)
  BY <1>2, <1>3, Zenon DEF Values!VWrite
<1> QED
  BY <1>4, SMTT(30) DEF Values!VNext

\* Every step keeps the invariant, and is one of the abstract variables unless Lua
\* writes to what is shared.
LEMMA PubStep ==
    ASSUME PubInv, PubNext
    PROVE  PubInv' /\ (~LuaWritesShared => Values!VNext)
<1> USE DEF PubInv
<1>0. PICK h \in Holder :
        \/ Construct(h) \/ erase_attr(h) \/ ReceiveBinary(h)
        \/ \E v \in Datum : set_attr(h, v) \/ set_nested(h, v)
        \/ \E v \in Datum \cup {None} : set_in_map(h, v)
        \/ \E v \in Datum : set_map_attr(h, [plain |-> v]) \/ parse_table(h, [plain |-> v])
        \/ \E g \in Holder \ {h} : Handed(h, g)
  BY DEF PubNext
<1>1. Empty \in AttributeMap
  BY DEF Empty, AttributeMap
<1>2. /\ Live(h) => Content(h) \in AttributeMap /\ deep_copy(h) \in AttributeMap
      /\ Live(h) => MapCopy(deep_copy(h)) = MapCopy(Content(h))
  BY MapCopyFacts, ValueFacts DEF deep_copy
<1>3. CASE Construct(h)
  BY <1>1, <1>3, OwnStep, MakeRefines DEF Construct
<1>4. CASE ReceiveBinary(h)
  <2>1. Unused(h) /\ Own(h, [Empty EXCEPT !.plain = Binary])
    BY <1>4 DEF ReceiveBinary, build
  <2>2. [Empty EXCEPT !.plain = Binary] \in AttributeMap
    BY DEF Empty, AttributeMap
  <2> QED
    BY <2>1, <2>2, OwnStep, MakeRefines
<1>5. ASSUME NEW v \in Datum \cup {None}, Live(h), Own(h, [deep_copy(h) EXCEPT !.plain = v])
      PROVE  PubInv' /\ Values!VNext
  <2> DEFINE m == [deep_copy(h) EXCEPT !.plain = v]
  <2>1. m \in AttributeMap
    BY <1>2, <1>5 DEF AttributeMap
  <2>2. MapCopy(m).nested = MapCopy(Content(h)).nested
    <3>1. m.nested = deep_copy(h).nested
      BY <1>2, <1>5 DEF AttributeMap
    <3>2. MapCopy(m).nested = MapCopy(deep_copy(h)).nested
      BY <3>1 DEF MapCopy
    <3> QED
      BY <3>2, <1>2, <1>5
  <2> HIDE DEF m
  <2> QED
    BY <1>5, <2>1, <2>2, OwnStep, WriteRefines DEF m
<1>6. CASE erase_attr(h)
  BY <1>5, <1>6 DEF erase_attr
<1>7. CASE \E v \in Datum : set_attr(h, v)
  BY <1>5, <1>7, SMTT(30) DEF set_attr
<1>8. ASSUME NEW v \in Datum, set_map_attr(h, [plain |-> v])
      PROVE  PubInv' /\ Values!VNext
  <2> DEFINE m == [deep_copy(h) EXCEPT !.nested = [plain |-> v]]
  <2>1. Live(h) /\ Own(h, m)
    BY <1>8 DEF set_map_attr
  <2>2. m \in AttributeMap
    BY <1>2, <2>1 DEF AttributeMap, Inner
  <2>3. MapCopy(m).plain = MapCopy(Content(h)).plain
    <3>1. m.plain = deep_copy(h).plain
      BY <1>2, <2>1 DEF AttributeMap
    <3>2. MapCopy(m).plain = MapCopy(deep_copy(h)).plain
      BY <3>1 DEF MapCopy
    <3> QED
      BY <3>2, <1>2, <2>1
  <2> HIDE DEF m
  <2> QED
    BY <2>1, <2>2, <2>3, OwnStep, WriteRefines
<1>9. ASSUME NEW v \in Datum \cup {None}, set_in_map(h, v)
      PROVE  PubInv' /\ (~LuaWritesShared => Values!VNext)
  <2> DEFINE m == [Content(h) EXCEPT !.plain = v]
  <2>1. /\ Live(h) /\ (LuaWritesShared \/ ~pub[h].shallow)
        /\ heap' = [heap EXCEPT ![pub[h].obj] = m] /\ pub' = pub
    BY <1>9 DEF set_in_map
  <2>2. m \in AttributeMap
    BY <1>2, <2>1 DEF AttributeMap
  <2>3. MapCopy(m).nested = MapCopy(Content(h)).nested
    BY <1>2, <2>1 DEF AttributeMap, MapCopy
  <2> HIDE DEF m
  <2> QED
    BY <2>1, <2>2, <2>3, WriteStep, WriteRefines, Zenon
<1>10. ASSUME NEW v \in Datum, parse_table(h, [plain |-> v])
       PROVE  PubInv' /\ (~LuaWritesShared => Values!VNext)
  <2> DEFINE m == [Content(h) EXCEPT !.nested = [plain |-> v]]
  <2>1. /\ Live(h) /\ (LuaWritesShared \/ ~pub[h].shallow)
        /\ heap' = [heap EXCEPT ![pub[h].obj] = m] /\ pub' = pub
    BY <1>10 DEF parse_table
  <2>2. m \in AttributeMap
    BY <1>2, <2>1 DEF AttributeMap, Inner
  <2>3. MapCopy(m).plain = MapCopy(Content(h)).plain
    BY <1>2, <2>1 DEF AttributeMap, MapCopy
  <2> HIDE DEF m
  <2> QED
    BY <2>1, <2>2, <2>3, WriteStep, WriteRefines, Zenon
<1>11. ASSUME NEW v \in Datum, set_nested(h, v)
       PROVE  PubInv' /\ (~LuaWritesShared => Values!VNext)
  <2> DEFINE m == [Content(h) EXCEPT !.nested.plain = v]
  <2>1. /\ Live(h) /\ Content(h).nested # None
        /\ heap' = [heap EXCEPT ![pub[h].obj] = m] /\ pub' = pub
    BY <1>11 DEF set_nested
  <2>2. m \in AttributeMap
    BY <1>2, <2>1, SMTT(30) DEF AttributeMap, Inner
  <2>3. MapCopy(m).plain = MapCopy(Content(h)).plain
    BY <1>2, <2>1 DEF AttributeMap, MapCopy
  <2>4. LuaWritesShared \/ ~pub[h].shallow
    BY <2>1, PublicationAssumption DEF MarkedIsFlat
  <2> HIDE DEF m
  <2> QED
    BY <2>1, <2>2, <2>3, <2>4, WriteStep, WriteRefines, Zenon
<1>12. ASSUME NEW g \in Holder \ {h}, Copy(h, g)
       PROVE  PubInv' /\ Values!VNext
  <2>1. PubInv' /\ ValueOf' = [ValueOf EXCEPT ![h] = ValueOf[g]]
    <3>1. CASE Content(g).nested = None
      BY <1>12, <3>1, ShareStep
    <3>2. CASE Content(g).nested # None
      <4>1. Live(g) /\ Own(h, MapCopy(Content(g)))
        BY <1>12, <3>2 DEF Copy
      <4>2. /\ MapCopy(Content(g)) \in AttributeMap
            /\ MapCopy(MapCopy(Content(g))) = ValueOf[g]
        BY <4>1, ValueFacts, MapCopyFacts
      <4> QED
        BY <4>1, <4>2, OwnStep
    <3> QED
      BY <3>1, <3>2
  <2>2. ValueOf[g] # Null
    BY <1>12, ValueFacts, SMTT(30) DEF Copy
  <2> QED
    BY <2>1, <2>2, Zenon DEF Values!VNext, Values!VCopy
<1>13. ASSUME NEW g \in Holder \ {h}, Transfer(h, g)
       PROVE  PubInv' /\ Values!VNext
  <2>1. Live(g) /\ Unused(h) /\ Own(h, Content(g))
    BY <1>13, SMTT(30) DEF Transfer, build, to_msg_pack
  <2>2. Content(g) \in AttributeMap
    BY <2>1, ValueFacts, SMTT(30)
  <2> QED
    BY <2>1, <2>2, OwnStep, MakeRefines, SMTT(30)
<1>14. ASSUME NEW g \in Holder \ {h}, unwrap(h, g)
       PROVE  PubInv' /\ Values!VNext
  <2> DEFINE m == [Empty EXCEPT !.plain = Bare(Content(g).nested.plain)]
  <2>1. Live(g) /\ Unused(h) /\ Content(g).nested # None /\ Own(h, m)
    BY <1>14 DEF unwrap
  <2>2. Content(g) \in AttributeMap
    BY <2>1, ValueFacts, SMTT(30)
  <2>3. m \in AttributeMap
    BY <2>1, <2>2 DEF Empty, AttributeMap, Inner, Bare
  <2> HIDE DEF m
  <2> QED
    BY <2>1, <2>3, OwnStep, MakeRefines
<1>15. ASSUME NEW g \in Holder \ {h}, Handed(h, g)
       PROVE  PubInv' /\ Values!VNext
  <2>1. CASE Move(h, g)
    BY <2>1, MoveStep DEF Values!VNext, Values!VMove
  <2> QED
    BY <1>12, <1>13, <1>14, <1>15, <2>1, SMTT(30) DEF Handed, CopyConstruct, CopyAssign
<1> QED
  BY <1>0, <1>3, <1>4, <1>6, <1>7, <1>8, <1>9, <1>10, <1>11, <1>15, Zenon

\* The invariant holds in every state of the publications.
THEOREM PubInvariant == PubSpec => []PubInv
<1>1. PubInit => PubInv
  BY PublicationAssumption
  DEF PubInit, PubInv, PubTypeOK, SharedIsMarked, MarkedIsFlat, Empty, AttributeMap
<1>2. PubInv /\ [PubNext]_pubvars => PubInv'
  <2> SUFFICES ASSUME PubInv, [PubNext]_pubvars PROVE PubInv'
    OBVIOUS
  <2>1. CASE PubNext
    BY <2>1, PubStep, SMTT(30)
  <2>2. CASE UNCHANGED pubvars
    BY <2>2 DEF PubInv, PubTypeOK, SharedIsMarked, MarkedIsFlat, pubvars
  <2> QED
    BY <2>1, <2>2
<1> QED
  BY <1>1, <1>2, PTL DEF PubSpec

\* Publications that share a map are all marked (copy constructor, assignments and
\* moves of publication.cpp), also if Lua writes to them.
THEOREM SharingIsMarked == PubSpec => []SharedIsMarked
<1>1. PubInv => SharedIsMarked
  BY DEF PubInv
<1> QED
  BY <1>1, PubInvariant, PTL

\* Publications are variables with maps of their own, for any number of them and any
\* values, as long as Lua does not write to one that shares its map.
THEOREM PublicationsAreValues == ~LuaWritesShared /\ PubSpec => CopiesAreValues
<1> SUFFICES ASSUME ~LuaWritesShared PROVE PubSpec => CopiesAreValues
  OBVIOUS
<1>1. PubInit => Values!VInit
  BY DEF PubInit, Values!VInit, ValueOf
<1>2. PubInv /\ [PubNext]_pubvars => [Values!VNext]_ValueOf
  <2> SUFFICES ASSUME PubInv, [PubNext]_pubvars PROVE Values!VNext \/ UNCHANGED ValueOf
    OBVIOUS
  <2>1. CASE PubNext
    BY <2>1, PubStep, SMTT(30)
  <2>2. CASE UNCHANGED pubvars
    BY <2>2 DEF ValueOf, MapCopy, pubvars
  <2> QED
    BY <2>1, <2>2
<1> QED
  BY <1>1, <1>2, PubInvariant, PTL DEF PubSpec, CopiesAreValues, Values!VSpec
=============================================================================
