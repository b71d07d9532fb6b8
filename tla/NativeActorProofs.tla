-------------------------- MODULE NativeActorProofs --------------------------
(***************************************************************************)
(* Proofs about native actors, for any notifications, offsets, requests,   *)
(* subscriptions, threads and bounds.  The notification display shows what *)
(* is there; the sensor actor announces itself once, keeps one chain of    *)
(* wakeups and tells the truth about its calibration; the HTTP ingress     *)
(* ends no response twice and knows which requests somebody subscribes to; *)
(* the HTTP client answers each request with the result of its own         *)
(* transfer.                                                               *)
(***************************************************************************)
EXTENDS NotificationCenter, Scd30Actor, HttpIngress, HttpClient, FiniteSetTheorems,
        SequenceTheorems, TLAPS

(***************************************************************************)
(* The notification display shows a notification that is there, and their  *)
(* number, although states that differ in the identifier only are taken    *)
(* for the same: whenever the notification that is shown changes, the      *)
(* number or the text does, too.                                           *)
(***************************************************************************)
\* The inductive invariant.
DisplayInv ==
    /\ DOMAIN notifications \subseteq Identifiers /\ IsFiniteSet(DOMAIN notifications)
    /\ current_state = Shown(current_state.id, current_state.text, current_state.number)
    /\ current_state.id \in Nat
    /\ ScreenTrue

\* What may be shown for some notifications.
Fits(s, ns) ==
    /\ s = Shown(s.id, s.text, s.number) /\ s.id \in Nat
    /\ s.number = Cardinality(DOMAIN ns)
    /\ IF s.id = 0 THEN DOMAIN ns = {}
       ELSE s.id \in DOMAIN ns /\ s.text = ns[s.id].text

\* A set of identifiers has a smallest one.
LEMMA MinIsMember ==
    ASSUME NEW S \in SUBSET Nat, S # {}
    PROVE  Min(S) \in S
<1>1. PICK x \in S : \A y \in S : ~(<<y, x>> \in OpToRel(<, Nat))
  BY NatLessThanWellFounded, WFMin
<1>2. ASSUME NEW y \in S PROVE x <= y
  <2>1. ~(<<y, x>> \in {ss \in Nat \X Nat : ss[1] < ss[2]})
    BY <1>1 DEF OpToRel
  <2> QED
    BY <2>1
<1> QED
  BY <1>2, Zenon DEF Min

\* What is shown next is there, or nothing is.
LEMMA PrintNext ==
    ASSUME NEW ns, DOMAIN ns \subseteq Identifiers, NEW k,
           current_state.id \in Nat
    PROVE  \/ DOMAIN ns = {} /\ print_next(ns, k) = Shown(0, "", k)
           \/ \E i \in DOMAIN ns : print_next(ns, k) = Shown(i, ns[i].text, k)
<1>1. CASE DOMAIN ns = {}
  BY <1>1 DEF print_next
<1>2. CASE DOMAIN ns # {}
  <2> DEFINE after == {i \in DOMAIN ns : i > current_state.id}
             S == IF current_state.id \in DOMAIN ns /\ after # {} THEN after ELSE DOMAIN ns
  <2>1. S \subseteq DOMAIN ns /\ S # {} /\ S \in SUBSET Nat
    BY <1>2, NotificationAssumption, Zenon
  <2>2. Min(S) \in DOMAIN ns
    BY <2>1, MinIsMember
  <2>3. print_next(ns, k) = Shown(Min(S), ns[Min(S)].text, k)
    BY <1>2 DEF print_next
  <2> HIDE DEF S
  <2> QED
    BY <2>2, <2>3
<1> QED
  BY <1>1, <1>2

\* A new state that fits is as good as drawn, if the old one fits as well or differs
\* from it in the number.
LEMMA UpdateFits ==
    ASSUME NEW s, Fits(s, notifications'), update(s),
           Fits(current_state, notifications') \/ current_state.number # s.number
    PROVE  Fits(current_state', notifications')
  BY DEF update, SameState

\* The invariant says that the state fits.
LEMMA InvFits == DisplayInv <=> /\ DOMAIN notifications \subseteq Identifiers
                                /\ IsFiniteSet(DOMAIN notifications)
                                /\ Fits(current_state, notifications)
  BY DEF DisplayInv, ScreenTrue, Fits

\* After a step, too.
LEMMA InvFitsNext ==
    ASSUME DOMAIN notifications' \subseteq Identifiers, IsFiniteSet(DOMAIN notifications'),
           Fits(current_state', notifications')
    PROVE  DisplayInv'
  BY DEF DisplayInv, ScreenTrue, Fits, Shown

\* A notification arrives: a new one changes the number, a known one may change the text.
LEMMA DisplayReceive ==
    ASSUME DisplayInv, NEW id \in Identifiers, NEW text, NEW lifetime,
           receive_notification(id, text, lifetime)
    PROVE  DisplayInv'
<1> DEFINE ns == notifications'
           D == DOMAIN notifications
<1>1. /\ DOMAIN ns = D \cup {id} /\ ns[id].text = text
      /\ \A i \in D \ {id} : ns[i] = notifications[i]
  BY DEF receive_notification
<1>2. /\ IsFiniteSet(D \cup {id}) /\ Cardinality(D) \in Nat
      /\ Cardinality(D \cup {id}) = IF id \in D THEN Cardinality(D) ELSE Cardinality(D) + 1
  BY FS_AddElement, FS_CardinalityType DEF DisplayInv
<1>3. DOMAIN ns \subseteq Identifiers /\ id \in Nat \ {0}
  BY <1>1, NotificationAssumption DEF DisplayInv
<1>4. Fits(current_state, notifications)
  BY InvFits
<1>5. Fits(current_state', ns)
  <2>1. CASE id \notin D
    <3> DEFINE s == Shown(id, text, Cardinality(DOMAIN ns))
    <3>1. update(s)
      BY <2>1 DEF receive_notification
    <3>2. Fits(s, ns) /\ current_state.number # s.number
      BY <1>1, <1>2, <1>3, <1>4, <2>1 DEF Fits, Shown
    <3> QED
      BY <3>1, <3>2, UpdateFits
  <2>2. CASE id \in D /\ current_state.id = id
    <3> DEFINE s == [current_state EXCEPT !.text = text]
    <3>1. update(s)
      BY <2>2 DEF receive_notification
    <3>2. Fits(s, ns)
      BY <1>1, <1>2, <1>3, <1>4, <2>2 DEF Fits, Shown
    <3>3. s = current_state \/ ~SameState(s, current_state)
      BY <1>4 DEF Fits, Shown, SameState
    <3> QED
      BY <3>1, <3>2, <3>3 DEF update
  <2>3. CASE id \in D /\ current_state.id # id
    <3>1. current_state' = current_state
      BY <2>3 DEF receive_notification
    <3>2. Fits(current_state, ns)
      BY <1>1, <1>2, <1>4, <2>3 DEF Fits
    <3> QED
      BY <3>1, <3>2
  <2> QED
    BY <2>1, <2>2, <2>3
<1> QED
  BY <1>1, <1>2, <1>3, <1>5, InvFitsNext

\* Notifications go: the number changes, so that the display is drawn.
LEMMA DisplayRemove ==
    ASSUME DisplayInv, NEW ids \in SUBSET DOMAIN notifications, ids # {},
           notifications' = Except(ids), update(Removed(ids))
    PROVE  DisplayInv'
<1> DEFINE ns == notifications'
           D == DOMAIN notifications
           k == Cardinality(D \ ids)
<1>1. DOMAIN ns = D \ ids /\ DOMAIN Except(ids) = D \ ids /\ \A i \in D \ ids : ns[i] = notifications[i]
  BY DEF Except
<1>2. IsFiniteSet(D \ ids) /\ k \in Nat /\ k # Cardinality(D)
  <2>1. D \ ids \in SUBSET D /\ D \ ids # D
    OBVIOUS
  <2> QED
    BY <2>1, FS_Subset, FS_CardinalityType DEF DisplayInv
<1>3. Fits(current_state, notifications) /\ D \subseteq Identifiers
  BY InvFits
<1> DEFINE s == Removed(ids)
<1>4. Fits(s, ns) /\ s.number = k
  <2>1. CASE current_state.id \in ids
    <3>1. s = print_next(ns, k)
      BY <1>1, <2>1 DEF Removed
    <3>2. DOMAIN ns \subseteq Identifiers /\ current_state.id \in Nat
      BY <1>1, <1>3 DEF Fits
    <3>3. \/ DOMAIN ns = {} /\ print_next(ns, k) = Shown(0, "", k)
          \/ \E i \in DOMAIN ns : print_next(ns, k) = Shown(i, ns[i].text, k)
      <4> HIDE DEF ns, k
      <4> QED
        BY <3>2, PrintNext
    <3> HIDE DEF s, ns
    <3>4. CASE DOMAIN ns = {} /\ s = Shown(0, "", k)
      BY <1>1, <3>4 DEF Fits, Shown
    <3>5. ASSUME NEW i \in DOMAIN ns, s = Shown(i, ns[i].text, k) PROVE Fits(s, ns) /\ s.number = k
      <4>1. i \in Nat \ {0}
        BY <3>2, NotificationAssumption, Zenon
      <4> QED
        BY <1>1, <3>5, <4>1 DEF Fits, Shown
    <3> QED
      BY <3>1, <3>3, <3>4, <3>5
  <2>2. CASE current_state.id \notin ids
    <3>1. s = [current_state EXCEPT !.number = k]
      BY <1>1, <2>2 DEF Removed
    <3> HIDE DEF s
    <3> QED
      BY <1>1, <1>3, <2>2, <3>1 DEF Fits, Shown
  <2> QED
    BY <2>1, <2>2
<1>5. current_state.number # s.number
  BY <1>2, <1>3, <1>4 DEF Fits
<1> HIDE DEF s
<1>6. Fits(current_state', ns)
  BY <1>4, <1>5, UpdateFits DEF s
<1> QED
  BY <1>1, <1>2, <1>3, <1>6, InvFitsNext

\* Every step keeps the invariant.
LEMMA DisplayStep ==
    ASSUME DisplayInv, [NNext]_nvars
    PROVE  DisplayInv'
<1>1. CASE UNCHANGED <<notifications, current_state>>
  BY <1>1 DEF DisplayInv, ScreenTrue
<1>2. CASE cleanup
  <2> DEFINE ids == {i \in DOMAIN notifications : Outlived(notifications[i])}
  <2>1. /\ notifications' = Except(ids)
        /\ IF ids = {} THEN UNCHANGED current_state ELSE update(Removed(ids))
    BY <1>2 DEF cleanup
  <2>2. CASE ids = {}
    <3>1. /\ DOMAIN notifications' = DOMAIN notifications /\ current_state' = current_state
          /\ \A i \in DOMAIN notifications : notifications'[i] = notifications[i]
      BY <2>1, <2>2 DEF Except
    <3>2. DOMAIN notifications' \subseteq Identifiers /\ IsFiniteSet(DOMAIN notifications')
      BY <3>1 DEF DisplayInv
    <3>3. Fits(current_state', notifications')
      BY <3>1, InvFits DEF Fits
    <3> QED
      BY <3>2, <3>3, InvFitsNext
  <2>3. CASE ids # {}
    BY <2>1, <2>3, DisplayRemove
  <2> QED
    BY <2>2, <2>3
<1>3. CASE Scroll
  <2> DEFINE k == current_state.number
             s == print_next(notifications, k)
  <2>1. update(s) /\ notifications' = notifications
    BY <1>3 DEF Scroll
  <2>2. /\ DOMAIN notifications \subseteq Identifiers /\ Fits(current_state, notifications)
        /\ IsFiniteSet(DOMAIN notifications)
    BY InvFits
  <2>3. \/ DOMAIN notifications = {} /\ s = Shown(0, "", k)
        \/ \E i \in DOMAIN notifications : s = Shown(i, notifications[i].text, k)
    BY <2>2, PrintNext DEF Fits
  <2>4. Fits(s, notifications)
    <3> HIDE DEF s
    <3>1. CASE DOMAIN notifications = {} /\ s = Shown(0, "", k)
      BY <2>2, <3>1 DEF Fits, Shown
    <3>2. ASSUME NEW i \in DOMAIN notifications, s = Shown(i, notifications[i].text, k)
          PROVE  Fits(s, notifications)
      <4>1. i \in Nat \ {0}
        BY <2>2, NotificationAssumption, Zenon
      <4> QED
        BY <2>2, <3>2, <4>1 DEF Fits, Shown
    <3> QED
      BY <2>3, <3>1, <3>2
  <2> HIDE DEF s
  <2>5. Fits(current_state', notifications')
    BY <2>1, <2>2, <2>4, UpdateFits
  <2> QED
    BY <2>1, <2>2, <2>5, InvFitsNext
<1>4. ASSUME NEW id \in Identifiers, receive_notification_cancelation(id) PROVE DisplayInv'
  BY <1>4, DisplayRemove DEF receive_notification_cancelation
<1>5. CASE Tick
  BY <1>1, <1>5 DEF Tick
<1> QED
  BY <1>1, <1>2, <1>3, <1>4, <1>5, DisplayReceive DEF NNext, nvars

\* The display never shows a notification that is gone, or a wrong number of them,
\* whatever arrives, is replaced, cancelled, expires or is scrolled through.
THEOREM DisplayIsTrue == NSpec => []ScreenTrue
<1>1. NInit => DisplayInv
  BY FS_EmptySet DEF NInit, DisplayInv, ScreenTrue, Shown
<1>2. DisplayInv /\ [NNext]_nvars => DisplayInv'
  BY DisplayStep
<1>3. DisplayInv => ScreenTrue
  BY DEF DisplayInv
<1> QED
  BY <1>1, <1>2, <1>3, PTL DEF NSpec

(***************************************************************************)
(* The SCD30 actor.                                                        *)
(***************************************************************************)
\* The types of the sensor actor's state.
SensorTypes ==
    /\ actor \in {"spawned", "up", "gone"} /\ exiting \in Nat
    /\ registered_actors \subseteq Types /\ counted \in [Types -> Int]
    /\ timers \in [sensor_wait : Nat, measurement : Nat]
    /\ calibration \in [temp : BOOLEAN, offset : Nat, co2 : BOOLEAN]
    /\ nvs \in [temp : Nat, co2 : BOOLEAN] /\ sensor \in [offset : Nat, frc : BOOLEAN]
    /\ diverged \in BOOLEAN

\* An actor that is not there has announced nothing and has no wakeups.
AbsentIsSilent ==
    actor # "up" => registered_actors = {} /\ timers.sensor_wait = 0 /\ timers.measurement = 0

\* What survives a restart: the storage has an offset only if the sensor has it, and
\* a time stamp only if the sensor was calibrated.
StorageTrue ==
    /\ nvs.temp # None /\ ~diverged => sensor.offset = nvs.temp
    /\ nvs.co2 => sensor.frc

\* The inductive invariant.
SensorInv ==
    /\ SensorTypes /\ AbsentIsSilent /\ StorageTrue
    /\ RegistrationExact /\ OneLoop /\ CalibrationTrue

\* The start of the actor, and of the board.
LEMMA SensorFresh ==
    ASSUME SensorTypes, StorageTrue, Reboot, UNCHANGED nvs,
           sensor' \in [offset : Nat, frc : BOOLEAN], diverged' \in BOOLEAN, StorageTrue'
    PROVE  SensorInv'
  BY DEF Reboot, Fresh, SensorInv, SensorTypes, AbsentIsSilent, RegistrationExact, OneLoop,
         CalibrationTrue

\* Looking for the sensor announces its types once and leaves one wakeup, or an exit.
LEMMA SensorLook ==
    ASSUME SensorInv, NEW t \in [sensor_wait : Nat, measurement : Nat], NEW found \in BOOLEAN,
           NEW errors \in Nat, t.sensor_wait + t.measurement = 0,
           LookForSensor(found, t, errors), actor' = "up"
    PROVE  /\ registered_actors' \subseteq Types /\ counted' \in [Types -> Int]
           /\ timers' \in [sensor_wait : Nat, measurement : Nat] /\ exiting' \in Nat
           /\ RegistrationExact' /\ OneLoop' /\ AbsentIsSilent'
<1>1. CASE found
  <2>1. registered_actors' = Types
    BY <1>1 DEF LookForSensor, register_unmanaged_actor, SensorInv, SensorTypes
  <2>2. counted' = [x \in Types |-> IF x \in Types \ registered_actors THEN counted[x] + 1
                                    ELSE counted[x]]
    BY <1>1 DEF LookForSensor, register_unmanaged_actor
  <2>0. timers' = [t EXCEPT !["measurement"] = @ + 1] /\ exiting' = exiting + errors
    BY <1>1 DEF LookForSensor, Wake
  <2>3. \A x \in Types : counted'[x] = 1
    BY <2>2 DEF SensorInv, SensorTypes, RegistrationExact, AbsentIsSilent
  <2>4. /\ timers'.sensor_wait = 0 /\ timers'.measurement = 1
        /\ timers' \in [sensor_wait : Nat, measurement : Nat]
    BY <2>0
  <2>5. counted' \in [Types -> Int] /\ RegistrationExact'
    BY <2>1, <2>2, <2>3 DEF SensorInv, SensorTypes, RegistrationExact
  <2>6. OneLoop'
    BY <2>4 DEF OneLoop
  <2>7. exiting' \in Nat
    BY <2>0 DEF SensorInv, SensorTypes
  <2> QED
    BY <2>1, <2>4, <2>5, <2>6, <2>7 DEF AbsentIsSilent
<1>2. CASE ~found
  <2>1. UNCHANGED <<registered_actors, counted>>
    BY <1>2 DEF LookForSensor
  <2>2. \/ timers' = [t EXCEPT !["sensor_wait"] = @ + 1] /\ exiting' = exiting + errors
        \/ timers' = t /\ exiting' = exiting + errors + 1
    BY <1>2 DEF LookForSensor, Wake
  <2>3. RegistrationExact'
    BY <2>1 DEF SensorInv, SensorTypes, RegistrationExact, AbsentIsSilent
  <2>4. /\ timers' \in [sensor_wait : Nat, measurement : Nat] /\ exiting' \in Nat /\ OneLoop'
    BY <2>2 DEF SensorInv, SensorTypes, OneLoop
  <2> QED
    BY <2>1, <2>3, <2>4 DEF SensorInv, SensorTypes, AbsentIsSilent
<1> QED
  BY <1>1, <1>2

\* Every step keeps the invariant.
LEMMA SensorStep ==
    ASSUME SensorInv, [SNext]_svars
    PROVE  SensorInv'
<1>0. Offset \subseteq Nat \ {0}
  BY SensorAssumption
<1>1. ASSUME NEW temp \in {"found", "not_found", "error"}, NEW co2 \in {"found", "not_found", "error"},
             NEW found \in BOOLEAN, NEW reset \in BOOLEAN, ReceiveInit(temp, co2, found, reset)
      PROVE  SensorInv'
  <2> DEFINE errors == (IF temp = "error" THEN 1 ELSE 0) + (IF co2 = "error" THEN 1 ELSE 0)
  <2>1. /\ actor = "spawned" /\ actor' = "up" /\ LookForSensor(found, timers, errors)
        /\ errors \in Nat
    BY <1>1 DEF ReceiveInit
  <2>2. timers \in [sensor_wait : Nat, measurement : Nat] /\ timers.sensor_wait + timers.measurement = 0
    BY <2>1 DEF SensorInv, SensorTypes, AbsentIsSilent
  <2>3. /\ registered_actors' \subseteq Types /\ counted' \in [Types -> Int]
        /\ timers' \in [sensor_wait : Nat, measurement : Nat] /\ exiting' \in Nat
        /\ RegistrationExact' /\ OneLoop' /\ AbsentIsSilent'
    <3> HIDE DEF errors
    <3> QED
      BY <2>1, <2>2, SensorLook
  <2>4. /\ UNCHANGED nvs
        /\ temp \in read_temperature_calibrarion_value /\ co2 \in read_co2_configuration_timestamp
        /\ calibration' = Restored(temp, co2)
        /\ sensor' = IF temp # "found" /\ reset THEN [sensor EXCEPT !.offset = 0] ELSE sensor
        /\ diverged' = (diverged \/ (temp = "error" /\ nvs.temp # None))
    BY <1>1 DEF ReceiveInit
  <2>5. /\ temp = "found" => nvs.temp # None /\ UNCHANGED sensor
        /\ temp # "found" => nvs.temp = None \/ diverged'
        /\ co2 = "found" => nvs.co2
        /\ sensor' \in [offset : Nat, frc : BOOLEAN] /\ sensor'.frc = sensor.frc
        /\ diverged' \in BOOLEAN /\ (diverged => diverged')
    BY <2>4, Zenon DEF read_temperature_calibrarion_value, read_co2_configuration_timestamp, SensorInv,
                SensorTypes
  <2>6. /\ calibration' \in [temp : BOOLEAN, offset : Nat, co2 : BOOLEAN]
        /\ calibration'.temp = (temp = "found") /\ calibration'.co2 = (co2 = "found")
        /\ temp = "found" => calibration'.offset = nvs.temp
    BY <2>4 DEF Restored, SensorInv, SensorTypes
  <2>7. StorageTrue' /\ CalibrationTrue'
    BY <2>4, <2>5, <2>6 DEF SensorInv, StorageTrue, CalibrationTrue
  <2> QED
    BY <2>1, <2>3, <2>4, <2>5, <2>6, <2>7 DEF SensorInv, SensorTypes
<1>2. ASSUME NEW b \in BOOLEAN, SensorWait(b) PROVE SensorInv'
  <2> DEFINE t == Woken("sensor_wait")
  <2>1. /\ actor = "up" /\ actor' = "up" /\ timers.sensor_wait > 0 /\ LookForSensor(b, t, 0)
        /\ UNCHANGED <<calibration, nvs, sensor, diverged>>
    BY <1>2 DEF SensorWait, durable
  <2>2. t \in [sensor_wait : Nat, measurement : Nat] /\ t.sensor_wait + t.measurement = 0
    BY <2>1 DEF Woken, SensorInv, SensorTypes, OneLoop
  <2>3. /\ registered_actors' \subseteq Types /\ counted' \in [Types -> Int]
        /\ timers' \in [sensor_wait : Nat, measurement : Nat] /\ exiting' \in Nat
        /\ RegistrationExact' /\ OneLoop' /\ AbsentIsSilent'
    <3> HIDE DEF t
    <3> QED
      BY <2>1, <2>2, SensorLook
  <2> QED
    BY <2>1, <2>3 DEF SensorInv, SensorTypes, StorageTrue, CalibrationTrue
<1>3. ASSUME NEW b \in BOOLEAN, Measure(b) PROVE SensorInv'
  <2>1. /\ actor = "up" /\ timers.measurement > 0
        /\ timers' = [[timers EXCEPT !["measurement"] = @ - 1] EXCEPT !["measurement"] = @ + 1]
        /\ UNCHANGED <<actor, registered_actors, counted, calibration, exiting, nvs, sensor, diverged>>
    BY <1>3 DEF Measure, fetch_send_updates, Wake, Woken, durable
  <2>2. timers' = timers
    BY <2>1 DEF SensorInv, SensorTypes
  <2> QED
    BY <2>1, <2>2 DEF SensorInv, SensorTypes, AbsentIsSilent, StorageTrue, RegistrationExact, OneLoop,
                      CalibrationTrue
<1>4. ASSUME NEW v \in Offset, NEW set \in BOOLEAN, NEW written \in BOOLEAN, Calibrate(v, set, written)
      PROVE  SensorInv'
  <2>1. /\ calibration' = [calibration EXCEPT !.temp = TRUE, !.offset = v]
        /\ sensor' = IF set THEN [sensor EXCEPT !.offset = v] ELSE sensor
        /\ nvs' = IF written THEN [nvs EXCEPT !.temp = v] ELSE nvs
        /\ diverged' = (~set \/ (~written /\ nvs.temp \notin {None, v}))
        /\ UNCHANGED <<actor, registered_actors, counted, timers, exiting>>
    BY <1>4 DEF Calibrate, calibrate_temperature
  <2>2. /\ calibration' \in [temp : BOOLEAN, offset : Nat, co2 : BOOLEAN]
        /\ sensor' \in [offset : Nat, frc : BOOLEAN] /\ nvs' \in [temp : Nat, co2 : BOOLEAN]
        /\ diverged' \in BOOLEAN
    BY <1>0, <2>1, Zenon DEF SensorInv, SensorTypes
  <2>3. /\ calibration'.offset = v /\ calibration'.co2 = calibration.co2
        /\ set => sensor'.offset = v
        /\ sensor'.frc = sensor.frc /\ nvs'.co2 = nvs.co2
        /\ nvs'.temp = IF written THEN v ELSE nvs.temp
    BY <1>0, <2>1 DEF SensorInv, SensorTypes
  <2>4. StorageTrue' /\ CalibrationTrue'
    BY <2>1, <2>3, Zenon DEF SensorInv, StorageTrue, CalibrationTrue
  <2> QED
    BY <2>1, <2>2, <2>4 DEF SensorInv, SensorTypes, AbsentIsSilent, RegistrationExact, OneLoop
<1>5. ASSUME NEW v \in Offset, PowerLoss(v) PROVE SensorInv'
  <2>1. /\ Reboot /\ UNCHANGED nvs /\ sensor' = [sensor EXCEPT !.offset = v]
        /\ diverged' = (nvs.temp \notin {None, v})
    BY <1>5 DEF PowerLoss
  <2>2. /\ sensor' \in [offset : Nat, frc : BOOLEAN] /\ diverged' \in BOOLEAN
        /\ sensor'.offset = v /\ sensor'.frc = sensor.frc
    BY <1>0, <2>1 DEF SensorInv, SensorTypes
  <2>3. StorageTrue'
    BY <2>1, <2>2, Zenon DEF SensorInv, StorageTrue
  <2> QED
    BY <2>1, <2>2, <2>3, SensorFresh DEF SensorInv
<1>6. ASSUME NEW done \in BOOLEAN, NEW written \in BOOLEAN, co2_forced_calibration(done, written)
      PROVE  SensorInv'
  <2>1. /\ calibration' = [calibration EXCEPT !.co2 = TRUE] /\ sensor' = [sensor EXCEPT !.frc = TRUE]
        /\ nvs' = IF written THEN [nvs EXCEPT !.co2 = TRUE] ELSE nvs
        /\ UNCHANGED <<actor, registered_actors, counted, timers, exiting, diverged>>
    BY <1>6 DEF co2_forced_calibration
  <2>2. /\ calibration' \in [temp : BOOLEAN, offset : Nat, co2 : BOOLEAN]
        /\ sensor' \in [offset : Nat, frc : BOOLEAN] /\ nvs' \in [temp : Nat, co2 : BOOLEAN]
    BY <2>1, Zenon DEF SensorInv, SensorTypes
  <2>3. /\ sensor'.frc /\ sensor'.offset = sensor.offset /\ nvs'.temp = nvs.temp
        /\ calibration'.temp = calibration.temp /\ calibration'.offset = calibration.offset
    BY <2>1 DEF SensorInv, SensorTypes
  <2>4. StorageTrue' /\ CalibrationTrue'
    BY <2>1, <2>3 DEF SensorInv, StorageTrue, CalibrationTrue
  <2> QED
    BY <2>1, <2>2, <2>4 DEF SensorInv, SensorTypes, AbsentIsSilent, RegistrationExact, OneLoop
<1>7. CASE ReceiveExit
  <2>1. /\ actor = "up" /\ actor' = "gone" /\ registered_actors' = {} /\ exiting' = 0
        /\ counted' = [t \in Types |-> IF t \in registered_actors THEN counted[t] - 1 ELSE counted[t]]
        /\ timers' = [sensor_wait |-> 0, measurement |-> 0]
        /\ UNCHANGED <<calibration, nvs, sensor, diverged>>
    BY <1>7 DEF ReceiveExit, Leave, deregister_managed_actor, durable
  <2>2. counted' \in [Types -> Int] /\ RegistrationExact'
    BY <2>1 DEF SensorInv, SensorTypes, RegistrationExact
  <2>3. timers' \in [sensor_wait : Nat, measurement : Nat] /\ OneLoop' /\ AbsentIsSilent'
    BY <2>1 DEF OneLoop, AbsentIsSilent
  <2> QED
    BY <2>1, <2>2, <2>3 DEF SensorInv, SensorTypes, StorageTrue, CalibrationTrue
<1>8. CASE Reboot /\ UNCHANGED <<nvs, sensor, diverged>>
  BY <1>8, SensorFresh DEF SensorInv, SensorTypes, StorageTrue
<1>9. CASE WarmUp \/ UNCHANGED svars
  BY <1>9 DEF WarmUp, svars, durable, SensorInv, SensorTypes, AbsentIsSilent, StorageTrue,
              RegistrationExact, OneLoop, CalibrationTrue
<1> QED
  BY <1>1, <1>2, <1>3, <1>4, <1>5, <1>6, <1>7, <1>8, <1>9 DEF SNext

\* The invariant holds in every reachable state.
LEMMA SensorInvariant == SSpec => []SensorInv
<1>1. SInit => SensorInv
  <2> SUFFICES ASSUME SInit PROVE SensorInv
    OBVIOUS
  <2>1. /\ actor = "spawned" /\ exiting = 0 /\ registered_actors = {} /\ counted = [t \in Types |-> 0]
        /\ timers = [sensor_wait |-> 0, measurement |-> 0]
        /\ calibration = [temp |-> FALSE, offset |-> 0, co2 |-> FALSE]
        /\ nvs = [temp |-> 0, co2 |-> FALSE] /\ sensor = [offset |-> 0, frc |-> FALSE]
        /\ diverged = FALSE
    BY DEF SInit, Fresh, None
  <2>2. SensorTypes
    <3>1. calibration \in [temp : BOOLEAN, offset : Nat, co2 : BOOLEAN]
      BY <2>1
    <3>2. nvs \in [temp : Nat, co2 : BOOLEAN] /\ sensor \in [offset : Nat, frc : BOOLEAN]
      BY <2>1
    <3>3. timers \in [sensor_wait : Nat, measurement : Nat] /\ counted \in [Types -> Int]
      BY <2>1
    <3> QED
      BY <2>1, <3>1, <3>2, <3>3, Zenon DEF SensorTypes
  <2>3. AbsentIsSilent /\ RegistrationExact
    BY <2>1 DEF AbsentIsSilent, RegistrationExact
  <2>4. OneLoop
    BY <2>1 DEF OneLoop
  <2>5. StorageTrue /\ CalibrationTrue
    BY <2>1 DEF StorageTrue, CalibrationTrue, None
  <2> QED
    BY <2>2, <2>3, <2>4, <2>5 DEF SensorInv
<1>2. SensorInv /\ [SNext]_svars => SensorInv'
  BY SensorStep
<1> QED
  BY <1>1, <1>2, PTL DEF SSpec

\* The deployment manager counts what the sensor actor measures once while the actor is
\* there, and not at all after its exit handler and its destructor have both run.
THEOREM RegistrationsBalance == SSpec => []RegistrationExact
<1>1. SensorInv => RegistrationExact
  BY DEF SensorInv
<1> QED
  BY <1>1, SensorInvariant, PTL

\* What the sensor actor says of its calibration is true of the sensor, across any
\* number of restarts, for CO2 whatever fails, and for the temperature unless a fault has
\* parted the storage from the sensor: the sensor did not take the offset, the write of
\* it failed or the power went before it while another one was stored, or the storage
\* could not be read at the start.  A write that fails or a power loss while none was
\* stored does no harm.
THEOREM CalibrationIsTrue == SSpec => []CalibrationTrue
<1>1. SensorInv => CalibrationTrue
  BY DEF SensorInv
<1> QED
  BY <1>1, SensorInvariant, PTL

\* The wakeups of the sensor actor are one chain: no two measurement loops run, and the
\* chain ends only with the actor.
THEOREM WakeupsAreOneChain == SSpec => []OneLoop
<1>1. SensorInv => OneLoop
  BY DEF SensorInv
<1> QED
  BY <1>1, SensorInvariant, PTL

(***************************************************************************)
(* The ingress ends no response twice.                                     *)
(***************************************************************************)
\* The inductive invariant: a request that is active has arrived and has not been
\* ended, so that whoever ends it takes it from the active ones.
HttpInv ==
    /\ ended \in [HttpRequest -> Nat] /\ active_requests \subseteq HttpRequest
    /\ progress \in [HttpRequest -> {"none", "open", "received", "late", "aborted"}]
    /\ \A r \in active_requests : ended[r] = 0 /\ progress[r] \notin {"none", "aborted"}
    /\ EndedOnce

\* Steps that leave the responses and the active requests alone, or forget some.
LEMMA HttpForget ==
    ASSUME HttpInv, active_requests' \subseteq active_requests, UNCHANGED <<ended, misanswered>>,
           \/ UNCHANGED progress
           \/ \E r \in HttpRequest, s \in {"open", "received", "late"} :
                  progress' = [progress EXCEPT ![r] = s]
           \/ \E r \in HttpRequest : /\ progress' = [progress EXCEPT ![r] = "aborted"]
                                     /\ ended[r] = 0 /\ r \notin active_requests'
    PROVE  HttpInv'
  BY DEF HttpInv, EndedOnce

\* Every step keeps the invariant.
LEMMA HttpStep ==
    ASSUME HttpInv, [HNext]_hvars
    PROVE  HttpInv'
<1>1. CASE SubscribeUpdates \/ ReceiveUpdate \/ stop_server \/ UNCHANGED hvars
  BY <1>1, HttpForget DEF SubscribeUpdates, ReceiveUpdate, stop_server, hvars, reqs_side
<1>2. ASSUME NEW f \in HFilter, NEW s \in Subscriber,
             SubscribeHandler(f, s) \/ UnsubscribeHandler(f, s)
      PROVE  HttpInv'
  BY <1>2, HttpForget, SMTT(30) DEF SubscribeHandler, UnsubscribeHandler, reqs_side
<1>3. ASSUME NEW r \in HttpRequest, handle_data(r) \/ Aborted(r) \/ Age(r) PROVE HttpInv'
  BY <1>3, HttpForget DEF handle_data, Aborted, Age
<1>4. CASE Wakeup
  BY <1>4 DEF Wakeup, periodic_cleanup, HttpInv, EndedOnce
<1>5. ASSUME NEW r \in HttpRequest, handle_request(r) PROVE HttpInv'
  <2>1. CASE matches_active_subscription(r)
    <3>1. /\ ended[r] = 0 /\ active_requests' = active_requests \cup {r}
          /\ progress' = [progress EXCEPT ![r] = "open"]
          /\ UNCHANGED <<ended, misanswered>>
      BY <1>5, <2>1 DEF handle_request
    <3> QED
      BY <3>1 DEF HttpInv, EndedOnce
  <2>2. CASE ~matches_active_subscription(r)
    <3>1. /\ progress[r] = "none" /\ ended' = [ended EXCEPT ![r] = 1]
          /\ UNCHANGED <<active_requests, progress, misanswered>>
      BY <1>5, <2>2 DEF handle_request
    <3>2. r \notin active_requests
      BY <3>1 DEF HttpInv
    <3> QED
      BY <3>1, <3>2 DEF HttpInv, EndedOnce
  <2> QED
    BY <2>1, <2>2
<1>6. ASSUME NEW r \in HttpRequest, NEW headers \in 0 .. 2, ReceiveAnswer(r, headers)
      PROVE  HttpInv'
  <2>1. CASE r \in active_requests
    BY <1>6, <2>1 DEF ReceiveAnswer, handle_http_response, HttpInv, EndedOnce
  <2>2. CASE r \notin active_requests
    BY <1>6, <2>2, HttpForget DEF ReceiveAnswer, handle_http_response
  <2> QED
    BY <2>1, <2>2
<1> QED
  BY <1>1, <1>2, <1>3, <1>4, <1>5, <1>6, SMTT(30) DEF HNext

\* No response is ended twice by answers, refusals and the cleanup (http_ingress.cpp),
\* an answer with several headers apart, and none whose client is gone is ended at all.
THEOREM ResponsesEndOnce == HSpec => []EndedOnce
<1>1. HInit(MaxAnswers, MaxChanges) => HttpInv
  BY DEF HInit, HttpInv, EndedOnce
<1>2. HttpInv /\ [HNext]_hvars => HttpInv'
  BY HttpStep
<1>3. HttpInv => EndedOnce
  BY DEF HttpInv
<1> QED
  BY <1>1, <1>2, <1>3, PTL DEF HSpec

(***************************************************************************)
(* The ingress knows which requests somebody subscribes to.                *)
(***************************************************************************)
Announcement == {"added", "removed"} \X HFilter

\* The filters with the identifier i that this node subscribes to.
HandledAs(i) == {f \in HFilter : Identifier(f) = i /\ Handled(f)}

\* An announcement says what changed between the subscriptions with the identifier i
\* before and after it.
Says(m, before, after, i) ==
    \E f \in HFilter :
        \/ m[2] = f /\ Identifier(f) # i /\ after = before
        \/ m = <<"added", f>> /\ Identifier(f) = i /\ f \notin before /\ after = before \cup {f}
        \/ m = <<"removed", f>> /\ Identifier(f) = i /\ f \in before /\ after = before \ {f}

\* h[k] are the subscriptions there were after the first k announcements of the inbox,
\* h[0] those that the table counts.
Explains(h, i) ==
    /\ h[Len(hinbox)] = HandledAs(i)
    /\ \A k \in 1 .. Len(hinbox) : Says(hinbox[k], h[k - 1], h[k], i)
    /\ active_subscriptions[i] = Cardinality(h[0])

Explained(i) == \E h \in [0 .. Len(hinbox) -> SUBSET HFilter] : Explains(h, i)

\* The inductive invariant: for every identifier whose announcements tell what changes,
\* the inbox leads from the subscriptions in the table to those there are.
TableInv ==
    /\ subscribed \in [HFilter -> SUBSET Subscriber] /\ setup \in 0 .. 2
    /\ hinbox \in Seq(Announcement) /\ active_subscriptions \in [Ident -> Nat]
    /\ setup = 0 => hinbox = <<>> /\ \A i \in Ident : active_subscriptions[i] = 0
    /\ setup > 0 => \A i \in Ident \ missed : Explained(i)

\* What is announced at the end of the inbox is explained, too.
LEMMA TableAppend ==
    ASSUME TableInv, NEW m \in Announcement, hinbox' = Append(hinbox, m),
           UNCHANGED active_subscriptions, NEW i \in Ident, Explained(i),
           Says(m, HandledAs(i), HandledAs(i)', i)
    PROVE  Explained(i)'
<1>1. /\ hinbox \in Seq(Announcement) /\ hinbox' \in Seq(Announcement)
      /\ Len(hinbox) \in Nat /\ Len(hinbox') = Len(hinbox) + 1
      /\ \A k \in 1 .. Len(hinbox) : hinbox'[k] = hinbox[k]
      /\ hinbox'[Len(hinbox) + 1] = m
  BY AppendProperties, LenProperties DEF TableInv
<1>2. PICK h \in [0 .. Len(hinbox) -> SUBSET HFilter] : Explains(h, i)
  BY DEF Explained
<1> DEFINE g == [k \in 0 .. Len(hinbox') |-> IF k = Len(hinbox') THEN HandledAs(i)' ELSE h[k]]
<1>3. g \in [0 .. Len(hinbox') -> SUBSET HFilter]
  BY <1>1 DEF HandledAs
<1>4. g[Len(hinbox')] = HandledAs(i)' /\ g[0] = h[0] /\ \A k \in 0 .. Len(hinbox) : g[k] = h[k]
  BY <1>1
<1> HIDE DEF g
<1>5. ASSUME NEW k \in 1 .. Len(hinbox') PROVE Says(hinbox'[k], g[k - 1], g[k], i)
  <2>1. CASE k = Len(hinbox')
    <3>1. k - 1 = Len(hinbox) /\ Len(hinbox) \in 0 .. Len(hinbox)
      BY <1>1, <2>1, SMTT(30)
    <3>2. g[k - 1] = HandledAs(i) /\ g[k] = HandledAs(i)' /\ hinbox'[k] = m
      BY <1>1, <1>2, <1>4, <2>1, <3>1, SMTT(30) DEF Explains
    <3> QED
      BY <3>2
  <2>2. CASE k # Len(hinbox')
    <3>1. k \in 1 .. Len(hinbox) /\ k \in 0 .. Len(hinbox) /\ k - 1 \in 0 .. Len(hinbox)
      BY <1>1, <2>2, SMTT(30)
    <3> QED
      BY <1>1, <1>2, <1>4, <3>1, SMTT(30) DEF Explains
  <2> QED
    BY <2>1, <2>2
<1>6. active_subscriptions'[i] = Cardinality(g[0])
  BY <1>2, <1>4 DEF Explains
<1> QED
  BY <1>3, <1>4, <1>5, <1>6, Zenon DEF Explains, Explained

\* The table follows an announcement of what it counts.
LEMMA TableCounts ==
    ASSUME NEW f \in HFilter, NEW i \in Ident, NEW B \in SUBSET HFilter, NEW A,
           active_subscriptions \in [Ident -> Nat], active_subscriptions[i] = Cardinality(B)
    PROVE  /\ Says(<<"added", f>>, B, A, i) =>
                 handle_subscription_added(Identifier(f))[i] = Cardinality(A)
           /\ Says(<<"removed", f>>, B, A, i) =>
                 handle_subscription_removed(Identifier(f))[i] = Cardinality(A)
<1>1. IsFiniteSet(B) /\ Identifier(f) \in Ident
  BY HttpAssumption, FS_Subset DEF Ident
<1>2. /\ Cardinality(B) \in Nat
      /\ f \notin B => Cardinality(B \cup {f}) = Cardinality(B) + 1
      /\ f \in B => Cardinality(B \ {f}) = Cardinality(B) - 1 /\ Cardinality(B) # 0
  BY <1>1, FS_AddElement, FS_RemoveElement, FS_CardinalityType, FS_EmptySet
<1>3. /\ Says(<<"added", f>>, B, A, i) =>
            IF Identifier(f) = i THEN f \notin B /\ A = B \cup {f} ELSE A = B
      /\ Says(<<"removed", f>>, B, A, i) =>
            IF Identifier(f) = i THEN f \in B /\ A = B \ {f} ELSE A = B
  BY DEF Says
<1>4. /\ handle_subscription_added(Identifier(f))[i] =
            IF Identifier(f) = i THEN active_subscriptions[i] + 1 ELSE active_subscriptions[i]
      /\ handle_subscription_removed(Identifier(f))[i] =
            IF Identifier(f) = i
            THEN IF active_subscriptions[i] <= 1 THEN 0 ELSE active_subscriptions[i] - 1
            ELSE active_subscriptions[i]
  BY <1>1 DEF handle_subscription_added, handle_subscription_removed
<1>5. ASSUME Says(<<"added", f>>, B, A, i)
      PROVE  handle_subscription_added(Identifier(f))[i] = Cardinality(A)
  <2>1. CASE Identifier(f) = i
    BY <1>2, <1>3, <1>4, <1>5, <2>1
  <2>2. CASE Identifier(f) # i
    BY <1>3, <1>4, <1>5, <2>2
  <2> QED
    BY <2>1, <2>2
<1>6. ASSUME Says(<<"removed", f>>, B, A, i)
      PROVE  handle_subscription_removed(Identifier(f))[i] = Cardinality(A)
  <2>1. CASE Identifier(f) = i
    <3>1. A = B \ {f} /\ Cardinality(A) = Cardinality(B) - 1 /\ Cardinality(B) # 0
      BY <1>2, <1>3, <1>6, <2>1
    <3> QED
      BY <1>2, <1>4, <2>1, <3>1
  <2>2. CASE Identifier(f) # i
    BY <1>3, <1>4, <1>6, <2>2
  <2> QED
    BY <2>1, <2>2
<1> QED
  BY <1>5, <1>6, Zenon

\* The first announcement of the inbox brings the table one step further.
LEMMA TableReceive ==
    ASSUME TableInv, ReceiveUpdate
    PROVE  TableInv'
<1>1. /\ hinbox \in Seq(Announcement) /\ hinbox # <<>> /\ hinbox' = Tail(hinbox)
      /\ setup = 2 /\ UNCHANGED <<subscribed, setup, missed>>
  BY DEF TableInv, ReceiveUpdate
<1>2. /\ hinbox' \in Seq(Announcement) /\ Len(hinbox) \in Nat /\ Len(hinbox) > 0
      /\ Len(hinbox') = Len(hinbox) - 1 /\ Head(hinbox) = hinbox[1]
      /\ \A k \in 1 .. Len(hinbox') : hinbox'[k] = hinbox[k + 1]
  BY <1>1, HeadTailProperties, LenProperties, EmptySeq
<1>3. Head(hinbox) \in Announcement
  BY <1>1, HeadTailProperties
<1>4. PICK f \in HFilter : Head(hinbox) \in {<<"added", f>>, <<"removed", f>>}
  BY <1>3 DEF Announcement
<1>5. /\ Head(hinbox) = <<"added", f>> => active_subscriptions' = handle_subscription_added(Identifier(f))
      /\ Head(hinbox) = <<"removed", f>>
            => active_subscriptions' = handle_subscription_removed(Identifier(f))
  BY <1>4 DEF ReceiveUpdate
<1>6. Identifier(f) \in Ident
  BY DEF Ident
<1>7. active_subscriptions' \in [Ident -> Nat]
  <2>1. active_subscriptions \in [Ident -> Nat]
    BY DEF TableInv
  <2>2. \A i \in Ident : active_subscriptions[i] + 1 \in Nat
        /\ (IF active_subscriptions[i] <= 1 THEN 0 ELSE active_subscriptions[i] - 1) \in Nat
    BY <2>1
  <2>3. handle_subscription_added(Identifier(f)) \in [Ident -> Nat]
    BY <1>6, <2>1, <2>2 DEF handle_subscription_added
  <2>4. handle_subscription_removed(Identifier(f)) \in [Ident -> Nat]
    BY <1>6, <2>1, <2>2 DEF handle_subscription_removed
  <2> QED
    BY <1>4, <1>5, <2>3, <2>4
<1>8. ASSUME NEW i \in Ident \ missed PROVE Explained(i)'
  <2>1. PICK h \in [0 .. Len(hinbox) -> SUBSET HFilter] : Explains(h, i)
    BY <1>1, SMTT(30) DEF TableInv, Explained
  <2> DEFINE g == [k \in 0 .. Len(hinbox') |-> h[k + 1]]
  <2>2. /\ g \in [0 .. Len(hinbox') -> SUBSET HFilter] /\ g[0] = h[1]
        /\ \A k \in 0 .. Len(hinbox') : g[k] = h[k + 1]
    BY <1>2
  <2> HIDE DEF g
  <2>3. HandledAs(i)' = HandledAs(i)
    BY <1>1 DEF HandledAs, Handled
  <2>4. g[Len(hinbox')] = HandledAs(i)'
    BY <1>2, <2>1, <2>2, <2>3, SMTT(30) DEF Explains
  <2>5. ASSUME NEW k \in 1 .. Len(hinbox') PROVE Says(hinbox'[k], g[k - 1], g[k], i)
    <3>1. k + 1 \in 1 .. Len(hinbox) /\ g[k] = h[k + 1] /\ g[k - 1] = h[k] /\ (k + 1) - 1 = k
      BY <1>2, <2>2
    <3> QED
      BY <1>2, <2>1, <3>1 DEF Explains
  <2>6. Says(Head(hinbox), h[0], h[1], i) /\ h[0] \in SUBSET HFilter
    BY <1>2, <2>1, SMTT(30) DEF Explains
  <2>7. active_subscriptions'[i] = Cardinality(h[1])
    <3> DEFINE B == h[0]
               A == h[1]
    <3>1. /\ active_subscriptions \in [Ident -> Nat] /\ active_subscriptions[i] = Cardinality(B)
          /\ B \in SUBSET HFilter /\ Says(Head(hinbox), B, A, i) /\ i \in Ident
      BY <2>1, <2>6 DEF TableInv, Explains
    <3> HIDE DEF A, B
    <3>2. CASE Head(hinbox) = <<"added", f>>
      <4>1. Says(<<"added", f>>, B, A, i)
        BY <3>1, <3>2
      <4>2. handle_subscription_added(Identifier(f))[i] = Cardinality(A)
        BY <3>1, <4>1, TableCounts, ZenonT(30)
      <4> QED
        BY <1>5, <3>2, <4>2, Zenon DEF A
    <3>3. CASE Head(hinbox) = <<"removed", f>>
      <4>1. Says(<<"removed", f>>, B, A, i)
        BY <3>1, <3>3
      <4>2. handle_subscription_removed(Identifier(f))[i] = Cardinality(A)
        BY <3>1, <4>1, TableCounts, ZenonT(30)
      <4> QED
        BY <1>5, <3>3, <4>2, Zenon DEF A
    <3> QED
      BY <1>4, <3>2, <3>3
  <2> QED
    BY <2>2, <2>4, <2>5, <2>7, Zenon DEF Explains, Explained
<1> QED
  BY <1>1, <1>2, <1>7, <1>8 DEF TableInv

\* The first of the actor's own subscriptions fetches those there are, in some order.
\* What is listed for other nodes only spoils its identifier.
LEMMA TableFetch ==
    ASSUME TableInv, setup = 0, SubscribeUpdates
    PROVE  TableInv'
<1> DEFINE N == Cardinality(Listed)
<1>1. IsFiniteSet(Listed) /\ N \in Nat /\ Listed \subseteq HFilter
  BY HttpAssumption, FS_Subset, FS_CardinalityType DEF Listed
<1>2. PICK s \in [1 .. N -> Listed] :
          /\ \A i, j \in 1 .. N : s[i] = s[j] => i = j
          /\ hinbox' = [i \in 1 .. N |-> <<"added", s[i]>>]
  BY Zenon DEF SubscribeUpdates
<1>3. /\ UNCHANGED <<subscribed, active_subscriptions>> /\ setup' = 1
      /\ missed' = {Identifier(f) : f \in {g \in Listed : ~Handled(g)}}
  BY DEF SubscribeUpdates
<1>4. active_subscriptions \in [Ident -> Nat] /\ \A i \in Ident : active_subscriptions[i] = 0
  BY DEF TableInv
<1>5. \A x \in Listed : \E i \in 1 .. N : s[i] = x
  <2>1. IsFiniteSet(1 .. N) /\ Cardinality(1 .. N) = N
    BY <1>1, FS_Interval
  <2>2. s \in Injection(1 .. N, Listed)
    BY <1>2 DEF Injection, IsInjective
  <2>3. s \in Surjection(1 .. N, Listed)
    BY <1>1, <2>1, <2>2, FS_Injection
  <2> QED
    BY <2>3 DEF Surjection
<1> HIDE DEF N
<1>6. hinbox' \in Seq(Announcement) /\ Len(hinbox') = N
      /\ \A i \in 1 .. N : hinbox'[i] = <<"added", s[i]>>
  <2>1. \A i \in 1 .. N : <<"added", s[i]>> \in Announcement
    BY <1>1, <1>2 DEF Announcement
  <2>2. hinbox' \in [1 .. N -> Announcement]
    BY <1>2, <2>1
  <2> QED
    BY <1>1, <1>2, <2>2, IsASeq, LenProperties
<1>7. ASSUME NEW i \in Ident \ missed' PROVE Explained(i)'
  <2> DEFINE h == [k \in 0 .. N |-> {f \in HFilter : Identifier(f) = i /\ \E j \in 1 .. k : s[j] = f}]
  <2>1. h \in [0 .. N -> SUBSET HFilter]
    OBVIOUS
  <2>2. \A f \in HFilter : Identifier(f) = i => (f \in Listed <=> Handled(f))
    BY <1>3 DEF Listed, Handled
  <2>3. HandledAs(i)' = {f \in HFilter : Identifier(f) = i /\ f \in Listed}
    BY <1>3, <2>2, Zenon DEF HandledAs, Handled
  <2>4. h[N] = HandledAs(i)'
    <3>1. N \in 0 .. N
      BY <1>1
    <3>2. \A f \in HFilter : f \in Listed <=> \E j \in 1 .. N : s[j] = f
      BY <1>2, <1>5
    <3> QED
      BY <2>3, <3>1, <3>2
  <2>5. ASSUME NEW k \in 1 .. N PROVE Says(hinbox'[k], h[k - 1], h[k], i)
    <3>1. hinbox'[k] = <<"added", s[k]>> /\ s[k] \in HFilter
      BY <1>1, <1>2, <1>6
    <3>2. /\ k - 1 \in 0 .. N /\ k \in 0 .. N /\ k \in 1 .. k
          /\ \A j : j \in 1 .. k <=> (j \in 1 .. k - 1 \/ j = k)
      BY <1>1
    <3>3. s[k] \notin h[k - 1]
      <4>1. \A j \in 1 .. k - 1 : j \in 1 .. N /\ j # k
        BY <1>1
      <4> QED
        BY <1>2, <3>2, <4>1
    <3>4. h[k] = IF Identifier(s[k]) = i THEN h[k - 1] \cup {s[k]} ELSE h[k - 1]
      BY <3>1, <3>2
    <3> HIDE DEF h
    <3> QED
      BY <3>1, <3>3, <3>4 DEF Says
  <2>6. active_subscriptions'[i] = Cardinality(h[0])
    <3>1. h[0] = {}
      BY <1>1
    <3> QED
      BY <1>3, <1>4, <3>1, FS_EmptySet
  <2> HIDE DEF h
  <2> QED
    BY <1>6, <2>1, <2>4, <2>5, <2>6, Zenon DEF Explains, Explained
<1> QED
  BY <1>3, <1>4, <1>6, <1>7 DEF TableInv

\* What happens to the subscription for a filter changes nothing for other identifiers,
\* and for its own only if this node begins or ends to subscribe.
LEMMA TableChange ==
    ASSUME TableInv, NEW f \in HFilter, NEW S \in SUBSET Subscriber,
           subscribed' = [subscribed EXCEPT ![f] = S],
           UNCHANGED <<setup, active_subscriptions>>,
           NEW heard \in BOOLEAN, NEW what \in {"added", "removed"}, Hears(heard, what, f),
           heard => setup > 0,
           Misses(heard, Handled(f)' # Handled(f), f),
           Handled(f)' # Handled(f) => Handled(f)' = (what = "added")
    PROVE  TableInv'
<1>1. /\ subscribed' \in [HFilter -> SUBSET Subscriber] /\ subscribed'[f] = S
      /\ \A g \in HFilter : g # f => Handled(g)' = Handled(g)
  BY DEF TableInv, Handled
<1>2. <<what, f>> \in Announcement /\ hinbox' \in Seq(Announcement)
  BY AppendProperties DEF TableInv, Announcement, Hears
<1>3. CASE setup = 0
  BY <1>1, <1>2, <1>3 DEF TableInv, Hears
<1>4. CASE setup # 0
  <2>1. setup > 0 /\ setup >= 1
    BY <1>4 DEF TableInv
  <2>2. ASSUME NEW i \in Ident \ missed' PROVE Explained(i)'
    <3>1. i \in Ident \ missed /\ (Identifier(f) = i => (heard <=> Handled(f)' # Handled(f)))
      BY <2>1, <2>2 DEF Misses
    <3>2. Explained(i)
      BY <2>1, <3>1 DEF TableInv
    <3>3. HandledAs(i)' = IF Identifier(f) # i \/ Handled(f)' = Handled(f) THEN HandledAs(i)
                          ELSE IF Handled(f)' THEN HandledAs(i) \cup {f} ELSE HandledAs(i) \ {f}
      BY <1>1, Zenon DEF HandledAs
    <3>4. Identifier(f) = i => (f \in HandledAs(i) <=> Handled(f))
      BY DEF HandledAs
    <3>5. CASE heard
      <4>1. Says(<<what, f>>, HandledAs(i), HandledAs(i)', i)
        BY <3>1, <3>3, <3>4, <3>5 DEF Says
      <4>2. hinbox' = Append(hinbox, <<what, f>>)
        BY <3>5 DEF Hears
      <4> QED
        BY <1>2, <3>1, <3>2, <4>1, <4>2, TableAppend, Zenon
    <3>6. CASE ~heard
      <4>1. HandledAs(i)' = HandledAs(i) /\ hinbox' = hinbox
        BY <3>1, <3>3, <3>6 DEF Hears
      <4> QED
        BY <3>2, <4>1 DEF Explained, Explains
    <3> QED
      BY <3>5, <3>6
  <2> QED
    BY <1>1, <1>2, <1>4, <2>2 DEF TableInv
<1> QED
  BY <1>3, <1>4

\* Every step keeps the invariant.
LEMMA TableStep ==
    ASSUME TableInv, [HNext]_hvars
    PROVE  TableInv'
<1>1. ASSUME UNCHANGED subs_side PROVE TableInv'
  BY <1>1 DEF subs_side, TableInv, Explained, Explains, HandledAs, Handled
<1>2. CASE Wakeup \/ stop_server \/ UNCHANGED hvars
  BY <1>1, <1>2 DEF Wakeup, stop_server, hvars, subs_side
<1>3. ASSUME NEW r \in HttpRequest,
             \/ handle_request(r) \/ handle_data(r) \/ Aborted(r) \/ Age(r)
             \/ \E headers \in 0 .. 2 : ReceiveAnswer(r, headers)
      PROVE  TableInv'
  BY <1>1, <1>3 DEF handle_request, handle_data, Aborted, Age, ReceiveAnswer
<1>4. CASE SubscribeUpdates
  <2>1. CASE setup = 0
    BY <1>4, <2>1, TableFetch, SMTT(30)
  <2>2. CASE setup # 0
    <3>1. /\ UNCHANGED <<subscribed, hinbox, active_subscriptions, missed>>
          /\ setup' \in 0 .. 2 /\ setup > 0 /\ setup' # 0
      BY <1>4, <2>2 DEF SubscribeUpdates, TableInv
    <3>2. ASSUME NEW i \in Ident PROVE Explained(i)' <=> Explained(i)
      BY <3>1 DEF Explained, Explains, HandledAs, Handled
    <3> QED
      BY <3>1, <3>2 DEF TableInv
  <2> QED
    BY <2>1, <2>2
<1>5. ASSUME NEW f \in HFilter, NEW s \in Subscriber, SubscribeHandler(f, s) PROVE TableInv'
  <2> DEFINE heard == setup >= 1 /\ s \in HLocal
             changed == s \in HLocal /\ ~Handled(f)
             S == subscribed[f] \cup {s}
  <2>1. /\ subscribed' = [subscribed EXCEPT ![f] = S] /\ S \in SUBSET Subscriber
        /\ UNCHANGED <<setup, active_subscriptions>>
        /\ Hears(heard, "added", f) /\ Misses(heard, changed, f)
    BY <1>5 DEF SubscribeHandler, TableInv
  <2>2. heard \in BOOLEAN /\ changed \in BOOLEAN /\ Handled(f) \in BOOLEAN /\ Handled(f)' \in BOOLEAN
        /\ (heard => setup > 0)
    BY DEF Handled, TableInv
  <2>3. Handled(f)' <=> Handled(f) \/ s \in HLocal
    BY <2>1 DEF Handled, TableInv
  <2>4. changed = (Handled(f)' # Handled(f)) /\ (changed => Handled(f)')
    BY <2>2, <2>3, Zenon
  <2> HIDE DEF heard, changed, S
  <2> QED
    BY <2>1, <2>2, <2>4, TableChange, Zenon
<1>6. ASSUME NEW f \in HFilter, NEW s \in Subscriber, UnsubscribeHandler(f, s) PROVE TableInv'
  <2> DEFINE S == subscribed[f] \ {s}
             heard == setup = 2 /\ RemovalAnnounced(S)
             changed == s \in HLocal /\ S \cap HLocal = {}
  <2>1. /\ subscribed' = [subscribed EXCEPT ![f] = S] /\ S \in SUBSET Subscriber
        /\ UNCHANGED <<setup, active_subscriptions>> /\ s \in subscribed[f]
        /\ Hears(heard, "removed", f) /\ Misses(heard, changed, f)
    BY <1>6 DEF UnsubscribeHandler, TableInv
  <2>2. heard \in BOOLEAN /\ changed \in BOOLEAN /\ Handled(f) \in BOOLEAN /\ Handled(f)' \in BOOLEAN
        /\ (heard => setup > 0)
    BY DEF Handled, RemovalAnnounced
  <2>3. /\ Handled(f)' <=> S \cap HLocal # {}
        /\ Handled(f) <=> s \in HLocal \/ S \cap HLocal # {}
    BY <2>1 DEF Handled, TableInv
  <2>4. changed = (Handled(f)' # Handled(f)) /\ (changed => ~Handled(f)')
    BY <2>2, <2>3, Zenon
  <2> HIDE DEF heard, changed, S
  <2> QED
    BY <2>1, <2>2, <2>4, TableChange, Zenon
<1> QED
  BY <1>2, <1>3, <1>4, <1>5, <1>6, TableReceive, SMTT(30) DEF HNext

\* Once the announcements are processed, the table has exactly the identifiers of the
\* filters this node subscribes to, for any filters, receivers and other nodes and any
\* order of subscriptions and announcements, except for identifiers whose announcements
\* by the router (router.cpp) do not tell when the node begins and ends to subscribe.
THEOREM TableFollowsSubscriptions == HSpec => []TableExact
<1>1. HInit(MaxAnswers, MaxChanges) => TableInv
  BY DEF HInit, TableInv
<1>2. TableInv => TableExact
  <2> SUFFICES ASSUME TableInv, setup = 2, hinbox = <<>>, NEW i \in Ident \ missed
               PROVE  active_subscriptions[i] > 0
                          <=> \E f \in HFilter : Identifier(f) = i /\ Handled(f)
    BY DEF TableExact
  <2>1. Len(hinbox) = 0
    OBVIOUS
  <2>2. PICK h \in [0 .. Len(hinbox) -> SUBSET HFilter] : Explains(h, i)
    BY DEF TableInv, Explained
  <2>3. active_subscriptions[i] = Cardinality(HandledAs(i))
    BY <2>1, <2>2 DEF Explains
  <2>4. IsFiniteSet(HandledAs(i))
    BY HttpAssumption, FS_Subset DEF HandledAs
  <2>5. /\ Cardinality(HandledAs(i)) \in Nat
        /\ Cardinality(HandledAs(i)) = 0 <=> HandledAs(i) = {}
    BY <2>4, FS_CardinalityType, FS_EmptySet
  <2>6. HandledAs(i) = {} <=> ~\E f \in HFilter : Identifier(f) = i /\ Handled(f)
    BY DEF HandledAs
  <2> QED
    BY <2>3, <2>5, <2>6
<1> QED
  BY <1>1, <1>2, TableStep, PTL DEF HSpec

(***************************************************************************)
(* The client.                                                             *)
(***************************************************************************)
\* A request is in one place only: in the queue, in one job that is not done, or served.
OnePlace ==
    /\ queued \cap DOMAIN served = {}
    /\ \A j \in jobs : j.request \notin queued
    /\ \A j \in jobs : j.state # "ready" => j.request \notin DOMAIN served
    /\ \A j, k \in jobs : j.request = k.request => j = k
    /\ jobs \subseteq [request : ClientRequest, state : {"running", "deferred", "ready"}]
    /\ queued \subseteq ClientRequest

\* The inductive invariant.
ClientInv == OnePlace /\ AnswersMatch

\* A job that runs answers its own request, which has no answer yet.
LEMMA JobAnswers ==
    ASSUME ClientInv, NEW j \in jobs, RunJob(j)
    PROVE  ClientInv'
<1> DEFINE r == j.request
           k == [j EXCEPT !.state = "ready"]
<1>1. /\ j.state = "running" /\ jobs' = (jobs \ {j}) \cup {k} /\ UNCHANGED queued
  BY DEF RunJob, Running
<1>2. PICK code \in {0} \cup (IF WellFormed(r) THEN ServerCode ELSE {}) :
          /\ served' = [x \in DOMAIN served \cup {r} |-> IF x = r THEN code ELSE served[x]]
          /\ responses' = responses \cup handle_publication(r, code)
  BY DEF RunJob
<1>3. /\ r \notin DOMAIN served /\ r \notin queued /\ k.request = r /\ k.state = "ready"
      /\ k \in [request : ClientRequest, state : {"running", "deferred", "ready"}]
  BY <1>1 DEF ClientInv, OnePlace
<1>4. \A a \in responses : a.to # r
  BY <1>3, SMTT(30) DEF ClientInv, AnswersMatch
<1>5. OnePlace'
  <2>1. DOMAIN served' = DOMAIN served \cup {r}
    BY <1>2
  <2>2. \A x \in jobs \ {j} : x.request # r
    BY DEF ClientInv, OnePlace
  <2> HIDE DEF k
  <2> QED
    BY <1>1, <1>3, <2>1, <2>2, SMTT(30) DEF ClientInv, OnePlace
<1>6. WellFormed(r) => (perform_request(code) = 200 <=> code = 200)
  <2>1. 0 % 256 = 0 /\ 200 % 256 = 200
    BY SMTT(30)
  <2> QED
    BY <1>2, <2>1, ClientAssumption DEF perform_request
<1>7. \A a \in responses' \ responses :
          WellFormed(r) /\ a = [to |-> r, code |-> perform_request(code)]
  BY <1>2, SMTT(30) DEF handle_publication
<1>8. AnswersMatch'
  <2>1. \A x \in DOMAIN served : x \in DOMAIN served' /\ served'[x] = served[x]
    BY <1>2, <1>3, SMTT(30)
  <2>2. r \in DOMAIN served' /\ served'[r] = code
    BY <1>2, SMTT(30)
  <2>3. \A a \in responses' \ responses :
            /\ a.to = r /\ WellFormed(a.to) /\ a.to \in DOMAIN served'
            /\ a.code = 200 <=> served'[a.to] = 200
    BY <1>6, <1>7, <2>2, SMTT(30)
  <2>4. \A a \in responses :
            /\ WellFormed(a.to) /\ a.to \in DOMAIN served'
            /\ a.code = 200 <=> served'[a.to] = 200
    BY <2>1, SMTT(30) DEF ClientInv, AnswersMatch
  <2>5. \A a, b \in responses' : a.to = b.to => a = b
    <3>1. \A a, b \in responses : a.to = b.to => a = b
      BY DEF ClientInv, AnswersMatch
    <3>2. \A a, b \in responses' \ responses : a = b
      BY <1>7, Zenon
    <3>3. \A a \in responses' \ responses : a.to = r
      BY <2>3, SMTT(30)
    <3>4. \A a \in responses' \ responses, b \in responses : a.to # b.to
      BY <1>4, <3>3, SMTT(30)
    <3> QED
      BY <3>1, <3>2, <3>4, ZenonT(30)
  <2> QED
    BY <2>3, <2>4, <2>5 DEF AnswersMatch
<1> QED
  BY <1>5, <1>8 DEF ClientInv

\* Every step keeps the invariant.
LEMMA ClientStep ==
    ASSUME ClientInv, [CNext]_cvars
    PROVE  ClientInv'
<1>1. CASE thread_function
  <2>1. UNCHANGED <<served, responses>>
    BY <1>1 DEF thread_function
  <2>2. AnswersMatch'
    BY <2>1, SMTT(30) DEF ClientInv, AnswersMatch
  <2>3. ASSUME NEW r \in queued, queued' = queued \ {r},
               NEW state \in {"running", "deferred"},
               jobs' = (jobs \ Ready) \cup {[request |-> r, state |-> state]}
        PROVE  OnePlace'
    BY <2>1, <2>3 DEF ClientInv, OnePlace
  <2>4. CASE queued = {} /\ jobs' = jobs \ Ready /\ UNCHANGED queued
    BY <2>1, <2>2, <2>4, SMTT(30) DEF ClientInv, OnePlace
  <2>5. ASSUME NEW r \in queued, queued' = queued \ {r},
               jobs' = (jobs \ Ready) \cup
                   {[request |-> r, state |-> IF Cardinality(Running) < MaxThreads THEN "running"
                                              ELSE "deferred"]}
        PROVE  OnePlace'
    <3> DEFINE s == IF Cardinality(Running) < MaxThreads THEN "running" ELSE "deferred"
    <3>1. s \in {"running", "deferred"}
      OBVIOUS
    <3>2. queued' = queued \ {r} /\ jobs' = (jobs \ Ready) \cup {[request |-> r, state |-> s]}
      BY <2>5
    <3> HIDE DEF s
    <3> QED
      BY <2>3, <3>1, <3>2, Zenon
  <2> QED
    BY <1>1, <2>2, <2>4, <2>5 DEF thread_function, ClientInv
<1>2. ASSUME NEW r \in ClientRequest, PublishRequest(r) PROVE ClientInv'
  BY <1>2, SMTT(30) DEF PublishRequest, ClientInv, OnePlace, AnswersMatch
<1>3. CASE UNCHANGED cvars
  BY <1>3 DEF cvars, ClientInv, OnePlace, AnswersMatch
<1> QED
  BY <1>1, <1>2, <1>3, JobAnswers DEF CNext

\* Whatever order the jobs of the HTTP client end in, a request has at most one answer,
\* and the answer is that of its own transfer (http_client_actor.cpp).
THEOREM AnswersAreOwn == CSpec => []AnswersMatch
<1>1. CInit => ClientInv
  BY DEF CInit, ClientInv, OnePlace, AnswersMatch
<1>2. ClientInv /\ [CNext]_cvars => ClientInv'
  BY ClientStep
<1>3. ClientInv => AnswersMatch
  BY DEF ClientInv
<1> QED
  BY <1>1, <1>2, <1>3, PTL DEF CSpec
=============================================================================
