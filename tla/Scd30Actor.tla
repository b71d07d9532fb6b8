----------------------------- MODULE Scd30Actor ------------------------------
(***************************************************************************)
(* The actor of the SCD30 sensor on the ESP32                              *)
(* (components/scd30_actor/src/scd30_actor.cpp): it looks for the sensor,  *)
(* announces what it measures to the deployment manager, measures in a     *)
(* loop of wakeups, and calibrates.  The temperature offset is kept in the *)
(* sensor and remembered in the flash storage of the board (NVS); both     *)
(* survive a restart of the board, the actor's fields do not.              *)
(*                                                                         *)
(* Sensor and storage are external: every access may fail.  Wakeups and    *)
(* the actor's own exit message come back as module Executor describes,    *)
(* and the deployment manager hears the announcements in order.            *)
(***************************************************************************)
EXTENDS Integers

CONSTANTS
    Offset,          \* temperature offsets that the server has; 0 is none
    MaxRetries,      \* 5 in the code
    MaxRestarts      \* bound: restarts of the board

VARIABLES
    actor,           \* "spawned", "up" or "gone"
    ready_retries,   \* probes that failed
    registered_actors, \* what the actor has announced
    counted,           \* how often the deployment manager counts each type
    calibration,     \* calibrated_temp, current_offset_temp, calibrated_co2
    listens,         \* the actor has subscribed to the command to calibrate CO2
    asked,           \* the actor has asked the server for its offset
    uptime,          \* since init_timestamp: "unset", "short" or "long"
    timers,          \* wakeups that are pending, by their identifier
    exiting,         \* exit messages on their way to the actor
    nvs,             \* [temp, co2]: the offset or None; a time stamp or none
    sensor,          \* [offset, frc]: its offset; it was calibrated for CO2
    diverged,        \* history: a fault parted the storage from the sensor
    restarts         \* what is left of MaxRestarts

svars == <<actor, ready_retries, registered_actors, counted, calibration, listens, asked, uptime,
           timers, exiting, nvs, sensor, diverged, restarts>>

ASSUME SensorAssumption == Offset \subseteq Nat \ {0} /\ MaxRetries \in Nat /\ MaxRestarts \in Nat

None == 0
Types == {"temperature", "relative_humidity", "co2"}
durable == <<nvs, sensor, diverged, restarts>>

Fresh(a, r, g, k, c, l, q, u, t, e) ==
    /\ a = "spawned" /\ r = 0 /\ g = {} /\ k = [x \in Types |-> 0]
    /\ c = [temp |-> FALSE, offset |-> 0, co2 |-> FALSE] /\ l = FALSE /\ q = FALSE /\ u = "unset"
    /\ t = [sensor_wait |-> 0, measurement |-> 0] /\ e = 0

SInit ==
    /\ Fresh(actor, ready_retries, registered_actors, counted, calibration, listens, asked, uptime,
             timers, exiting)
    /\ nvs = [temp |-> None, co2 |-> FALSE] /\ sensor = [offset |-> 0, frc |-> FALSE]
    /\ diverged = FALSE /\ restarts = MaxRestarts

\* The board restarts, or loses power.
Reboot ==
    /\ restarts > 0 /\ restarts' = restarts - 1
    /\ Fresh(actor', ready_retries', registered_actors', counted', calibration', listens', asked',
             uptime', timers', exiting')

Wake(t, id) == [t EXCEPT ![id] = @ + 1]
Woken(id) == [timers EXCEPT ![id] = @ - 1]

\* Both tell the deployment manager, which counts.
register_unmanaged_actor(ts) ==
    /\ registered_actors' = registered_actors \cup ts
    /\ counted' = [t \in Types |->
                      IF t \in ts \ registered_actors THEN counted[t] + 1 ELSE counted[t]]

deregister_managed_actor(ts) ==
    counted' = [t \in Types |-> IF t \in ts THEN counted[t] - 1 ELSE counted[t]]

\* What reading the storage gives; an error also sends the actor its exit message.
read_temperature_calibrarion_value == {IF nvs.temp = None THEN "not_found" ELSE "found", "error"}
read_co2_configuration_timestamp == {IF nvs.co2 THEN "found" ELSE "not_found", "error"}

\* Mutant: the attempts are counted modulo the limit.
LookForSensor_modulo(found, t, errors) ==
    IF found
    THEN /\ register_unmanaged_actor(Types) /\ uptime' = "short"
         /\ timers' = Wake(t, "measurement") /\ exiting' = exiting + errors
         /\ UNCHANGED ready_retries
    ELSE /\ timers' = Wake(t, "sensor_wait") /\ exiting' = exiting + errors
         /\ ready_retries' = (ready_retries + 1) % MaxRetries
         /\ UNCHANGED <<registered_actors, counted, uptime>>

\* The part of receive that probes for the sensor.
LookForSensor(found, t, errors) ==
    IF found
    THEN /\ register_unmanaged_actor(Types) /\ uptime' = "short"
         /\ timers' = Wake(t, "measurement") /\ exiting' = exiting + errors
         /\ UNCHANGED ready_retries
    ELSE /\ IF ready_retries < MaxRetries
            THEN timers' = Wake(t, "sensor_wait") /\ exiting' = exiting + errors
            ELSE timers' = t /\ exiting' = exiting + errors + 1
         /\ ready_retries' = ready_retries + 1
         /\ UNCHANGED <<registered_actors, counted, uptime>>

\* What the actor makes of the storage.
Restored(temp, co2) ==
    [temp |-> temp = "found", offset |-> IF temp = "found" THEN nvs.temp ELSE 0,
     co2 |-> co2 = "found"]

\* receive, for "init".  The offset of the sensor is set to 0 if none can be read.
ReceiveInit(temp, co2, found, reset) ==
    /\ actor = "spawned" /\ actor' = "up"
    /\ temp \in read_temperature_calibrarion_value /\ co2 \in read_co2_configuration_timestamp
    /\ calibration' = Restored(temp, co2) /\ listens' = (co2 # "found") /\ asked' = (temp # "found")
    /\ sensor' = IF temp # "found" /\ reset THEN [sensor EXCEPT !.offset = 0] ELSE sensor
    /\ diverged' = (diverged \/ (temp = "error" /\ nvs.temp # None))
    /\ LookForSensor(found, timers,
           (IF temp = "error" THEN 1 ELSE 0) + (IF co2 = "error" THEN 1 ELSE 0))
    /\ UNCHANGED <<nvs, restarts>>

\* receive, for the wakeup "trigger_sensor_wait".
SensorWait(found) ==
    /\ actor = "up" /\ timers.sensor_wait > 0
    /\ LookForSensor(found, Woken("sensor_wait"), 0)
    /\ UNCHANGED <<actor, calibration, listens, asked, durable>>

\* Updates and failures are published; the next wakeup comes in 20 s, or, if the sensor
\* is not ready in five attempts, in 100 ms.
fetch_send_updates(ready, t) == Wake(t, "measurement")

\* receive, for the wakeup "trigger_measurement".
Measure(ready) ==
    /\ actor = "up" /\ timers.measurement > 0
    /\ timers' = fetch_send_updates(ready, Woken("measurement"))
    /\ asked' = (asked \/ ~calibration.temp)
    /\ UNCHANGED <<actor, ready_retries, registered_actors, counted, calibration, listens, uptime,
                   exiting, durable>>

\* Mutant: the sensor is not told.
calibrate_temperature_late(v, set, written) ==
    /\ calibration' = [calibration EXCEPT !.temp = TRUE, !.offset = v]
    /\ nvs' = IF written THEN [nvs EXCEPT !.temp = v] ELSE nvs
    /\ diverged' = (~written /\ nvs.temp \notin {None, v})
    /\ UNCHANGED sensor

\* Neither a failing sensor nor a failing storage ends it.
calibrate_temperature(v, set, written) ==
    /\ ~(calibration.temp /\ v = calibration.offset)
    /\ calibration' = [calibration EXCEPT !.temp = TRUE, !.offset = v]
    /\ sensor' = IF set THEN [sensor EXCEPT !.offset = v] ELSE sensor
    /\ nvs' = IF written THEN [nvs EXCEPT !.temp = v] ELSE nvs
    /\ diverged' = (~set \/ (~written /\ nvs.temp \notin {None, v}))

\* receive, for "sensor_calibration_data", an answer of the server that may be late.
Calibrate(v, set, written) ==
    /\ actor = "up" /\ asked /\ calibrate_temperature(v, set, written)
    /\ UNCHANGED <<actor, ready_retries, registered_actors, counted, listens, asked, uptime, timers,
                   exiting, restarts>>

\* The power goes after the sensor has its offset and before the storage has.
PowerLoss(v) ==
    /\ actor = "up" /\ asked /\ ~(calibration.temp /\ v = calibration.offset)
    /\ sensor' = [sensor EXCEPT !.offset = v]
    /\ diverged' = (nvs.temp \notin {None, v})
    /\ Reboot /\ UNCHANGED nvs

\* receive, for the command to calibrate CO2; refused for five minutes after the start.
co2_forced_calibration(done, written) ==
    /\ actor = "up" /\ listens /\ uptime # "short" /\ done
    /\ calibration' = [calibration EXCEPT !.co2 = TRUE]
    /\ sensor' = [sensor EXCEPT !.frc = TRUE]
    /\ nvs' = IF written THEN [nvs EXCEPT !.co2 = TRUE] ELSE nvs
    /\ UNCHANGED <<actor, ready_retries, registered_actors, counted, listens, asked, uptime, timers,
                   exiting, diverged, restarts>>

WarmUp ==
    /\ uptime = "short" /\ uptime' = "long"
    /\ UNCHANGED <<actor, ready_retries, registered_actors, counted, calibration, listens, asked,
                   timers, exiting, durable>>

\* Mutant: the destructor announces again what the exit message already ended.
Leave_twice ==
    /\ registered_actors' = registered_actors
    /\ counted' = [t \in Types |-> IF t \in registered_actors THEN counted[t] - 2 ELSE counted[t]]

\* The handler of "exit" and then the destructor, which finds nothing left to do.
Leave == deregister_managed_actor(registered_actors) /\ registered_actors' = {}

\* receive, for "exit", from the actor itself or the deployment manager; then the
\* executor removes the actor.
ReceiveExit ==
    /\ actor = "up" /\ actor' = "gone" /\ Leave
    /\ exiting' = 0 /\ timers' = [sensor_wait |-> 0, measurement |-> 0]
    /\ UNCHANGED <<ready_retries, calibration, listens, asked, uptime, durable>>

SNext ==
    \/ \E temp, co2 \in {"found", "not_found", "error"}, found, reset \in BOOLEAN :
           ReceiveInit(temp, co2, found, reset)
    \/ \E b \in BOOLEAN : SensorWait(b) \/ Measure(b)
    \/ \E v \in Offset : PowerLoss(v) \/ \E set, written \in BOOLEAN : Calibrate(v, set, written)
    \/ \E done, written \in BOOLEAN : co2_forced_calibration(done, written)
    \/ WarmUp \/ ReceiveExit
    \/ Reboot /\ UNCHANGED <<nvs, sensor, diverged>>

\* Wakeups and the actor's own exit message arrive.
SFairness ==
    /\ WF_svars(\E b \in BOOLEAN : SensorWait(b))
    /\ WF_svars(exiting > 0 /\ ReceiveExit)

SSpec == SInit /\ [][SNext]_svars /\ SFairness

(***************************************************************************)
(* Properties.                                                             *)
(***************************************************************************)
\* One chain of wakeups: never two measurement loops, however often the sensor was
\* looked for, and none lost unless the actor is about to exit.
OneLoop ==
    /\ timers.sensor_wait + timers.measurement <= 1
    /\ actor = "up" /\ exiting = 0 => timers.sensor_wait + timers.measurement = 1

\* The deployment manager counts a type once while the actor is there and not at all
\* after it, although both its exit handler and its destructor deregister.
RegistrationExact ==
    \A t \in Types : counted[t] = IF t \in registered_actors /\ actor = "up" THEN 1 ELSE 0

\* Measurements are marked as calibrated only if the sensor has the offset and was
\* calibrated for CO2, across restarts of the board.  The exceptions are the faults
\* that part the storage from the sensor: an offset the sensor does not take, a write
\* that fails or a power loss before it when another offset was stored, and a storage
\* that cannot be read at the start.
CalibrationTrue ==
    /\ calibration.temp /\ ~diverged => sensor.offset = calibration.offset
    /\ calibration.co2 => sensor.frc

\* An actor measures or exits: it does not look for its sensor for ever.
StartsOrExits == actor = "up" ~> timers.measurement > 0 \/ actor # "up"

\* The wakeups of an actor are one chain that leads to measurements or to its exit.
MeasuresOrExits == []OneLoop /\ StartsOrExits
=============================================================================
