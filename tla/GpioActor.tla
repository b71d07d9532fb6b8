------------------------------ MODULE GpioActor ------------------------------
(***************************************************************************)
(* The GPIO actor of the ESP32 (main/include_esp32/io/gpio_actor.hpp) and  *)
(* the bounded queues of the receivers there                               *)
(* (main/src_esp32/pubsub/receiver.cpp).  An interrupt of the watched pin  *)
(* is put into a queue, or lost if that is full; a task takes it, reads    *)
(* the pin, and publishes the level; the publication holds the lock of the *)
(* router (router.cpp), shared, as long as the queue of a subscriber is    *)
(* full.                                                                   *)
(*                                                                         *)
(* One subscriber is modelled, on an executor of its own.  If it "talks",  *)
(* it publishes for each message it takes another one that it receives     *)
(* itself.  If it "subscribes", it changes its subscriptions for each, and *)
(* the router takes its lock for that alone.  Commands for the actor come  *)
(* from this node or from others.                                          *)
(***************************************************************************)
EXTENDS Integers, Sequences

CONSTANTS
    InterruptLimit,  \* 10 in the code: size of interrupt_queue
    HardLimit,       \* RECEIVER_QUEUE_HARD_LIMIT
    Pin,             \* pins by number; Watched is one of them
    Watched,         \* 19 in the code, configured by set_as_interrupt
    OutputPin,       \* 25, 26 and 27, configured by set_as_output
    MaxEdges,        \* bound: changes of the watched pin
    MaxCommands      \* bound: commands

VARIABLES
    does,            \* for each message the subscriber "listens", "talks" or "subscribes"
    pin_level,       \* levels of the pins
    interrupts,      \* length of interrupt_queue
    reader,          \* [state, level] of the task: "waiting", "woken", "ready" or
                     \* "publishing", then with the router's lock
    subscriber,      \* [queue, answering, last]: its messages; it is in a call of the
                     \* router itself
    gbounds          \* what is left of the bounds

gvars == <<does, pin_level, interrupts, reader, subscriber, gbounds>>

ASSUME GpioAssumption ==
    /\ InterruptLimit \in Nat \ {0} /\ HardLimit \in Nat \ {0} /\ MaxEdges \in Nat
    /\ MaxCommands \in Nat /\ Watched \in Pin /\ OutputPin \subseteq Pin \ {Watched}

\* The constructor sets the output pins; nothing is configured as INPUT.
pin_state(p) == IF p \in OutputPin THEN "OUTPUT" ELSE IF p = Watched THEN "WATCH" ELSE "NO_CONFIG"

GInit ==
    /\ does \in {"listens", "talks", "subscribes"} /\ pin_level = [p \in Pin |-> IF pin_state(p) = "OUTPUT" THEN 1 ELSE 0]
    /\ interrupts = 0 /\ reader = [state |-> "waiting", level |-> 0]
    /\ subscriber = [queue |-> <<>>, answering |-> FALSE, last |-> 0]
    /\ gbounds = [edges |-> MaxEdges, commands |-> MaxCommands]

\* Mutant: only a task that waits is told.
gpio_isr_handler_direct ==
    IF reader.state = "waiting" /\ interrupts < InterruptLimit THEN interrupts + 1 ELSE interrupts

\* xQueueSendFromISR drops what does not fit.
gpio_isr_handler == IF interrupts < InterruptLimit THEN interrupts + 1 ELSE interrupts

\* The watched pin changes.
Edge ==
    /\ gbounds.edges > 0 /\ gbounds' = [gbounds EXCEPT !.edges = @ - 1]
    /\ pin_level' = [pin_level EXCEPT ![Watched] = 1 - @]
    /\ interrupts' = gpio_isr_handler
    /\ UNCHANGED <<does, reader, subscriber>>

\* gpio_queue_reader: it takes an interrupt, then reads the level, then publishes.
TakeInterrupt ==
    /\ reader.state = "waiting" /\ interrupts > 0 /\ interrupts' = interrupts - 1
    /\ reader' = [reader EXCEPT !.state = "woken"]
    /\ UNCHANGED <<does, pin_level, subscriber, gbounds>>

ReadLevel ==
    /\ reader.state = "woken"
    /\ reader' = [state |-> "ready", level |-> pin_level[Watched]]
    /\ UNCHANGED <<does, pin_level, interrupts, subscriber, gbounds>>

\* Router::publish takes the lock, which nobody keeps to itself between two steps.
LockShared ==
    /\ reader.state = "ready" /\ reader' = [reader EXCEPT !.state = "publishing"]
    /\ UNCHANGED <<does, pin_level, interrupts, subscriber, gbounds>>

\* Receiver::publish waits for room, without a limit.
send_message(q, m) == [subscriber EXCEPT !.queue = Append(q, m)]
Room == Len(subscriber.queue) < HardLimit

PublishLevel ==
    /\ reader.state = "publishing" /\ Room
    /\ subscriber' = send_message(subscriber.queue, reader.level)
    /\ reader' = [reader EXCEPT !.state = "waiting"]
    /\ UNCHANGED <<does, pin_level, interrupts, gbounds>>

\* The subscriber's executor takes a message, unless it is in a call of the router; 2
\* is a message of its own.
receive_message ==
    /\ ~subscriber.answering /\ subscriber.queue # <<>>
    /\ \E m \in {Head(subscriber.queue)} :
           subscriber' = [queue |-> Tail(subscriber.queue), answering |-> does # "listens" /\ m # 2,
                          last |-> IF m = 2 THEN subscriber.last ELSE m]
    /\ UNCHANGED <<does, pin_level, interrupts, reader, gbounds>>

\* It publishes to its own queue.
PublishToItself ==
    /\ does = "talks" /\ subscriber.answering /\ Room
    /\ subscriber' = [subscriber EXCEPT !.queue = Append(@, 2), !.answering = FALSE]
    /\ UNCHANGED <<does, pin_level, interrupts, reader, gbounds>>

\* It calls add_subscription or remove_subscription, when no publication is under way.
ChangeSubscriptions ==
    /\ does = "subscribes" /\ subscriber.answering /\ reader.state # "publishing"
    /\ subscriber' = [subscriber EXCEPT !.answering = FALSE]
    /\ UNCHANGED <<does, pin_level, interrupts, reader, gbounds>>

receive_output_set(p, l) ==
    IF p \in Pin /\ l \in 0 .. 1 /\ pin_state(p) = "OUTPUT"
    THEN pin_level' = [pin_level EXCEPT ![p] = l] /\ UNCHANGED subscriber
    ELSE UNCHANGED <<pin_level, subscriber>>

\* The value of an INPUT pin would be published; there is none.
receive_trigger_read(p) == pin_state(p) # "INPUT" /\ UNCHANGED <<pin_level, subscriber>>

\* receive, of the actor's own task.
ReceiveCommand(local, p, l) ==
    /\ gbounds.commands > 0 /\ gbounds' = [gbounds EXCEPT !.commands = @ - 1]
    /\ \/ local /\ receive_output_set(p, l)
       \/ local /\ receive_trigger_read(p)
       \/ ~local /\ UNCHANGED <<pin_level, subscriber>>
    /\ UNCHANGED <<does, interrupts, reader>>

GNext ==
    \/ Edge \/ TakeInterrupt \/ ReadLevel \/ LockShared \/ PublishLevel
    \/ receive_message \/ PublishToItself \/ ChangeSubscriptions
    \/ \E local \in BOOLEAN, p \in Pin, l \in 0 .. 2 : ReceiveCommand(local, p, l)

\* The tasks are scheduled.
GFairness ==
    /\ WF_gvars(TakeInterrupt \/ ReadLevel \/ LockShared \/ PublishLevel)
    /\ WF_gvars(receive_message)
    /\ WF_gvars(PublishToItself) /\ WF_gvars(ChangeSubscriptions)

GSpec == GInit /\ [][GNext]_gvars /\ GFairness

(***************************************************************************)
(* Properties.                                                             *)
(***************************************************************************)
\* The subscriber waits for ever: its queue is full, and it is itself waiting to put
\* something into it, or for the lock that the publication to it holds.
Stuck ==
    /\ subscriber.answering /\ ~Room
    /\ does = "talks" \/ reader.state = "publishing"

\* Interrupts get lost, levels do not: once the pin rests, the subscriber has its
\* level, although the queues are bounded and publishing waits.  The only exception is
\* a subscriber that is stuck in a call of the router it makes for a message.
LevelKnown ==
    <>[](Stuck \/ subscriber.last = pin_level[Watched])
=============================================================================
