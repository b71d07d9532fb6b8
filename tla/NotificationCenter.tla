------------------------- MODULE NotificationCenter --------------------------
(***************************************************************************)
(* The notification center of the ESP32's e-paper display                  *)
(* (components/epaper_actor/src/epaper_actor.cpp): notifications come, are *)
(* replaced, cancelled and expire, and the display shows one of them and   *)
(* their number; a command scrolls through them.                           *)
(*                                                                         *)
(* Drawing is left out: the display shows current_state.  Identifiers are  *)
(* numbers in the order of the map, 0 for the empty one.                   *)
(***************************************************************************)
EXTENDS Integers, FiniteSets, FiniteSetsExt

CONSTANTS
    Identifiers,     \* identifiers of notifications, positive numbers
    Text,            \* their texts
    Lifetime,        \* lifetimes they are sent with; 0 is for ever
    MaxClock,         \* bound: the clock stops here, and all that lies ahead is past
    MaxNotified      \* bound: notifications and cancellations that are sent

VARIABLES
    notifications,   \* [text, lifetime] by identifier
    current_state,   \* [id, text, number], what is shown
    clock,           \* now()
    cleanup_pending, \* the wakeup "cleanup" is pending
    notified         \* what is left of MaxNotified

nvars == <<notifications, current_state, clock, cleanup_pending, notified>>

ASSUME NotificationAssumption ==
    /\ Identifiers \subseteq Nat \ {0} /\ Lifetime \subseteq Nat
    /\ MaxClock \in Nat /\ MaxNotified \in Nat

Shown(id, text, number) == [id |-> id, text |-> text, number |-> number]

\* The state after init.
NInit ==
    /\ notifications = << >> /\ current_state = Shown(0, "uActor", 0)
    /\ clock = 1 /\ cleanup_pending = TRUE /\ notified = MaxNotified

\* The comparison of two states leaves out the identifier.
SameState(s, t) == s.text = t.text /\ s.number = t.number

\* The display is drawn again only if there is something new.
update(s) == current_state' = IF SameState(s, current_state) THEN current_state ELSE s

\* The one after the one that is shown, or the first; the first if it is gone.
print_next(ns, number) ==
    IF DOMAIN ns = {} THEN Shown(0, "", number)
    ELSE LET after == {i \in DOMAIN ns : i > current_state.id}
             id == Min(IF current_state.id \in DOMAIN ns /\ after # {} THEN after ELSE DOMAIN ns)
         IN  Shown(id, ns[id].text, number)

Later(a, b) == IF a > b THEN a ELSE b

\* A new one is shown at once; a known one is replaced, its lifetime only extended.
receive_notification(id, text, lifetime) ==
    /\ notified > 0 /\ notified' = notified - 1
    /\ LET until == IF lifetime > 0 THEN lifetime + clock ELSE 0
           known == id \in DOMAIN notifications
           n == [text |-> text,
                 lifetime |-> IF known THEN Later(until, notifications[id].lifetime) ELSE until]
           ns == [i \in DOMAIN notifications \cup {id} |-> IF i = id THEN n ELSE notifications[i]]
       IN  /\ notifications' = ns
           /\ IF ~known THEN update(Shown(id, text, Cardinality(DOMAIN ns)))
              ELSE IF current_state.id = id THEN update([current_state EXCEPT !.text = text])
              ELSE UNCHANGED current_state
    /\ UNCHANGED <<clock, cleanup_pending>>

Except(ids) == [i \in DOMAIN notifications \ ids |-> notifications[i]]

\* Mutant: what is shown stays, only the number changes.
Removed_kept(ids) == [current_state EXCEPT !.number = Cardinality(DOMAIN Except(ids))]

\* What is shown after some are removed.
Removed(ids) ==
    IF current_state.id \in ids THEN print_next(Except(ids), Cardinality(DOMAIN Except(ids)))
    ELSE [current_state EXCEPT !.number = Cardinality(DOMAIN Except(ids))]

receive_notification_cancelation(id) ==
    /\ notified > 0 /\ notified' = notified - 1
    /\ id \in DOMAIN notifications
    /\ notifications' = Except({id}) /\ update(Removed({id}))
    /\ UNCHANGED <<clock, cleanup_pending>>

Outlived(n) == n.lifetime > 0 /\ (n.lifetime < clock \/ clock = MaxClock)

\* Mutant: the wakeup is not enqueued again.
Rearmed_once == FALSE

Rearmed == TRUE

\* receive, for the wakeup every ten seconds.
cleanup ==
    /\ cleanup_pending /\ cleanup_pending' = Rearmed
    /\ \E ids \in {{i \in DOMAIN notifications : Outlived(notifications[i])}} :
           /\ notifications' = Except(ids)
           /\ IF ids = {} THEN UNCHANGED current_state ELSE update(Removed(ids))
    /\ UNCHANGED <<clock, notified>>

\* receive, for the command "scroll_notifications".
Scroll ==
    /\ update(print_next(notifications, current_state.number))
    /\ UNCHANGED <<notifications, clock, cleanup_pending, notified>>

Tick == clock < MaxClock /\ clock' = clock + 1
        /\ UNCHANGED <<notifications, current_state, cleanup_pending, notified>>

NNext ==
    \/ cleanup \/ Scroll \/ Tick
    \/ \E id \in Identifiers :
           \/ receive_notification_cancelation(id)
           \/ \E text \in Text, lifetime \in Lifetime : receive_notification(id, text, lifetime)

\* Time passes, the wakeup arrives, and somebody presses the button.
NFairness == WF_nvars(cleanup) /\ WF_nvars(Tick)

NSpec == NInit /\ [][NNext]_nvars /\ NFairness

(***************************************************************************)
(* Properties.                                                             *)
(***************************************************************************)
\* The display shows the text of a notification that is there, and how many there
\* are, after any sequence of changes, although it is not drawn again for a state
\* that differs in its identifier only.
ScreenTrue ==
    /\ current_state.number = Cardinality(DOMAIN notifications)
    /\ IF current_state.id = 0 THEN DOMAIN notifications = {}
       ELSE /\ current_state.id \in DOMAIN notifications
            /\ current_state.text = notifications[current_state.id].text

\* A notification with a lifetime disappears, however often it is replaced.
NotificationsExpire ==
    \A i \in Identifiers :
        (i \in DOMAIN notifications /\ notifications[i].lifetime > 0)
            ~> i \notin DOMAIN notifications
=============================================================================
