----------------------------- MODULE IndexSpec ------------------------------
(***************************************************************************)
(* The index on its own: subscriptions enter it with their filter and      *)
(* leave it again, as add_subscription and remove_subscription of          *)
(* Router.tla have them do.                                                *)
(***************************************************************************)
EXTENDS SubscriptionIndex

CONSTANTS Sub, Filter

VARIABLES constraints, stored, filters   \* filters: live subscription -> filter

ivars == <<constraints, stored, filters>>

IInit ==
    /\ constraints = [c \in Constraint |-> {}]
    /\ stored = [c \in Constraint |-> FALSE]
    /\ filters = [s \in {} |-> {}]

IAdd(s, f) ==
    /\ s \notin DOMAIN filters
    /\ filters' = [t \in DOMAIN filters \cup {s} |->
                      IF t = s THEN f ELSE filters[t]]
    /\ constraints' = IndexInsert(constraints, f, s)
    /\ stored' = StoredInsert(constraints, stored, f)

IRemove(s) ==
    /\ s \in DOMAIN filters
    /\ filters' = [t \in DOMAIN filters \ {s} |-> filters[t]]
    /\ constraints' = IndexRemove(constraints, filters[s], s)
    /\ stored' = StoredRemove(constraints', stored)

ISpec == IInit /\ [][\E s \in Sub : IRemove(s) \/ \E f \in Filter : IAdd(s, f)]_ivars
=============================================================================
