-------------------------- MODULE SubscriptionIndex --------------------------
(***************************************************************************)
(* What the index of constraints is to the router: for every constraint    *)
(* the subscriptions that use it, each with the flag whether it is         *)
(* optional there, and the one constraint object that they share.          *)
(* ConstraintIndex.tla shows that the vectors of constraint_index.hpp      *)
(* implement this.                                                         *)
(***************************************************************************)
EXTENDS Integers, FiniteSets

CONSTANT Constraint   \* attribute, predicate and operand

\* Mutant: a required constraint is entered with the flag of an optional one.
IndexInsertFlagged(idx, f, i) ==
    [c \in Constraint |->
        idx[c] \cup (IF c \in f.required \cup f.optional THEN {<<i, TRUE>>} ELSE {})]

IndexInsert(idx, f, i) ==
    [c \in Constraint |->
        idx[c] \cup (IF c \in f.required THEN {<<i, FALSE>>} ELSE {})
               \cup (IF c \in f.optional THEN {<<i, TRUE>>} ELSE {})]

\* insert() keeps the object of an existing entry, optional flag included.
StoredInsert(idx, st, f) ==
    [c \in Constraint |->
        IF c \in f.required \cup f.optional /\ idx[c] = {}
        THEN c \in f.optional ELSE st[c]]

\* Mutant: only the required constraints are taken out of the index.
IndexRemoveRequired(idx, f, i) ==
    [c \in Constraint |->
        IF c \in f.required THEN {e \in idx[c] : e[1] # i} ELSE idx[c]]

\* remove() drops a one-element entry without looking at whose it is.
IndexRemove(idx, f, i) ==
    [c \in Constraint |->
        IF c \notin f.required \cup f.optional THEN idx[c]
        ELSE IF Cardinality(idx[c]) = 1 THEN {}
        ELSE {e \in idx[c] : e[1] # i}]

\* An entry that is empty is gone, and its object with it.
StoredRemove(idx, st) == [c \in Constraint |-> idx[c] # {} /\ st[c]]

\* to_filter().to_publication_map(): the stored objects decide what is
\* written as required and what as optional.
Wire(st, f) ==
    [required |-> {c \in f.required \cup f.optional : ~st[c]},
     optional |-> {c \in f.required \cup f.optional : st[c]}]
=============================================================================
