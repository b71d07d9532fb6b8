-------------------------- MODULE ConstraintIndex ---------------------------
(***************************************************************************)
(* The index of one attribute's constraints as it is stored                *)
(* (uActor/include/pubsub/constraint_index.hpp): a vector of the equality  *)
(* constraints on strings, sorted by operand and searched with             *)
(* lower_bound, and a vector of all others that is searched linearly.      *)
(* Every item lists the subscriptions that use its constraint.             *)
(*                                                                         *)
(* A filter is a pair of sequences, the vectors that add_subscription      *)
(* walks; nothing keeps it from naming a constraint twice.                 *)
(***************************************************************************)
EXTENDS SubscriptionIndex, SequencesExt

CONSTANTS
    StringEqual,     \* the constraints of the form: attribute EQ string
    Operand(_),      \* the operand's rank in the order of strings
    Value,           \* what publications carry for the attribute
    StringValue,     \* the strings among them ...
    Rank(_),         \* ... and their rank
    Holds(_, _),     \* Constraint::operator()
    Sub, VectorFilter

VARIABLES
    items,           \* [string_equal, index]: the two vectors
    live             \* subscription -> its filter

cvars == <<items, live>>

ASSUME ConstraintIndexAssumption ==
    /\ StringEqual \subseteq Constraint
    /\ StringValue \subseteq Value
    /\ \A c, d \in StringEqual : Operand(c) = Operand(d) => c = d
    /\ \A c \in StringEqual, v \in Value :
          Holds(c, v) <=> v \in StringValue /\ Rank(v) = Operand(c)

(***************************************************************************)
(* insert, remove and check.                                               *)
(***************************************************************************)
\* std::lower_bound on the operands: the first position not below rank k.
lower_bound(s, k) ==
    Min({n \in 1 .. Len(s) : Operand(s[n].constraint) >= k} \cup {Len(s) + 1})

Vector(c) == IF c \in StringEqual THEN "string_equal" ELSE "index"

\* Where c is in its vector, or where it has to be inserted.
Position(it, c) ==
    LET s == it[Vector(c)] IN
    IF c \in StringEqual THEN lower_bound(s, Operand(c))
    ELSE Min({n \in 1 .. Len(s) : s[n].constraint = c} \cup {Len(s) + 1})

Found(it, c) ==
    LET n == Position(it, c)
    IN  n <= Len(it[Vector(c)]) /\ it[Vector(c)][n].constraint = c

insert(it, c, sub, opt) ==
    LET v == Vector(c)  n == Position(it, c) IN
    IF ~Found(it, c)
    THEN [it EXCEPT ![v] = InsertAt(@, n, [constraint |-> c, optional |-> opt,
                                           subs |-> <<<<sub, opt>>>>])]
    ELSE IF \E e \in ToSet(it[v][n].subs) : e[1] = sub THEN it
    ELSE [it EXCEPT ![v][n].subs = Append(@, <<sub, opt>>)]

\* The first entry of the subscription, if any, is erased.
EraseFirst(subs, sub) ==
    LET P == {n \in 1 .. Len(subs) : subs[n][1] = sub}
    IN  IF P = {} THEN subs ELSE RemoveAt(subs, Min(P))

\* Mutant: the last entry goes, whoever it belongs to.
remove_back(it, c, sub) ==
    LET v == Vector(c)  n == Position(it, c) IN
    IF ~Found(it, c) THEN it
    ELSE IF Len(it[v][n].subs) = 1 THEN [it EXCEPT ![v] = RemoveAt(@, n)]
    ELSE [it EXCEPT ![v][n].subs = Front(@)]

remove(it, c, sub) ==
    LET v == Vector(c)  n == Position(it, c) IN
    IF ~Found(it, c) THEN it
    ELSE IF Len(it[v][n].subs) = 1 THEN [it EXCEPT ![v] = RemoveAt(@, n)]
    ELSE [it EXCEPT ![v][n].subs = EraseFirst(@, sub)]

\* The items that check() visits for the value v.
Visited(it, v) ==
    LET s == it["string_equal"]
        n == lower_bound(s, Rank(v))
    IN  (IF v \in StringValue /\ n <= Len(s) /\ Operand(s[n].constraint) = Rank(v)
         THEN {s[n]} ELSE {})
        \cup {i \in ToSet(it["index"]) : Holds(i.constraint, v)}

\* The counter that check() leaves for a subscription.
check(it, v, sub, opt) ==
    Cardinality({<<i, n>> \in Visited(it, v) \X (1 .. Cardinality(Sub)) :
                    n <= Len(i.subs) /\ i.subs[n] = <<sub, opt>>})

(***************************************************************************)
(* The loops of add_subscription and remove_subscription over the vectors  *)
(* of a filter, and set_constraints: each call works on what the previous  *)
(* one left.                                                               *)
(***************************************************************************)
CInit ==
    /\ items = [string_equal |-> <<>>, index |-> <<>>]
    /\ live = [s \in {} |-> {}]

AddSubscription(s, f) ==
    LET required(it, c) == insert(it, c, s, FALSE)
        optional(it, c) == insert(it, c, s, TRUE)
    IN
    /\ s \notin DOMAIN live
    /\ live' = [t \in DOMAIN live \cup {s} |-> IF t = s THEN f ELSE live[t]]
    /\ items' = FoldLeft(optional, FoldLeft(required, items, f.required), f.optional)

RemoveSubscription(s) ==
    LET drop(it, c) == remove(it, c, s) IN
    /\ s \in DOMAIN live
    /\ live' = [t \in DOMAIN live \ {s} |-> live[t]]
    /\ items' = FoldLeft(drop, items, live[s].required \o live[s].optional)

CNext ==
    \E s \in Sub : \/ RemoveSubscription(s)
                  \/ \E f \in VectorFilter : AddSubscription(s, f)

CSpec == CInit /\ [][CNext]_cvars

(***************************************************************************)
(* Properties.                                                             *)
(***************************************************************************)
AllItems == ToSet(items.string_equal) \cup ToSet(items.index)

\* The number of the filter's constraints that the value satisfies.
Satisfied(cs, v) == Cardinality({n \in DOMAIN cs : Holds(cs[n], v)})

\* check() finds, by binary search and scan, for every live subscription as
\* many constraints as its filter has that the value satisfies, whatever was
\* inserted and removed before, and counts nothing for a dead one.
CountsExact ==
    \A s \in Sub, v \in Value :
        /\ check(items, v, s, FALSE) =
              IF s \in DOMAIN live THEN Satisfied(live[s].required, v) ELSE 0
        /\ check(items, v, s, TRUE) =
              IF s \in DOMAIN live THEN Satisfied(live[s].optional, v) ELSE 0

\* Removing one subscription leaves the other subscriptions of its constraints
\* in the index.
OthersStayIndexed ==
    \A s \in DOMAIN live : \A c \in ToSet(live[s].required) :
        \E i \in AllItems : i.constraint = c /\ <<s, FALSE>> \in ToSet(i.subs)

AsSet(f) == [required |-> ToSet(f.required), optional |-> ToSet(f.optional)]

Abstract == INSTANCE IndexSpec WITH
    Filter <- {AsSet(f) : f \in VectorFilter},
    filters <- [s \in DOMAIN live |-> AsSet(live[s])],
    constraints <- [c \in Constraint |->
                       UNION {ToSet(i.subs) : i \in {j \in AllItems :
                                                        j.constraint = c}}],
    stored <- [c \in Constraint |->
                  \E i \in AllItems : i.constraint = c /\ i.optional]

\* The vectors implement the index of sets that Router.tla matches with.
Implements == Abstract!ISpec
=============================================================================
