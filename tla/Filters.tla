------------------------------- MODULE Filters -------------------------------
(***************************************************************************)
(* Constraints and filters (uActor/src/pubsub/constraint.cpp, filter.cpp): *)
(* how they match, when two are equal, how Lua tables become filters and   *)
(* how a subscription is written to a map for a peer and read back.        *)
(*                                                                         *)
(* A value has a type: "s" a string (a sequence of letters), "i" and "f"   *)
(* numbers, "b" binary data, "m" a map of values.  A constraint's operand  *)
(* has one of these types too, "m" with a sequence of constraints, or none *)
(* ("x").                                                                  *)
(***************************************************************************)
EXTENDS Integers, Sequences, SequencesExt, FiniteSets

CONSTANTS
    NativeConstraint,  \* constraints that native actors use
    LuaTerm,           \* <<key, term>> that Lua actors use
    Sample,            \* publications, functions from attributes to values
    SubscriptionArgs,  \* [scope, fetch_policy, priority]
    NoConstraint,      \* std::nullopt
    PriorityModulus,   \* 2^32 in the code
    MaxConstraints     \* bound: constraints of a filter

VARIABLES f1, f2       \* two filters that are built

fivars == <<f1, f2>>

ASSUME FilterAssumption == MaxConstraints \in Nat /\ PriorityModulus \in Nat \ {0}

(***************************************************************************)
(* Matching.                                                               *)
(***************************************************************************)
Less(t, x, y) ==
    IF t # "s" THEN x < y
    ELSE \E i \in 1 .. Len(y) :
             /\ Len(x) >= i - 1 /\ SubSeq(x, 1, i - 1) = SubSeq(y, 1, i - 1)
             /\ Len(x) < i \/ x[i] < y[i]

\* Container::match of strings and numbers; a predicate for strings or maps matches
\* nothing else.
Compare(t, pred, x, y) ==
    CASE pred = "EQ" -> x = y
      [] pred = "NE" -> x # y
      [] pred = "LT" -> Less(t, x, y)
      [] pred = "GT" -> Less(t, y, x)
      [] pred = "GE" -> ~Less(t, x, y)
      [] pred = "LE" -> ~Less(t, y, x)
      [] OTHER -> FALSE

StringMatch(pred, x, y) ==
    CASE pred = "PF" -> Len(x) >= Len(y) /\ SubSeq(x, 1, Len(y)) = y
      [] pred = "SF" -> Len(x) >= Len(y) /\ SubSeq(x, Len(x) - Len(y) + 1, Len(x)) = y
      [] pred = "CT" -> \E i \in 0 .. Len(x) : /\ i + Len(y) <= Len(x)
                                               /\ SubSeq(x, i + 1, i + Len(y)) = y
      [] OTHER -> Compare("s", pred, x, y)

\* Constraint::operator(), and the match of map constraints: an optional one
\* accepts a map without the attribute, but not with one of another type.
RECURSIVE Satisfies(_, _)
Satisfies(c, v) ==
    /\ c.operand.kind = v.kind
    /\ CASE v.kind = "s" -> StringMatch(c.pred, v.val, c.operand.val)
         [] v.kind \in {"i", "f"} -> Compare(v.kind, c.pred, v.val, c.operand.val)
         [] v.kind = "m" ->
              /\ c.pred = "MAP_ALL"
              /\ \A d \in ToSet(c.operand.val) :
                     IF d.attr \in DOMAIN v.val THEN Satisfies(d, v.val[d.attr]) ELSE d.opt
         [] OTHER -> FALSE

\* Filter::check_required and check_optionals look at no other type: binary data
\* passes.
Passes(c, v) == v.kind = "b" \/ Satisfies(c, v)

check_required(f, p) == \A c \in ToSet(f.required) : c.attr \in DOMAIN p /\ Passes(c, p[c.attr])

Filter_check_optionals(f, p) ==
    \A c \in ToSet(f.optional) : c.attr \in DOMAIN p => Passes(c, p[c.attr])

matches(f, p) == check_required(f, p) /\ Filter_check_optionals(f, p)

\* InternalFilter::check_optionals passes maps too.
internal_check_optionals(f, p) ==
    \A c \in ToSet(f.optional) :
        c.attr \in DOMAIN p => p[c.attr].kind = "m" \/ Passes(c, p[c.attr])

\* Router::publish_internal for one subscription: the index counts the constraints
\* that are satisfied.
router_matches(f, p) ==
    LET counted(C) == {i \in DOMAIN C : C[i].attr \in DOMAIN p /\ Satisfies(C[i], p[C[i].attr])}
    IN  /\ Cardinality(counted(f.required)) = Len(f.required)
        /\ \/ Cardinality(counted(f.optional)) = Len(f.optional)
           \/ internal_check_optionals(f, p)

(***************************************************************************)
(* Equality.                                                               *)
(***************************************************************************)
\* Constraint::operator== does not look at optional; a map operand is equal if the
\* other one has its constraints, and never with another predicate than MAP_ALL.
RECURSIVE SameConstraint(_, _)
SameConstraint(c, d) ==
    /\ c.attr = d.attr /\ c.operand.kind = d.operand.kind
    /\ c.operand.kind # "x" => c.pred = d.pred
    /\ IF c.operand.kind = "m"
       THEN /\ c.pred = "MAP_ALL"
            /\ \A x \in ToSet(c.operand.val) : \E y \in ToSet(d.operand.val) : SameConstraint(x, y)
       ELSE c.operand.val = d.operand.val

AllIn(C, D) ==
    Len(C) = Len(D) /\ \A c \in ToSet(C) : \E d \in ToSet(D) : SameConstraint(c, d)

\* Mutant: the sizes of the optional parts are not compared.
FilterEqual_unsized(f, g) ==
    /\ AllIn(f.required, g.required)
    /\ \A c \in ToSet(f.optional) : \E d \in ToSet(g.optional) : SameConstraint(c, d)

FilterEqual(f, g) == AllIn(f.required, g.required) /\ AllIn(f.optional, g.optional)

(***************************************************************************)
(* Filters from constraints, and from Lua.                                 *)
(***************************************************************************)
MakeConstraint(attr, operand, pred, opt) ==
    [attr |-> attr, operand |-> operand, pred |-> pred, opt |-> opt]

\* The constructor: a name that starts with '?' makes the constraint optional.
Keyed(key, operand, pred, opt) == MakeConstraint(key.name, operand, pred, opt \/ key.marked)

\* The constructor of Filter.
AddConstraint(f, c) ==
    IF c.opt THEN [f EXCEPT !.optional = Append(@, c)] ELSE [f EXCEPT !.required = Append(@, c)]

PredicateName == <<"EQ", "NE", "LT", "GT", "GE", "LE", "PF", "SF", "CT", "MAP_ALL">>

\* The value that set_in_map stores for a Lua value.
LuaValue(x) == CASE x.lua = "string" -> [kind |-> "s", val |-> x.arg]
                 [] x.lua = "integer" -> [kind |-> "i", val |-> x.arg]
                 [] x.lua = "number" -> [kind |-> "f", val |-> x.arg]

\* The operand of a table {predicate, operand}: lua_isnumber is true of a string
\* that reads as a number.
LuaOperand(x) ==
    IF x.lua = "string" /\ x.number # 0 THEN [kind |-> "f", val |-> x.number] ELSE LuaValue(x)

\* ManagedLuaActor::parse_constraint; a predicate without a number from 1 to 10 is
\* an error of the caller and left out.
RECURSIVE parse_constraint(_, _)
parse_constraint(key, term) ==
    CASE term.lua \in {"string", "integer", "number"} -> Keyed(key, LuaValue(term), "EQ", FALSE)
      [] term.lua = "table" /\ term.operand.lua # "list" ->
            Keyed(key, LuaOperand(term.operand), PredicateName[term.pred], term.opt)
      [] term.lua = "table" /\ term.operand.lua = "list" ->
            LET inner == [i \in DOMAIN term.operand.arg |->
                              parse_constraint(term.operand.arg[i][1], term.operand.arg[i][2])]
            IN  Keyed(key, [kind |-> "m", val |-> SelectSeq(inner, LAMBDA c : c # NoConstraint)],
                      PredicateName[term.pred], term.opt)
      [] OTHER -> NoConstraint

(***************************************************************************)
(* A subscription in a publication: a map from attributes to constraints,  *)
(* in a container "_m" where there are several.                            *)
(***************************************************************************)
EmptyMap == [a \in {} |-> <<>>]

\* Mutant: a second constraint of an attribute takes the place of the first.
Entered_last(m, a, e) == [b \in DOMAIN m \cup {a} |-> IF b = a THEN <<e>> ELSE m[b]]

\* The end of add_constraint_to_map.
Entered(m, a, e) ==
    [b \in DOMAIN m \cup {a} |->
        IF b # a THEN m[b] ELSE IF a \in DOMAIN m THEN Append(m[a], e) ELSE <<e>>]

RECURSIVE add_constraint_to_map(_, _)
add_constraint_to_map(m, c) ==
    IF c.operand.kind = "x" THEN m
    ELSE Entered(m, c.attr,
            [operator |-> c.pred, optional |-> IF c.opt THEN 1 ELSE 0,
             operand |-> IF c.operand.kind # "m" THEN c.operand
                         ELSE [kind |-> "m",
                               val |-> FoldLeft(add_constraint_to_map, EmptyMap, c.operand.val)]])

to_publication_map(f) ==
    FoldLeft(add_constraint_to_map, EmptyMap, f.required \o f.optional)

\* The constraints of a map, in the order of its attributes, which is any.
Listed(m, Parse(_, _)) ==
    FlattenSeq([i \in 1 .. Cardinality(DOMAIN m) |->
        LET a == SetToSeq(DOMAIN m)[i] IN [j \in DOMAIN m[a] |-> Parse(a, m[a][j])]])

RECURSIVE parse_constraint_from_map(_, _)
parse_constraint_from_map(a, e) ==
    IF e.operator \notin ToSet(PredicateName) THEN NoConstraint
    ELSE LET operand == IF e.operand.kind # "m" THEN e.operand
                        ELSE [kind |-> "m",
                              val |-> Listed(e.operand.val, parse_constraint_from_map)]
         IN  MakeConstraint(a, operand, e.operator, e.optional = 1)

from_publication_map(m) ==
    FoldLeft(AddConstraint, [required |-> <<>>, optional |-> <<>>],
             Listed(m, parse_constraint_from_map))

\* SubscriptionArguments::to_map and from_map: the priority is signed on the way,
\* and what is not a policy or a scope reads NONE.
to_map(args) ==
    [priority |-> IF 2 * args.priority >= PriorityModulus
                  THEN args.priority - PriorityModulus ELSE args.priority,
     fetch_policy |-> args.fetch_policy, scope |-> args.scope]

from_map(m) ==
    [priority |-> m.priority % PriorityModulus,
     fetch_policy |-> IF m.fetch_policy \in {"FETCH", "FETCH_FUTURE", "FUTURE"}
                      THEN m.fetch_policy ELSE "NONE",
     scope |-> IF m.scope \in {"LOCAL", "CLUSTER", "GLOBAL"} THEN m.scope ELSE "NONE"]

(***************************************************************************)
(* Two filters are built, constraint by constraint.                        *)
(***************************************************************************)
NoFilter == [required |-> <<>>, optional |-> <<>>]

FiInit == f1 = NoFilter /\ f2 = NoFilter

Room(f) == Len(f.required) + Len(f.optional) < MaxConstraints

AddNative(c) == \/ Room(f1) /\ f1' = AddConstraint(f1, c) /\ UNCHANGED f2
                \/ Room(f2) /\ f2' = AddConstraint(f2, c) /\ UNCHANGED f1

\* parse_filters skips what is not a constraint.
ParseFilters(key, term) ==
    LET c == parse_constraint(key, term)
    IN  Room(f1) /\ f1' = (IF c = NoConstraint THEN f1 ELSE AddConstraint(f1, c)) /\ UNCHANGED f2

FiNext == \/ \E c \in NativeConstraint : AddNative(c)
          \/ \E l \in LuaTerm : ParseFilters(l[1], l[2])

FiSpec == FiInit /\ [][FiNext]_fivars

(***************************************************************************)
(* Properties.                                                             *)
(***************************************************************************)
Constraints(f) == ToSet(f.required \o f.optional)
Flat(f) == \A c \in Constraints(f) : c.operand.kind # "m"
Distinct(f) == Cardinality(Constraints(f)) = Len(f.required) + Len(f.optional)

\* An actor that blocks for a filter gets what a subscription with the filter gets:
\* Filter::matches and the router agree, except on binary data and on optional
\* constraints on maps.
BlocksLikeRouter ==
    (\A c \in ToSet(f1.optional) : c.operand.kind # "m") =>
    \A p \in Sample :
        (\A a \in DOMAIN p : p[a].kind # "b"
            /\ (p[a].kind = "m" => \A c \in ToSet(f1.optional) : c.attr # a))
        => (matches(f1, p) <=> router_matches(f1, p))

\* Filters that are equal accept the same publications, so that their subscribers may
\* share a subscription.  Nested constraints are compared in one direction only and
\* repeated ones hide others, so that it takes flat and distinct ones.
EqualMeansSame ==
    Flat(f1) /\ Flat(f2) /\ Distinct(f1) /\ FilterEqual(f1, f2)
        => \A p \in Sample : matches(f1, p) <=> matches(f2, p)

\* What from_map reads is what to_map wrote.
ArgumentsSurvive == \A x \in SubscriptionArgs : from_map(to_map(x)) = x

\* What from_publication_map reads is what to_publication_map wrote: an equal filter,
\* with the same optional and required parts, that accepts the same.
FilterSurvives ==
    \E g \in {from_publication_map(to_publication_map(f1))} :
        /\ FilterEqual(f1, g) /\ FilterEqual(g, f1)
        /\ Len(g.required) = Len(f1.required) /\ Len(g.optional) = Len(f1.optional)
        /\ \A p \in Sample : matches(f1, p) <=> matches(g, p)
=============================================================================
