------------------------- MODULE MCConstraintIndex --------------------------
(***************************************************************************)
(* Instances of ConstraintIndex for TLC: three string operands "a" < "b" < *)
(* "c" of which the middle one can be inserted last, and one ordering      *)
(* constraint that is satisfied by a string and by the number.             *)
(***************************************************************************)
EXTENDS ConstraintIndex

CONSTANTS eq_a, eq_b, eq_c, below, number

MCOperand(c) == CASE c = eq_a -> 1 [] c = eq_b -> 2 [] c = eq_c -> 3
MCRank(v) == IF v = "a" THEN 1 ELSE IF v = "b" THEN 2 ELSE 4
MCHolds(c, v) == \/ c = eq_a /\ v = "a"
                 \/ c = eq_b /\ v = "b"
                 \/ c = below /\ v \in {"a", number}

V(required, optional) == [required |-> required, optional |-> optional]

MCVectorFilter == {V(<<eq_c, eq_a>>, <<>>), V(<<eq_b>>, <<>>), V(<<eq_c>>, <<eq_b>>),
             V(<<below>>, <<eq_a>>), V(<<>>, <<below, eq_c>>)}
\* One filter names its constraint twice.
RepeatFilter == {V(<<eq_a>>, <<>>), V(<<eq_a, eq_a>>, <<>>)}
=============================================================================
