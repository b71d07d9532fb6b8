--------------------------- MODULE PublicationValue --------------------------
(***************************************************************************)
(* What the publications of a program are to their users: variables, each  *)
(* with a map of its own.  A copy gives one variable the map of another, a *)
(* move also empties the source, and a write changes one attribute of one  *)
(* variable.                                                               *)
(***************************************************************************)
CONSTANTS Holder,    \* the variables
          PubMap,    \* maps, functions on attributes
          Gone       \* the value of a variable without a map

VARIABLE value

VInit == value = [h \in Holder |-> Gone]

VMake(h) == value[h] = Gone /\ \E m \in PubMap : value' = [value EXCEPT ![h] = m]

VCopy(h, g) == value[g] # Gone /\ value' = [value EXCEPT ![h] = value[g]]

VMove(h, g) == value' = [value EXCEPT ![h] = value[g], ![g] = Gone]

VWrite(h) ==
    /\ value[h] # Gone
    /\ \E m \in PubMap :
           /\ value' = [value EXCEPT ![h] = m]
           /\ \E a \in DOMAIN m : \A b \in DOMAIN m \ {a} : m[b] = value[h][b]

VNext == \E h \in Holder : \/ VMake(h) \/ VWrite(h)
                           \/ \E g \in Holder \ {h} : VCopy(h, g) \/ VMove(h, g)

VSpec == VInit /\ [][VNext]_value
=============================================================================
