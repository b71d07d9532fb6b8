------------------------------ MODULE MCRouter ------------------------------
(***************************************************************************)
(* Instances of Router for TLC.  c1 and c2 are constraints on two          *)
(* attributes of actors' messages, ann is the constraint on the type of    *)
(* the router's own announcements.                                         *)
(***************************************************************************)
EXTENDS Router, TLC

CONSTANTS c1, c2, ann, r1, r2, n1, n2, here

F(required, optional) == [required |-> required, optional |-> optional]

\* Filters of actors, and of one who watches subscriptions.
MCFilter == {F({c1}, {}), F({c1}, {c2}), F({}, {c2}), F({ann}, {})}
\* c2 is required by one subscriber and optional for another.
MixedFilter == {F({c2}, {}), F({}, {c2})}

A(priority, fetch) == [priority |-> priority, fetch |-> fetch]
MCArgument == {A(0, "FUTURE"), A(1, "FETCH_FUTURE"), A(0, "FETCH")}
FutureArgument == {A(0, "FUTURE")}

Sent(carries, nested, accepts) == [type |-> "message", carries |-> carries,
                                   nested |-> nested, accepts |-> accepts]
\* c2's attribute absent, accepted, rejected, and rejected but a map.
MCMessage == {Sent({c1}, {}, {c1}), Sent({c1, c2}, {}, {c1, c2}),
              Sent({c1, c2}, {}, {c1}), Sent({c1, c2}, {c2}, {c1}),
              Sent({c2}, {}, {c2})}
OneMessage == {Sent({c1}, {}, {c1})}
MCSymmetry == Permutations({r1, r2})

MCCarries(p) == IF p.type = "message" THEN p.carries ELSE {ann}
MCNested(p) == IF p.type = "message" THEN p.nested ELSE {}
MCAccepts(p) == IF p.type = "message" THEN p.accepts
                ELSE IF p.type = "local_subscription_added" THEN {ann} ELSE {}
\* The announcement filter also carries a "subscription" constraint, which
\* accepts the subscriptions with a constraint on the attribute of c1.
MCSelects(f, g) == c1 \in g.required \cup g.optional
=============================================================================
