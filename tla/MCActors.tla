------------------------------ MODULE MCActors -------------------------------
(***************************************************************************)
(* The actors of an executor with their code store.                        *)
(***************************************************************************)
EXTENDS Executor

\* The calls that the code of an actor may make.
CONSTANTS f1, c1

Call(o, x, t) == [op |-> o, arg |-> x, time |-> t]

APICalls == {Call("block", f1, 0), Call("block", f1, 1), Call("block", f1, Forever),
             Call("subscribe", f1, 0),
             Call("unsubscribe", f1, 0), Call("publish", f1, 0), Call("delay", f1, 1),
             Call("wakeup", f1, 1), [op |-> "error"]}

\* Either the code is still to come, for one actor that only receives, or two
\* actors have it and call the API, with more calls or more messages from outside.
CodeComes == RInit(EmptyStore, 1, MaxInputs - 1, MaxCalls)
CodeIsThere ==
    \/ RInit(c1 :> [end |-> INFINITE, available |-> TRUE], MaxActors, 1, 0)
    \/ RInit(c1 :> [end |-> INFINITE, available |-> TRUE], MaxActors, 0, 1)

MCSpec == (CodeComes \/ CodeIsThere) /\ [][RNext]_rvars /\ RFairness
=============================================================================
