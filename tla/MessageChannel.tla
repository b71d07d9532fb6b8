-------------------------- MODULE MessageChannel ----------------------------
(***************************************************************************)
(* What a connection between two nodes promises: whole messages, in order, *)
(* none twice and none left out, until the connection ends.                *)
(***************************************************************************)
EXTENDS Naturals, Sequences

CONSTANT Message

VARIABLES given, received   \* sequences of messages

chvars == <<given, received>>

ChInit == given = <<>> /\ received = <<>>

ChSend(m) == given' = Append(given, m) /\ UNCHANGED received

\* One read may complete several messages.
ChDeliver(n) ==
    /\ Len(received) + n <= Len(given)
    /\ received' = SubSeq(given, 1, Len(received) + n)
    /\ UNCHANGED given

ChNext == (\E m \in Message : ChSend(m)) \/ (\E n \in 1 .. Len(given) : ChDeliver(n))

ChSpec == ChInit /\ [][ChNext]_chvars
=============================================================================
