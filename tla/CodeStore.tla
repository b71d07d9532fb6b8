------------------------------ MODULE CodeStore ------------------------------
(***************************************************************************)
(* The table of actor code of a node (code_store.cpp): a function on the   *)
(* code identifiers stored, each with the end of its life and whether the  *)
(* code itself is there.  The operations run under the store's mutex, so   *)
(* each is one step of the actor that calls it.                            *)
(***************************************************************************)
EXTENDS Integers, FiniteSets, FiniteSetsExt, TLC

CONSTANT CodeGrace       \* how long code is kept past its end, 5000 ms

ASSUME CodeStoreAssumption == CodeGrace \in Nat

INFINITE == 0            \* MAGIC_LIFETIME_VALUE_INFINTE
CACHE_OR_EXISTING == 1   \* MAGIC_LIFETIME_VALUE_CACHE_OR_EXISTING

EmptyStore == [i \in {} |-> {}]

\* retrieve: the entry has to exist and to have its code.
retrieve(store, id) == id \in DOMAIN store /\ store[id].available

\* What lasts for ever is zero, so an entry that does becomes finite when it
\* is refreshed with an end.  Code that is there is not replaced.
insert_or_refresh(store, id, end, code) ==
    [i \in DOMAIN store \cup {id} |->
        IF i # id THEN store[i]
        ELSE IF id \notin DOMAIN store THEN [end |-> end, available |-> code]
        ELSE [end |-> IF end = INFINITE THEN INFINITE
                      ELSE Max({end, store[id].end}),
              available |-> store[id].available \/ code]]

\* Mutant: what lasts for ever is taken for what ended long ago.
cleanup_all(store, now) ==
    [i \in {j \in DOMAIN store : ~(store[j].end + CodeGrace < now)} |-> store[i]]

cleanup(store, now) ==
    [i \in {j \in DOMAIN store :
               ~(store[j].end > 0 /\ store[j].end + CodeGrace < now)} |-> store[i]]
=============================================================================
