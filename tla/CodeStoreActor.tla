--------------------------- MODULE CodeStoreActor ----------------------------
(***************************************************************************)
(* The actor in front of the code store (code_store_actor.cpp).  It stores *)
(* the code that deployments and other nodes send, answers requests from   *)
(* the store, and asks the other nodes for what is missing, at most once   *)
(* in a while for the same code.                                           *)
(*                                                                         *)
(* The requester of a message is the actor the answer goes to.  What the   *)
(* answer does there is up to the module that extends this one.            *)
(***************************************************************************)
EXTENDS CodeStore, Sequences

CONSTANTS
    Code,        \* code identifiers
    Debounce,    \* time between two questions for the same code, 5000 ms
    Period,      \* time between two cleanups, 30000 ms
    MaxTime      \* bound: the clock

VARIABLES
    code_store,
    code_miss_debounce,   \* code -> when it may be asked for again
    store_inbox,          \* the actor's messages
    serving,              \* whether it answers other nodes (enable, disable)
    asked,                \* code that other nodes were asked for
    cleanup_at,           \* the wakeup "periodic_cleanup"
    now

svars == <<code_store, code_miss_debounce, store_inbox, serving, asked, cleanup_at,
           now>>

ASSUME CodeActorAssumption == {Debounce, Period, MaxTime} \subseteq Nat

REMOTE == 0     \* the requester of a message from another node

Request(id, who) == [type |-> "code_fetch_request", id |-> id, who |-> who]
Unavailable(id) == [type |-> "code_unavailable", id |-> id]
Packet(id, end) == [type |-> "actor_code", id |-> id, end |-> end]
LifetimeUpdate(id, end) == [type |-> "actor_code_lifetime_update", id |-> id,
                            end |-> end]
Response(id) == [type |-> "code_fetch_response", id |-> id]
Control(on) == [type |-> "remote_fetch_control_command", enable |-> on]

StoreInit(store) ==
    /\ code_store = store
    /\ code_miss_debounce = EmptyStore
    /\ store_inbox = <<>>
    /\ serving = FALSE
    /\ asked = {}
    /\ cleanup_at = Period
    /\ now = 0

Next1(type) == store_inbox # <<>> /\ Head(store_inbox).type = type
Message == Head(store_inbox)

\* receive_code_store, receive_lifetime_update, receive_code_fetch_response.
StoreCode ==
    /\ \/ /\ Next1("actor_code")
          /\ code_store' = insert_or_refresh(code_store, Message.id, Message.end, TRUE)
       \/ /\ Next1("actor_code_lifetime_update")
          /\ code_store' = insert_or_refresh(code_store, Message.id, Message.end, FALSE)
       \/ /\ Next1("code_fetch_response")
          /\ code_store' = insert_or_refresh(code_store, Message.id,
                                             CACHE_OR_EXISTING, TRUE)
    /\ store_inbox' = Tail(store_inbox)
    /\ UNCHANGED <<code_miss_debounce, serving, asked, cleanup_at, now>>

\* Not asked for yet, or long ago.
MayAsk(id) ==
    id \in DOMAIN code_miss_debounce => code_miss_debounce[id] < now

Ask(id) ==
    IF MayAsk(id)
    THEN /\ code_miss_debounce' = (id :> now + Debounce) @@ code_miss_debounce
         /\ asked' = asked \cup {id}
    ELSE UNCHANGED <<code_miss_debounce, asked>>

\* receive_code_unavailable_notification.
CodeUnavailable ==
    /\ Next1("code_unavailable")
    /\ Ask(Message.id)
    /\ store_inbox' = Tail(store_inbox)
    /\ UNCHANGED <<code_store, serving, cleanup_at, now>>

\* receive_code_fetch_request: answered from the store, or passed on.
Answered(id) == retrieve(code_store, id)

FetchRequest ==
    /\ Next1("code_fetch_request")
    /\ IF Answered(Message.id) THEN UNCHANGED <<code_miss_debounce, asked>>
       ELSE Ask(Message.id)
    /\ store_inbox' = Tail(store_inbox)
    /\ UNCHANGED <<code_store, serving, cleanup_at, now>>

\* receive_remote_fetch_control_command changes the filter for requests.
RemoteFetchControl ==
    /\ Next1("remote_fetch_control_command")
    /\ serving' = Message.enable
    /\ store_inbox' = Tail(store_inbox)
    /\ UNCHANGED <<code_store, code_miss_debounce, asked, cleanup_at, now>>

\* cleanup, with the next wakeup.
Cleanup ==
    /\ cleanup_at < now
    /\ cleanup_at' = now + Period
    /\ code_store' = cleanup(code_store, now)
    /\ code_miss_debounce' =
           [id \in {i \in DOMAIN code_miss_debounce : code_miss_debounce[i] >= now}
               |-> code_miss_debounce[id]]
    /\ UNCHANGED <<store_inbox, serving, asked, now>>

\* What arrives: a request of another node if they are served, and the answer
\* of another node to a question.
RemoteRequest(id) ==
    /\ serving
    /\ store_inbox' = Append(store_inbox, Request(id, REMOTE))
    /\ UNCHANGED <<code_store, code_miss_debounce, serving, asked, cleanup_at, now>>

RemoteAnswer(id) ==
    /\ id \in asked
    /\ asked' = asked \ {id}
    /\ store_inbox' = Append(store_inbox, Response(id))
    /\ UNCHANGED <<code_store, code_miss_debounce, serving, cleanup_at, now>>

StoreTick ==
    /\ now < MaxTime
    /\ now' = now + 1
    /\ UNCHANGED <<code_store, code_miss_debounce, store_inbox, serving, asked,
                   cleanup_at>>
=============================================================================
