----------------------------- MODULE HttpIngress -----------------------------
(***************************************************************************)
(* The HTTP ingress actor (uActor-POSIX/src/actors/http_ingress.cpp).  Its *)
(* server thread takes requests, refuses those that no subscription asks   *)
(* for, and publishes the others; the actor itself, on the executor's      *)
(* thread, ends the requests when an answer arrives or after five seconds. *)
(*                                                                         *)
(* The handlers of the two threads are atomic here; the code takes no lock *)
(* for the maps they share.  The library calls each handler of a request   *)
(* until it is ended or aborted.                                           *)
(*                                                                         *)
(* The router announces subscriptions for its peers, and the actor counts  *)
(* those announcements that its own node publishes.  A subscription has    *)
(* the receivers of this node and other nodes behind it.  Each receiver of *)
(* this node that joins is announced in the name of the node, each other   *)
(* node that joins in its own; it is always the node that announces a      *)
(* removal, when nobody is left or one other node only.                    *)
(***************************************************************************)
EXTENDS Integers, Sequences, FiniteSets

CONSTANTS
    HFilter,         \* filters of subscriptions for HTTP requests
    Identifier(_),   \* method, URL and predicate of a filter
    HLocal,          \* receivers of this node that may subscribe
    HPeer,           \* other nodes that may subscribe
    HttpRequest,     \* requests, as they are identified: any two different
    Target(_),       \* the identifiers that match a request
    MaxAnswers,      \* bound: answers of handlers
    MaxChanges       \* bound: subscriptions and unsubscriptions

VARIABLES
    subscribed,      \* who is behind the subscription for each filter
    setup,           \* 0 .. 2: which of its two subscriptions the actor has
    hinbox,          \* announcements for the actor
    active_subscriptions, \* counts by identifier
    active_requests, \* requests the actor knows
    progress,        \* "none", "open", "received" for each request
    old,             \* requests that are more than five seconds old
    ended,           \* how often each response was ended
    misanswered,     \* history: requests with an answer that ends nothing or twice
    missed,          \* history: identifiers whose announcements do not tell when
                     \* this node begins and ends to subscribe
    stopping,        \* stop_server was called
    hbounds          \* what is left of the bounds

hvars == <<subscribed, setup, hinbox, active_subscriptions, active_requests, progress, old,
           ended, misanswered, missed, stopping, hbounds>>

ASSUME HttpAssumption ==
    IsFiniteSet(HFilter) /\ HLocal \cap HPeer = {} /\ MaxAnswers \in Nat /\ MaxChanges \in Nat

Ident == {Identifier(f) : f \in HFilter}
Subscriber == HLocal \cup HPeer
subs_side == <<subscribed, setup, hinbox, active_subscriptions, missed>>
reqs_side == <<active_requests, progress, old, ended, misanswered>>

HInit(answers, changes) ==
    /\ subscribed \in [HFilter -> SUBSET Subscriber] /\ setup = 0 /\ hinbox = <<>>
    /\ active_subscriptions = [i \in Ident |-> 0]
    /\ active_requests = {} /\ progress = [r \in HttpRequest |-> "none"] /\ old = {}
    /\ ended = [r \in HttpRequest |-> 0] /\ misanswered = {} /\ missed = {} /\ stopping = FALSE
    /\ hbounds = [answers |-> answers, changes |-> changes]

\* This node subscribes to f itself.
Handled(f) == subscribed[f] \cap HLocal # {}

\* The actor hears, or does not hear, that f was added or removed.
Hears(heard, what, f) ==
    hinbox' = IF heard THEN Append(hinbox, <<what, f>>) ELSE hinbox

\* It should hear exactly when this node begins or ends to subscribe.
Misses(heard, changed, f) ==
    missed' = IF setup >= 1 /\ heard # changed THEN missed \cup {Identifier(f)} ELSE missed

\* add_subscription, for a receiver of this node or for another node.
SubscribeHandler(f, s) ==
    /\ s \notin subscribed[f] /\ hbounds.changes > 0
    /\ subscribed' = [subscribed EXCEPT ![f] = @ \cup {s}]
    /\ Hears(setup >= 1 /\ s \in HLocal, "added", f)
    /\ Misses(setup >= 1 /\ s \in HLocal, s \in HLocal /\ ~Handled(f), f)
    /\ hbounds' = [hbounds EXCEPT !.changes = @ - 1]
    /\ UNCHANGED <<setup, active_subscriptions, stopping, reqs_side>>

\* remove_subscription announces that nobody is left, or one other node only.
RemovalAnnounced(left) ==
    \/ left = {}
    \/ left \cap HLocal = {} /\ \A m, n \in left : m = n

UnsubscribeHandler(f, s) ==
    LET left == subscribed[f] \ {s}
        heard == setup = 2 /\ RemovalAnnounced(left)
    IN
    /\ s \in subscribed[f] /\ hbounds.changes > 0
    /\ subscribed' = [subscribed EXCEPT ![f] = left]
    /\ Hears(heard, "removed", f)
    /\ Misses(heard, s \in HLocal /\ left \cap HLocal = {}, f)
    /\ hbounds' = [hbounds EXCEPT !.changes = @ - 1]
    /\ UNCHANGED <<setup, active_subscriptions, stopping, reqs_side>>

\* handle_meta_subscription lists each subscription there is, whoever is behind it.
Listed == {f \in HFilter : subscribed[f] # {}}

\* add_subscription_update_subscriptions: the first subscription fetches what there
\* is, the second does not.
SubscribeUpdates ==
    /\ setup < 2 /\ setup' = setup + 1
    /\ IF setup = 0
       THEN /\ \E s \in {q \in [1 .. Cardinality(Listed) -> Listed] :
                             \A i, j \in DOMAIN q : q[i] = q[j] => i = j} :
                   hinbox' = [i \in DOMAIN s |-> <<"added", s[i]>>]
            /\ missed' = {Identifier(f) : f \in {g \in Listed : ~Handled(g)}}
       ELSE UNCHANGED <<hinbox, missed>>
    /\ UNCHANGED <<subscribed, active_subscriptions, stopping, hbounds, reqs_side>>

\* Mutant: a second subscription with the same identifier is not counted.
handle_subscription_added_once(i) == [active_subscriptions EXCEPT ![i] = 1]

handle_subscription_added(i) == [active_subscriptions EXCEPT ![i] = @ + 1]

handle_subscription_removed(i) ==
    [active_subscriptions EXCEPT ![i] = IF @ <= 1 THEN 0 ELSE @ - 1]

\* receive, for an announcement.
ReceiveUpdate ==
    /\ setup = 2 /\ hinbox # <<>> /\ ~stopping /\ hinbox' = Tail(hinbox)
    /\ \E i \in {Identifier(Head(hinbox)[2])} :
           active_subscriptions' =
               IF Head(hinbox)[1] = "added" THEN handle_subscription_added(i)
               ELSE handle_subscription_removed(i)
    /\ UNCHANGED <<subscribed, setup, missed, stopping, hbounds, reqs_side>>

matches_active_subscription(r) == \E i \in Target(r) : active_subscriptions[i] > 0

\* Server thread: a request arrives.
handle_request(r) ==
    /\ progress[r] = "none" /\ ended[r] = 0 /\ ~stopping
    /\ IF matches_active_subscription(r)
       THEN /\ active_requests' = active_requests \cup {r}
            /\ progress' = [progress EXCEPT ![r] = "open"] /\ UNCHANGED ended
       ELSE ended' = [ended EXCEPT ![r] = 1] /\ UNCHANGED <<active_requests, progress>>
    /\ UNCHANGED <<old, misanswered, stopping, hbounds, subs_side>>

\* Its last data; what comes before only adds to the body.
handle_data(r) ==
    /\ progress[r] = "open" /\ ended[r] = 0
    /\ progress' = [progress EXCEPT ![r] = IF r \in active_requests THEN "received" ELSE "late"]
    /\ UNCHANGED <<active_requests, old, ended, misanswered, stopping, hbounds, subs_side>>

\* onAborted: the client is gone.
Aborted(r) ==
    /\ progress[r] \in {"open", "received", "late"} /\ ended[r] = 0
    /\ progress' = [progress EXCEPT ![r] = "aborted"]
    /\ active_requests' = active_requests \ {r}
    /\ UNCHANGED <<old, ended, misanswered, stopping, hbounds, subs_side>>

\* Mutant: the request stays active.
handle_http_response_kept(r, headers) ==
    /\ r \in active_requests
    /\ ended' = [ended EXCEPT ![r] = @ + headers]
    /\ misanswered' = IF headers = 1 THEN misanswered ELSE misanswered \cup {r}
    /\ UNCHANGED active_requests

\* The response is ended once for each header that is listed and there, or once if
\* none are listed.
handle_http_response(r, headers) ==
    IF r \in active_requests
    THEN /\ ended' = [ended EXCEPT ![r] = @ + headers]
         /\ misanswered' = IF headers = 1 THEN misanswered ELSE misanswered \cup {r}
         /\ active_requests' = active_requests \ {r}
    ELSE UNCHANGED <<ended, misanswered, active_requests>>

\* receive, for an answer of some actor, with so many headers; it may be the second.
ReceiveAnswer(r, headers) ==
    /\ progress[r] \in {"received", "aborted"} /\ ~stopping /\ hbounds.answers > 0
    /\ handle_http_response(r, headers)
    /\ hbounds' = [hbounds EXCEPT !.answers = @ - 1]
    /\ UNCHANGED <<progress, old, stopping, subs_side>>

Age(r) == /\ progress[r] # "none" /\ r \notin old /\ old' = old \cup {r}
          /\ UNCHANGED <<active_requests, progress, ended, misanswered, stopping, hbounds,
                         subs_side>>

\* Mutant: only requests that were received completely are looked at.
periodic_cleanup_received ==
    {r \in active_requests \cap old : progress[r] = "received"}

\* The requests that periodic_cleanup ends with 504.
periodic_cleanup == active_requests \cap old

\* receive, for the wakeup every five seconds.
Wakeup ==
    /\ ~stopping /\ periodic_cleanup # {}
    /\ ended' = [r \in HttpRequest |-> IF r \in periodic_cleanup THEN ended[r] + 1 ELSE ended[r]]
    /\ active_requests' = active_requests \ periodic_cleanup
    /\ UNCHANGED <<progress, old, misanswered, stopping, hbounds, subs_side>>

\* The actor exits: open requests are forgotten, not answered.
stop_server ==
    /\ setup = 2 /\ ~stopping /\ stopping' = TRUE /\ active_requests' = {}
    /\ UNCHANGED <<progress, old, ended, misanswered, hbounds, subs_side>>

HNext ==
    \/ SubscribeUpdates \/ ReceiveUpdate \/ Wakeup \/ stop_server
    \/ \E f \in HFilter, s \in Subscriber : SubscribeHandler(f, s) \/ UnsubscribeHandler(f, s)
    \/ \E r \in HttpRequest :
           \/ handle_request(r) \/ handle_data(r) \/ Aborted(r) \/ Age(r)
           \/ \E headers \in 0 .. 2 : ReceiveAnswer(r, headers)

\* The executor processes the actor's messages and wakeups, and time passes.
HFairness ==
    /\ WF_hvars(ReceiveUpdate) /\ WF_hvars(Wakeup)
    /\ WF_hvars(\E r \in HttpRequest : Age(r))

HSpec == HInit(MaxAnswers, MaxChanges) /\ [][HNext]_hvars /\ HFairness

(***************************************************************************)
(* Properties.                                                             *)
(***************************************************************************)
\* No response is ended twice, by an answer and the cleanup, or by two answers, or
\* after its client went away; the exception is an answer with several headers, which
\* ends it once for each.
EndedOnce ==
    \A r \in HttpRequest :
        /\ r \notin misanswered => ended[r] <= 1
        /\ progress[r] = "aborted" => ended[r] = 0

\* No request is left open by a running actor: each is answered, refused, timed out
\* or given up by its client.  An answer that lists only headers it does not have
\* ends nothing.
RequestsEnd ==
    \A r \in HttpRequest :
        progress[r] = "open" ~>
            ended[r] > 0 \/ progress[r] = "aborted" \/ stopping \/ r \in misanswered

\* Requests are refused exactly if there is no handler on this node: once the
\* announcements are processed, the table has the identifiers of the filters that the
\* node subscribes to.  The exceptions are identifiers with a filter whose announcements
\* say something else: those made in the gap between the actor's own two subscriptions,
\* a second receiver of the node that joins (announced again, and removed once), a last
\* receiver that leaves two other nodes behind (not announced), and other nodes that come
\* unnoticed and whose leaving is announced, or that are listed by the fetch.
TableExact ==
    setup = 2 /\ hinbox = <<>> =>
        \A i \in Ident \ missed :
            active_subscriptions[i] > 0 <=> \E f \in HFilter : Identifier(f) = i /\ Handled(f)
=============================================================================
