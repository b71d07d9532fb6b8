----------------------------- MODULE HttpClient ------------------------------
(***************************************************************************)
(* The HTTP client actor (uActor-POSIX/src/actors/http_client_actor.cpp):  *)
(* a thread that starts one asynchronous job for each request that it      *)
(* receives and forgets the jobs that are finished, and the jobs, which    *)
(* run at the same time and in any order, perform the transfer and publish *)
(* the answer.                                                             *)
(*                                                                         *)
(* A request is what the jobs look at.  The transfer is libcurl's: it      *)
(* fails or gives one of the server's codes.  std::async runs a job on a   *)
(* thread of its own, or, if no more can be started, defers it.            *)
(***************************************************************************)
EXTENDS Integers, FiniteSets

CONSTANTS
    ClientRequest,   \* requests: records [method, id, url]
    ServerCode,      \* codes that a server answers with
    MaxThreads       \* threads that the jobs can have at the same time

VARIABLES
    queued,          \* requests in the queue of the actor
    jobs,            \* job_list: [request, state] with state "running", "deferred", "ready"
    served,          \* history: what the server answered to each request, 0 if nothing
    responses        \* http_response publications, [to, code], each with its request

cvars == <<queued, jobs, served, responses>>

\* Codes are cut to eight bits; no server sends 456, which would become 200.
ASSUME ClientAssumption ==
    /\ MaxThreads \in Nat
    /\ \A code \in ServerCode : code % 256 = 200 => code = 200

CInit == queued = {} /\ jobs = {} /\ served = << >> /\ responses = {}

\* Some actor publishes a request; each one once.
PublishRequest(r) ==
    /\ r \notin queued \cup {j.request : j \in jobs} \cup DOMAIN served
    /\ r \notin {a.to : a \in responses}
    /\ queued' = queued \cup {r} /\ UNCHANGED <<jobs, served, responses>>

Running == {j \in jobs : j.state = "running"}
Ready == {j \in jobs : j.state = "ready"}

\* Mutant: it always waits for a request first.
awaits_forever(waiting) == waiting

\* How receive is called: the thread sleeps in it if there are no jobs, and looks for
\* finished ones otherwise.
awaits(waiting) == waiting \/ jobs # {}

\* One round of the thread: take a request, start its job, forget finished ones.
thread_function ==
    /\ awaits(queued # {})
    /\ \/ \E r \in queued :
              /\ queued' = queued \ {r}
              /\ jobs' = (jobs \ Ready) \cup
                   {[request |-> r, state |-> IF Cardinality(Running) < MaxThreads THEN "running"
                                              ELSE "deferred"]}
       \/ queued = {} /\ jobs' = jobs \ Ready /\ UNCHANGED queued
    /\ UNCHANGED <<served, responses>>

\* handle_publication returns without an answer for any other request.
WellFormed(r) == r.method \in {"GET", "POST"} /\ r.id /\ r.url

\* perform_request: 0 if the transfer fails, or the code in eight bits.
perform_request(code) == code % 256

handle_publication(r, code) ==
    IF WellFormed(r) THEN {[to |-> r, code |-> perform_request(code)]} ELSE {}

\* A job runs; its transfer, if there is one, fails or ends with some code.
RunJob(j) ==
    /\ j \in Running
    /\ \E code \in {0} \cup (IF WellFormed(j.request) THEN ServerCode ELSE {}) :
           /\ served' = [r \in DOMAIN served \cup {j.request} |->
                             IF r = j.request THEN code ELSE served[r]]
           /\ responses' = responses \cup handle_publication(j.request, code)
    /\ jobs' = (jobs \ {j}) \cup {[j EXCEPT !.state = "ready"]}
    /\ UNCHANGED queued

CNext ==
    \/ thread_function
    \/ \E r \in ClientRequest : PublishRequest(r)
    \/ \E j \in jobs : RunJob(j)

\* The thread runs, and so does every job that has one; a transfer ends.
CFairness == WF_cvars(thread_function) /\ WF_cvars(\E j \in jobs : RunJob(j))

CSpec == CInit /\ [][CNext]_cvars /\ CFairness

(***************************************************************************)
(* Properties.                                                             *)
(***************************************************************************)
\* Whatever order the jobs end in, a request has at most one answer, only if it was
\* well formed, and the answer says "200" exactly if its own transfer ended so.
AnswersMatch ==
    /\ \A a, b \in responses : a.to = b.to => a = b
    /\ \A a \in responses : /\ WellFormed(a.to) /\ a.to \in DOMAIN served
                            /\ a.code = 200 <=> served[a.to] = 200

\* Every request is answered, if it can be and its job has a thread, and no finished
\* job is kept.
ClientSettles ==
    /\ \A r \in {x \in ClientRequest : WellFormed(x)} :
           r \in queued ~> \/ \E a \in responses : a.to = r
                           \/ [request |-> r, state |-> "deferred"] \in jobs
    /\ []<>(Ready = {})

\* Each request is answered exactly once and for itself, with several jobs at once.
AnsweredOnce == []AnswersMatch /\ ClientSettles
=============================================================================
