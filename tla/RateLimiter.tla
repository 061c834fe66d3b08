------------------------------ MODULE RateLimiter ------------------------------
(***************************************************************************)
(* RateLimiter.check: a sliding window of request times per client, kept   *)
(* in the two-level cache.  The history is read, pruned, extended and      *)
(* written back under a lock of the process: the requests of one process   *)
(* take turns, those of two processes that share a Redis server do not.    *)
(* One client, so one key.  The times are named by the requests that have  *)
(* them.                                                                   *)
(*                                                                         *)
(* failed and overtaken are history variables: whether a Redis call went   *)
(* wrong, and which processes wrote over a history that was not the one    *)
(* they had read.                                                          *)
(***************************************************************************)
EXTENDS TwoLevelCache, FiniteSets

CONSTANTS
    Requests,      \* the requests of one client
    Limit,         \* requests_limit (3 in the code)
    Period,        \* the window (60 s in the code)
    Wait,          \* bound on the time a request waits for the lock
    MaxTime        \* bound on the clock

VARIABLES
    clock,
    request,       \* request -> [phase, process, now, history, basis]: what it decides by,
                   \* and what Redis held when it was read
    queue,         \* process -> the requests at its lock, the holder first
    failed,        \* whether a Redis call has failed
    overtaken      \* the processes that were overtaken by another

vars == <<redis, dict, clock, request, queue, failed, overtaken>>

Key == "history"

New(phase, process, now) ==
    [phase |-> phase, process |-> process, now |-> now, history |-> {}, basis |-> None]

Entry(history) == [history |-> history, written |-> clock]

\* now is taken before the lock; asyncio hands the lock over in order.
Arrive(r, p) ==
    /\ request[r].phase = "new"
    /\ request' = [request EXCEPT ![r] = New("queued", p, clock)]
    /\ queue' = [queue EXCEPT ![p] = Append(@, r)]
    /\ UNCHANGED <<redis, dict, clock, failed, overtaken>>

Holds(r) == queue[request[r].process] # <<>> /\ Head(queue[request[r].process]) = r

\* mutant: an entry counts for one moment too long.
RecentInclusive(history, now) == {q \in history : now - request[q].now <= Period}

Recent(history, now) == {q \in history : now - request[q].now < Period}

\* Entries older than their ttl are not answered.
Read(r) ==
    /\ request[r].phase = "queued" /\ Holds(r)
    /\ \E found \in Gets(request[r].process, Key) :
          /\ request' = [request EXCEPT
                ![r].phase = "decide",
                ![r].basis = redis[Key],
                ![r].history = IF found = None \/ clock - found.written >= Period THEN {}
                               ELSE Recent(found.history, request[r].now)]
          /\ failed' = (failed \/ found # redis[Key])
    /\ UNCHANGED <<redis, dict, clock, queue, overtaken>>

Release(r) == queue' = [queue EXCEPT ![request[r].process] = Tail(@)]

Refuse(r) ==
    /\ request[r].phase = "decide" /\ Cardinality(request[r].history) >= Limit
    /\ request' = [request EXCEPT ![r].phase = "refused"]
    /\ Release(r)
    /\ UNCHANGED <<redis, dict, clock, failed, overtaken>>

\* What the write of a request says of it: whether it failed, or another
\* process has written since the history was read.
Judge(r, entry) ==
    /\ failed' = (failed \/ redis'[Key] # entry)
    /\ overtaken' = IF redis[Key] = request[r].basis THEN overtaken
                    ELSE overtaken \cup {request[r].process}

\* mutant: the history is written without the request.
AdmitUnrecorded(r) ==
    /\ request[r].phase = "decide" /\ Cardinality(request[r].history) < Limit
    /\ CacheSet(request[r].process, Key, Entry(request[r].history))
    /\ Judge(r, Entry(request[r].history))
    /\ request' = [request EXCEPT ![r].phase = "admitted"]
    /\ Release(r)
    /\ UNCHANGED clock

Admit(r) ==
    /\ request[r].phase = "decide" /\ Cardinality(request[r].history) < Limit
    /\ CacheSet(request[r].process, Key, Entry(request[r].history \cup {r}))
    /\ Judge(r, Entry(request[r].history \cup {r}))
    /\ request' = [request EXCEPT ![r].phase = "admitted"]
    /\ Release(r)
    /\ UNCHANGED clock

\* The holders of the lock make two calls of at most 2 s each.
Tick ==
    /\ clock < MaxTime
    /\ \A r \in Requests :
          request[r].phase \in {"queued", "decide"} => clock < request[r].now + Wait
    /\ clock' = clock + 1
    /\ UNCHANGED <<redis, dict, request, queue, failed, overtaken>>

Init ==
    /\ CacheInit
    /\ clock = 0
    /\ request = [r \in Requests |-> New("new", None, 0)]
    /\ queue = [p \in Processes |-> <<>>]
    /\ failed = FALSE /\ overtaken = {}

Step(r) == Read(r) \/ Refuse(r) \/ Admit(r)

Next ==
    \/ \E r \in Requests : Step(r) \/ \E p \in Processes : Arrive(r, p)
    \/ Tick

Spec == Init /\ [][Next]_vars

-----------------------------------------------------------------------------

\* Every variable keeps its type; only queued and deciding requests are at the lock.
TypeOK ==
    /\ \A r \in Requests :
          request[r].phase \in {"new", "queued", "decide", "refused", "admitted"}
    /\ \A p \in Processes : \A i, j \in DOMAIN queue[p] :
          /\ request[queue[p][i]].phase \in {"queued", "decide"}
          /\ request[queue[p][i]].phase = "decide" => i = 1
          /\ queue[p][i] = queue[p][j] => i = j

Stamped(phase, first, last) ==
    {r \in Requests : request[r].phase = phase /\ request[r].now \in first .. last}

\* Unless a Redis call failed or one process overtook another: no window of the
\* period admits more requests than the limit, up to the time a request waits,
\* since a history expires by the time it is read and a request counts by the
\* time it came.
AtMostLimit ==
    ~failed /\ overtaken = {} =>
        \A start \in 0 .. clock :
            Cardinality(Stamped("admitted", start, start + Period - 1 - Wait)) <= Limit

\* The lock keeps the requests of a process apart: only another process, with an
\* admission of its own, overtakes it.  One process is never overtaken.
OvertakenByAnother ==
    \A p \in overtaken :
        \E r \in Requests : request[r].phase = "admitted" /\ request[r].process # p

\* A request is refused only after the limit was used up within the period
\* before its answer, whatever Redis does and however many processes share it:
\* no admission is counted that did not happen, or is too old.
RefusedOnlyAtLimit ==
    \A r \in Requests : request[r].phase = "refused" =>
        Cardinality(Stamped("admitted", request[r].now - Period + 1, request[r].now + Wait))
            >= Limit
=============================================================================
