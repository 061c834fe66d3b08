-------------------------- MODULE IdempotentRequests --------------------------
(***************************************************************************)
(* HttpClient.request in the browser and the IdempotencyMiddleware of the  *)
(* server.  A call sends the same key with each of its attempts; the       *)
(* middleware looks the key up, marks it PROCESSING, and after the handler *)
(* keeps a successful JSON answer as COMPLETED or frees the key.           *)
(*                                                                         *)
(* A mark lives for 300 s, also while its handler runs, and the dictionary *)
(* drops its oldest entry when it is full: lapsed is a history variable,   *)
(* the keys whose entry went while one of their requests was at work.      *)
(***************************************************************************)
EXTENDS TwoLevelCache, FiniteSets

CONSTANTS
    Callers,       \* browser tabs
    Bodies,        \* the texts of the calls' bodies
    Hash(_),       \* the 32-bit hash of a text, the key
    MaxRetries,    \* retries of a call (3 in the code)
    MaxCalls,      \* bound on the calls made
    Crashes        \* bound on the restarts of server processes

VARIABLES
    pc,            \* caller -> idle, waiting, reading, backoff, done
    call,          \* caller -> [number, body, attempt] of its current call
    exchanges,     \* requests at the server: [caller, number, attempt, process, body, phase, answer]
    executions,    \* JSON answers worked out since the last restart, while their key lives:
                   \* [number, attempt, body]
    lapsed,        \* keys whose entry went while a request of theirs was at work
    calls,         \* calls made
    crashes        \* restarts so far

vars == <<redis, dict, pc, call, exchanges, executions, lapsed, calls,
          crashes>>

\* What a request is answered: JSON; a status that is retried (429, 502, 503, 504);
\* another error, or an event stream; that it is being worked on.
Answers == {"json", "retriable", "other", "409"}

Key(body) == Hash(body)

-----------------------------------------------------------------------------
\* The client.

Send(c, attempt) ==
    \E p \in Processes :
        exchanges' = exchanges \cup
            {[caller |-> c, number |-> call'[c].number, attempt |-> attempt, process |-> p,
              body |-> call'[c].body, phase |-> "sent", answer |-> "none"]}

Request(c, body) ==
    /\ pc[c] \in {"idle", "done"} /\ calls < MaxCalls
    /\ calls' = calls + 1
    /\ call' = [call EXCEPT ![c] = [number |-> calls + 1, body |-> body, attempt |-> 0]]
    /\ Send(c, 0)
    /\ pc' = [pc EXCEPT ![c] = "waiting"]
    /\ UNCHANGED <<redis, dict, executions, lapsed, crashes>>

End(c) == pc' = [pc EXCEPT ![c] = "done"]

\* An attempt failed in a way that is retried, unless it was the last one.
Fail(c) ==
    /\ IF call[c].attempt < MaxRetries THEN pc' = [pc EXCEPT ![c] = "backoff"] ELSE End(c)
    /\ UNCHANGED <<call, calls>>

\* The caller still listens to the attempt of an exchange.
Waits(e) ==
    /\ pc[e.caller] = "waiting"
    /\ e.number = call[e.caller].number /\ e.attempt = call[e.caller].attempt

\* The abort after 120 s, or the connection broke, with an answer that was under
\* way; the server goes on.
Timeout(c) ==
    /\ pc[c] = "waiting"
    /\ exchanges' = {e \in exchanges : ~(e.phase = "answered" /\ e.caller = c)}
    /\ Fail(c)
    /\ UNCHANGED <<redis, dict, executions, lapsed, crashes>>

\* The backoff is over.
Retry(c) ==
    /\ pc[c] = "backoff"
    /\ call' = [call EXCEPT ![c].attempt = @ + 1]
    /\ Send(c, call[c].attempt + 1)
    /\ pc' = [pc EXCEPT ![c] = "waiting"]
    /\ UNCHANGED <<redis, dict, executions, lapsed, calls, crashes>>

\* The answer's headers arrive in time.
Receive(e) ==
    LET c == e.caller IN
    /\ e.phase = "answered" /\ Waits(e)
    /\ exchanges' = exchanges \ {e}
    /\ IF e.answer = "retriable" THEN Fail(c)
       ELSE pc' = [pc EXCEPT ![c] = "reading"] /\ UNCHANGED <<call, calls>>
    /\ UNCHANGED <<redis, dict, executions, lapsed, crashes>>

\* response.json(), which no timer bounds any more: the body, or a broken connection.
Read(c) ==
    /\ pc[c] = "reading"
    /\ \/ End(c) /\ UNCHANGED <<call, calls>>
       \/ Fail(c)
    /\ UNCHANGED <<redis, dict, exchanges, executions, lapsed, crashes>>

-----------------------------------------------------------------------------
\* The server.

Become(e, f) == exchanges' = (exchanges \ {e}) \cup {f}

\* The answer of an attempt nobody waits for any more reaches nobody.
Answer(e, answer) ==
    exchanges' = (exchanges \ {e}) \cup
        (IF Waits(e) THEN {[e EXCEPT !.phase = "answered", !.answer = answer]} ELSE {})

\* mutant: the cache is awaited, and other requests run between its calls.
BlockedNever(p) == FALSE

\* cache_get and cache_set block the event loop of their process between them.
Blocked(p) == \E e \in exchanges : e.process = p /\ e.phase = "missed"

serverOnly == <<pc, call, calls, crashes>>

LookUp(e) ==
    /\ e.phase = "sent" /\ ~Blocked(e.process)
    /\ \E found \in Gets(e.process, Key(e.body)) :
          \/ found = None /\ Become(e, [e EXCEPT !.phase = "missed"])
          \/ /\ found # None
             /\ Answer(e, IF found = "PROCESSING" THEN "409" ELSE "json")
    /\ UNCHANGED <<redis, dict, executions, lapsed, serverOnly>>

AtWork == {e \in exchanges : e.phase \in {"missed", "running", "handled"}}

\* The entries of keys went: what was kept under them is no longer, and what is
\* at work has lost its mark.
Forget(gone) ==
    /\ executions' = {x \in executions : Key(x.body) \notin gone}
    /\ lapsed' = (lapsed \ gone) \cup {k \in gone : \E e \in AtWork : Key(e.body) = k}

\* The entry that makes room for a new one: the oldest of a full dictionary.
Evictee(p, k) ==
    IF Position(p, k) = 0 /\ Len(dict[p]) >= Capacity THEN {dict[p][1][1]} ELSE {}

Mark(e) ==
    /\ e.phase = "missed"
    /\ CacheSet(e.process, Key(e.body), "PROCESSING")
    /\ Forget(Evictee(e.process, Key(e.body)))
    /\ Become(e, [e EXCEPT !.phase = "running"])
    /\ UNCHANGED serverOnly

\* The handler ends.
Handle(e, answer) ==
    /\ e.phase = "running" /\ ~Blocked(e.process)
    /\ Become(e, [e EXCEPT !.phase = "handled", !.answer = answer])
    /\ executions' = IF answer = "json"
                     THEN executions \cup
                          {[number |-> e.number, attempt |-> e.attempt, body |-> e.body]}
                     ELSE executions
    /\ UNCHANGED <<redis, dict, lapsed, serverOnly>>

\* mutant: the key is freed after every handler.
KeepNothing(e) ==
    /\ e.phase = "handled" /\ ~Blocked(e.process)
    /\ CacheDelete(e.process, Key(e.body))
    /\ Answer(e, e.answer)
    /\ UNCHANGED <<executions, lapsed, serverOnly>>

\* An answer is kept, and an error frees the key; both touch the entry of the
\* key, whoever made it.
Keep(e) ==
    /\ e.phase = "handled" /\ ~Blocked(e.process)
    /\ \/ /\ e.answer = "json"
          /\ CacheSet(e.process, Key(e.body), "COMPLETED")
          /\ Forget(Evictee(e.process, Key(e.body)))
       \/ /\ e.answer # "json"
          /\ CacheDelete(e.process, Key(e.body))
          /\ UNCHANGED <<executions, lapsed>>
    /\ Answer(e, e.answer)
    /\ UNCHANGED serverOnly

\* The process restarts and loses its requests and its dictionary.
Crash(p) ==
    /\ crashes < Crashes
    /\ crashes' = crashes + 1
    /\ ForgetDict(p)
    /\ exchanges' = {e \in exchanges : e.process # p}
    /\ executions' = {} /\ lapsed' = {}
    /\ UNCHANGED <<redis, pc, call, calls>>

\* An entry's 300 s are over, whether its handler runs, a retry is under way or
\* nothing happens.  The dictionary is what answers when Redis does not.
Expire(k) ==
    /\ \/ ExpireInRedis(k) /\ UNCHANGED <<executions, lapsed>>
       \/ \E p \in Processes : ExpireInDict(p, k) /\ Forget({k})
    /\ UNCHANGED <<exchanges, serverOnly>>

-----------------------------------------------------------------------------

Init ==
    /\ CacheInit
    /\ pc = [c \in Callers |-> "idle"]
    /\ call = [c \in Callers |-> [number |-> 0, body |-> None, attempt |-> 0]]
    /\ exchanges = {} /\ executions = {} /\ lapsed = {} /\ calls = 0 /\ crashes = 0

Client(c) == Timeout(c) \/ Retry(c)

Server(e) ==
    \/ LookUp(e) \/ Mark(e) \/ Keep(e)
    \/ \E answer \in Answers \ {"409"} : Handle(e, answer)

Next ==
    \/ \E c \in Callers :
          \/ \E body \in Bodies : Request(c, body)
          \/ Client(c)
          \/ Read(c)
    \/ \E e \in exchanges : Server(e) \/ Receive(e)
    \/ \E p \in Processes : Crash(p)
    \/ \E k \in CacheKeys : Expire(k)

Spec == Init /\ [][Next]_vars

-----------------------------------------------------------------------------

\* Every variable keeps its type, and a request waits for an attempt that was sent.
TypeOK ==
    /\ pc \in [Callers -> {"idle", "waiting", "reading", "backoff", "done"}]
    /\ \A c \in Callers : call[c].attempt \in 0 .. MaxRetries /\ call[c].number \in 0 .. calls
    /\ \A p \in Processes : Len(dict[p]) <= Capacity
    /\ \A e \in exchanges : e.number \in 1 .. calls /\ e.attempt \in 0 .. MaxRetries

\* One process runs two handlers for one key only if the entry of the key went
\* under an earlier one, whatever Redis loses, keeps too long or forgets in a
\* restart: a retry that arrives while the first attempt is at work is turned away.
NoConcurrentDuplicate ==
    \A e, f \in AtWork : Key(e.body) = Key(f.body) /\ Key(e.body) \notin lapsed => e = f

\* However many attempts ask for it, work that ends in a JSON answer is done once
\* while its entry lives and the process does not restart: a retry after a lost
\* answer gets the kept one.
RetriesDoNotRepeat ==
    \A x, y \in executions : Key(x.body) = Key(y.body) /\ Key(x.body) \notin lapsed => x = y
=============================================================================
