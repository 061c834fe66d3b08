---------------------------- MODULE TwoLevelCache ----------------------------
(***************************************************************************)
(* redis_cache: a Redis server that every process of the backend shares,   *)
(* and a dictionary in each process that every write also goes to.  A read *)
(* prefers Redis and falls back to the dictionary; a Redis call that fails *)
(* is only logged, and a call that timed out may have been executed.       *)
(***************************************************************************)
EXTENDS Naturals, Sequences, SequencesExt

CONSTANTS
    Processes,     \* server processes
    CacheKeys,     \* the keys in use
    None,          \* no entry
    UsesRedis,     \* whether a Redis server is configured
    RedisFails,    \* whether calls to it may fail
    Capacity       \* entries of a dictionary (150 in the code)

VARIABLES
    redis,         \* key -> entry of the Redis server
    dict           \* process -> its entries <<key, value>>, oldest key first

cache == <<redis, dict>>

CacheInit ==
    /\ redis = [k \in CacheKeys |-> None]
    /\ dict = [p \in Processes |-> <<>>]

Position(p, k) == SelectInSeq(dict[p], LAMBDA e : e[1] = k)

Local(p, k) == IF Position(p, k) = 0 THEN None ELSE dict[p][Position(p, k)][2]

\* The values cache_get may answer.
Gets(p, k) ==
    (IF UsesRedis
     THEN {IF redis[k] # None THEN redis[k] ELSE Local(p, k)} ELSE {})
    \cup (IF ~UsesRedis \/ RedisFails THEN {Local(p, k)} ELSE {})

RedisBecomes(k, v) ==
    \/ UsesRedis /\ redis' = [redis EXCEPT ![k] = v]
    \/ (~UsesRedis \/ RedisFails) /\ UNCHANGED redis

\* Python dictionaries keep the place of a key that is written again.
Written(entries, position, k, v) ==
    IF position # 0 THEN [entries EXCEPT ![position] = <<k, v>>]
    ELSE Append(entries, <<k, v>>)

Evicted(entries) == IF Len(entries) > Capacity THEN Tail(entries) ELSE entries

CacheSet(p, k, v) ==
    /\ RedisBecomes(k, v)
    /\ dict' = [dict EXCEPT ![p] = Evicted(Written(@, Position(p, k), k, v))]

Without(entries, position) == IF position = 0 THEN entries ELSE RemoveAt(entries, position)

CacheDelete(p, k) ==
    /\ RedisBecomes(k, None)
    /\ dict' = [dict EXCEPT ![p] = Without(@, Position(p, k))]

\* The ttl of an entry runs out; Redis and each process have a clock of their own.
ExpireInRedis(k) ==
    /\ redis[k] # None
    /\ redis' = [redis EXCEPT ![k] = None]
    /\ UNCHANGED dict

ExpireInDict(p, k) ==
    /\ Position(p, k) # 0
    /\ dict' = [dict EXCEPT ![p] = Without(@, Position(p, k))]
    /\ UNCHANGED redis

\* A process that restarts has an empty dictionary.
ForgetDict(p) == dict' = [dict EXCEPT ![p] = <<>>]
=============================================================================
