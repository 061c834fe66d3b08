--------------------------- MODULE MCInfrastructure ---------------------------
(* What the requests of the backend pass through; a behaviour follows one  *)
(* of three parts:                                                         *)
(*   "keys"      threads that look up signing keys (JwksCache);            *)
(*   "requests"  tabs that retry against one process whose Redis server    *)
(*               fails at any call, whose dictionary is full with the      *)
(*               first key, and which restarts once (IdempotentRequests);  *)
(*   "limits"    one client's requests at the windows of several processes *)
(*               that share a Redis server which fails at any call         *)
(*               (RateLimiter, with a cache of its own).                   *)
EXTENDS JwksCache, FiniteSets, TLC

CONSTANTS x1, x2,       \* threads, bodies and workers: a behaviour has one kind of them
          None,
          Capacity,                                 \* of TwoLevelCache
          Callers, Bodies, Digest,                  \* of IdempotentRequests, Digest[text]
          MaxRetries, MaxCalls, Crashes,            \* being the hash of a body's text
          Workers, Requests, Limit, Period, Wait,   \* of RateLimiter, MaxTime being
          Horizon                                   \* Horizon

Keys == {Digest[body] : body \in Bodies}

TextHash(text) == Digest[text]

Kept == {"PROCESSING", "COMPLETED"}

Histories == [history : SUBSET Requests, written : Nat]

ASSUME RequestAssumption ==
  /\ Capacity \in Nat \ {0}
  /\ MaxRetries \in Nat /\ MaxCalls \in Nat /\ Crashes \in Nat
  /\ None \notin Kept

ASSUME LimitAssumption ==
  /\ IsFiniteSet(Requests) /\ None \notin Workers
  /\ Limit \in Nat /\ Period \in Nat /\ Wait \in Nat /\ Horizon \in Nat
  /\ None \notin Histories

VARIABLES
  part,
  redis, dict,                                            \* of TwoLevelCache
  pc, call, exchanges, executions, lapsed, calls, crashes, \* of IdempotentRequests
  shared, copies,                                         \* of RateLimiter's TwoLevelCache
  time, request, queue, failed, overtaken                 \* of RateLimiter

requestVars == <<redis, dict, pc, call, exchanges, executions, lapsed, calls, crashes>>
limitVars == <<shared, copies, time, request, queue, failed, overtaken>>
allVars == <<part, vars, requestVars, limitVars>>

Requesting == INSTANCE IdempotentRequests WITH
  Processes <- {"p"}, CacheKeys <- Keys, UsesRedis <- TRUE, RedisFails <- TRUE,
  Hash <- TextHash

Limiting == INSTANCE RateLimiter WITH
  Processes <- Workers, CacheKeys <- {"history"}, UsesRedis <- TRUE, RedisFails <- TRUE,
  MaxTime <- Horizon, clock <- time, redis <- shared, dict <- copies

TheDigest == [text \in {x1, x2} |-> text]

Symmetry == Permutations({x1, x2}) \cup Permutations(Requests)

-----------------------------------------------------------------------------
InfrastructureInit ==
  /\ part \in {"keys", "requests", "limits"}
  /\ Init /\ Requesting!Init /\ Limiting!Init
  /\ part # "keys" => document = {}

InfrastructureNext ==
  \/ part = "keys" /\ Next /\ UNCHANGED <<part, requestVars, limitVars>>
  \/ part = "requests" /\ Requesting!Next /\ UNCHANGED <<part, vars, limitVars>>
  \/ part = "limits" /\ Limiting!Next /\ UNCHANGED <<part, vars, requestVars>>

InfrastructureSpec == InfrastructureInit /\ [][InfrastructureNext]_allVars

-----------------------------------------------------------------------------
(* However a request is retried, and whatever the cache forgets or keeps   *)
(* too long, one process runs two handlers for one key at once, or does    *)
(* finished work again, only when the entry of the key had expired or was  *)
(* evicted under a handler (IdempotencyMiddleware in backend/api/main.py). *)
NoRequestIsRepeated ==
  part = "requests" =>
    /\ Requesting!TypeOK /\ Requesting!NoConcurrentDuplicate
    /\ Requesting!RetriesDoNotRepeat

(* The window admits as many requests as its limit unless a Redis call     *)
(* fails or one process overtakes another, which one process alone never   *)
(* meets; it refuses none before the limit is used up, whatever happens    *)
(* (RateLimiter.check in backend/infrastructure/limiter.py).               *)
WindowIsExact ==
  part = "limits" =>
    /\ Limiting!TypeOK /\ Limiting!AtMostLimit /\ Limiting!OvertakenByAnother
    /\ Limiting!RefusedOnlyAtLimit
=============================================================================
