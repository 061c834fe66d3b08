------------------------------- MODULE JwksCache -------------------------------
(***************************************************************************)
(* _JWKSCache: the signing keys of the Auth server, fetched under a lock   *)
(* when they are too old, when a token names an unknown key, and not       *)
(* sooner than a backoff after a failure.  A failed fetch empties it.      *)
(*                                                                         *)
(* The Auth server adds and removes keys at any time, also while a fetch   *)
(* is under way: what it answered may be old when it is stored.  document  *)
(* is what its address serves, caches before it included; present and      *)
(* absent are history variables: when each key was last in it or not.      *)
(***************************************************************************)
EXTENDS Integers

CONSTANTS
    Threads,       \* request threads
    Kids,          \* key ids
    Ttl,           \* JWKS_CACHE_TTL_SECONDS (300)
    MinRefresh,    \* JWKS_MIN_REFRESH_INTERVAL_SECONDS (30)
    Backoff,       \* JWKS_FAILURE_BACKOFF_SECONDS (5)
    MaxTime,       \* bound on the clock
    Never          \* no time

ASSUME TimesAssumption ==
    /\ Ttl \in Nat /\ MinRefresh \in Nat /\ Backoff \in Nat
    /\ Backoff <= MinRefresh /\ MinRefresh <= Ttl
    /\ MaxTime \in Nat /\ Never \notin Int /\ Never \notin Kids

VARIABLES
    clock,
    document,      \* the keys the Auth server publishes
    present,       \* key -> the last time it was published, or Never
    absent,        \* key -> the last time it was not
    keys,          \* _keys
    fetchedAt,     \* _fetched_at, or Never
    failedAt,      \* _failed_at, or Never
    holder,        \* thread in the lock that fetches: [thread, now, phase, read], or Never
    asks,          \* thread -> the key it wants, or Never
    answer,        \* thread -> [verdict, kid, since, at] of its last request: the key was
                   \* looked for from since, when the lock was taken, to at
    fetches        \* the last fetch before the current one, and its outcome: [at, ok]

vars == <<clock, document, present, absent, keys, fetchedAt, failedAt,
          holder, asks, answer, fetches>>

server == <<clock, document, present, absent>>

Verdict(verdict, kid, since, at) ==
    [verdict |-> verdict, kid |-> kid, since |-> since, at |-> at]

\* A request thread waits for the lock.
Ask(t, kid) ==
    /\ asks[t] = Never
    /\ asks' = [asks EXCEPT ![t] = kid]
    /\ UNCHANGED <<server, keys, fetchedAt, failedAt, holder, answer, fetches>>

\* mutant: a set of keys that is just as old as the ttl is still trusted.
TooOldAfter(now) == IF fetchedAt = Never THEN TRUE ELSE now - fetchedAt > Ttl

TooOld(now) == IF fetchedAt = Never THEN TRUE ELSE now - fetchedAt >= Ttl

\* mutant: an unknown key waits for the ttl.
UnknownKidWaits(kid, now) == FALSE

UnknownKid(kid, now) ==
    fetchedAt # Never /\ kid \notin keys /\ now - fetchedAt >= MinRefresh

\* mutant: a failure is retried at once.
BacksOffNever(now) == FALSE

BacksOff(now) == failedAt # Never /\ now - failedAt < Backoff

Decide(t, verdict, since) ==
    /\ answer' = [answer EXCEPT ![t] = Verdict(verdict, asks[t], since, clock)]
    /\ asks' = [asks EXCEPT ![t] = Never]
    /\ holder' = Never

Lookup(kid, from) == IF kid \in from THEN "accepted" ELSE "unknown"

\* key_for takes the lock: nothing to refresh, in the backoff, or a fetch begins.
Lock(t) ==
    LET refresh == TooOld(clock) \/ UnknownKid(asks[t], clock) IN
    /\ asks[t] # Never /\ holder = Never
    /\ \/ ~refresh /\ Decide(t, Lookup(asks[t], keys), clock)
       \/ refresh /\ BacksOff(clock) /\ Decide(t, "unavailable", clock)
       \/ /\ refresh /\ ~BacksOff(clock)
          /\ holder' = [thread |-> t, now |-> clock, phase |-> "asked", read |-> {}]
          /\ UNCHANGED <<asks, answer>>
    /\ UNCHANGED <<server, keys, fetchedAt, failedAt, fetches>>

\* The server answers with the document of this moment; the answer travels on.
Answers ==
    /\ holder # Never /\ holder.phase = "asked"
    /\ holder' = [holder EXCEPT !.phase = "answered", !.read = document]
    /\ UNCHANGED <<server, keys, fetchedAt, failedAt, asks, answer, fetches>>

\* mutant: the keys are stamped with the instant they are stored at.
StoresAsOfNow ==
    /\ holder # Never /\ holder.phase = "answered"
    /\ keys' = holder.read
    /\ fetchedAt' = clock /\ failedAt' = Never
    /\ fetches' = [at |-> holder.now, ok |-> TRUE]
    /\ Decide(holder.thread, Lookup(asks[holder.thread], holder.read), holder.now)
    /\ UNCHANGED server

\* What was answered replaces all keys, as of the instant the lock was taken; ids
\* published twice are left out with the unusable ones, as if not published.
FetchSucceeds ==
    /\ holder # Never /\ holder.phase = "answered"
    /\ keys' = holder.read
    /\ fetchedAt' = holder.now /\ failedAt' = Never
    /\ fetches' = [at |-> holder.now, ok |-> TRUE]
    /\ Decide(holder.thread, Lookup(asks[holder.thread], holder.read), holder.now)
    /\ UNCHANGED server

\* A timeout, a refused status or a malformed document, before or after the answer.
FetchFails ==
    /\ holder # Never
    /\ keys' = {}
    /\ fetchedAt' = Never /\ failedAt' = holder.now
    /\ fetches' = [at |-> holder.now, ok |-> FALSE]
    /\ Decide(holder.thread, "unavailable", holder.now)
    /\ UNCHANGED server

\* The Auth server rotates its keys.
Publish(new) ==
    /\ document' = new
    /\ present' = [k \in Kids |-> IF k \in new \cup document THEN clock ELSE present[k]]
    /\ absent' = [k \in Kids |-> IF k \notin new \cap document THEN clock ELSE absent[k]]
    /\ UNCHANGED <<clock, keys, fetchedAt, failedAt, holder, asks, answer, fetches>>

Tick ==
    /\ clock < MaxTime
    /\ clock' = clock + 1
    /\ present' = [k \in Kids |-> IF k \in document THEN clock + 1 ELSE present[k]]
    /\ absent' = [k \in Kids |-> IF k \notin document THEN clock + 1 ELSE absent[k]]
    /\ UNCHANGED <<document, keys, fetchedAt, failedAt, holder, asks, answer, fetches>>

Init ==
    /\ clock = 0
    /\ document \in SUBSET Kids
    /\ present = [k \in Kids |-> IF k \in document THEN 0 ELSE Never]
    /\ absent = [k \in Kids |-> IF k \notin document THEN 0 ELSE Never]
    /\ keys = {} /\ fetchedAt = Never /\ failedAt = Never
    /\ holder = Never
    /\ asks = [t \in Threads |-> Never]
    /\ answer = [t \in Threads |-> Verdict("none", Never, 0, 0)]
    /\ fetches = [at |-> Never, ok |-> FALSE]

Next ==
    \/ \E t \in Threads : Lock(t) \/ \E kid \in Kids : Ask(t, kid)
    \/ Answers \/ FetchSucceeds \/ FetchFails
    \/ \E new \in SUBSET Kids : Publish(new)
    \/ Tick

Spec == Init /\ [][Next]_vars

-----------------------------------------------------------------------------

Times == Nat \cup {Never}

Fetches == [thread : Threads, now : Nat, phase : {"asked", "answered"}, read : SUBSET Kids]

Verdicts ==
    [verdict : {"none", "accepted", "unknown", "unavailable"}, kid : Kids \cup {Never},
     since : Nat, at : Nat]

\* Every variable keeps its type; keys are kept only from a successful fetch.
TypeOK ==
    /\ clock \in Nat /\ document \in SUBSET Kids /\ keys \in SUBSET Kids
    /\ present \in [Kids -> Times] /\ absent \in [Kids -> Times]
    /\ fetchedAt \in Times /\ failedAt \in Times
    /\ holder \in Fetches \cup {Never}
    /\ asks \in [Threads -> Kids \cup {Never}]
    /\ answer \in [Threads -> Verdicts]
    /\ fetches \in [at : Times, ok : BOOLEAN]
    /\ fetchedAt = Never => keys = {}

\* A key that the server withdrew is accepted only while the ttl has not passed
\* since it was last served, or by the very check whose fetch was under way at
\* the withdrawal.  An answer may be read before a rotation and stored after it,
\* however long it travels: stamped when the lock was taken, it does not make
\* the window longer.
RevokedKeyWindow ==
    \A t \in Threads : answer[t].verdict = "accepted" =>
        LET kid == answer[t].kid IN
        /\ present[kid] # Never
        /\ present[kid] > answer[t].at - Ttl \/ present[kid] >= answer[t].since

\* A new key is refused as unknown only until the refresh interval has passed
\* since it was published, or by the very check whose fetch was under way then.
NewKeyWindow ==
    \A t \in Threads : answer[t].verdict = "unknown" =>
        LET kid == answer[t].kid IN
        /\ absent[kid] # Never
        /\ absent[kid] > answer[t].at - MinRefresh \/ absent[kid] >= answer[t].since

\* Fetches are spaced: after one that failed by the backoff, after one that
\* succeeded by the refresh interval, whatever keys tokens name.
FetchesAreThrottled ==
    holder # Never /\ fetches.at # Never =>
        holder.now - fetches.at >= IF fetches.ok THEN MinRefresh ELSE Backoff
=============================================================================
