---------------------------- MODULE PrivateSession ----------------------------
(***************************************************************************)
(* createPrivateSession (frontend/owner/js/private_session.js): the        *)
(* controller that shows the private view of the owner page only while the *)
(* MFA flow is UNLOCKED and the server accepted the session's token.       *)
(*                                                                         *)
(* An authorization attempt awaits four answers: the session, the response *)
(* headers, the response body and the session again.  Between any two of   *)
(* them the flow may lock or unlock, the SDK session may change, the       *)
(* server may revoke the owner, and newer attempts may start; aborted      *)
(* attempts keep running and their answers still arrive.                   *)
(*                                                                         *)
(* Abstractions.  An identity stands for sessionKeyOf (user and session    *)
(* id); a summary is the identity it was authorized for.  A clock compared *)
(* with a window is a Boolean, "still inside the window", that time may    *)
(* turn off.  gen is only compared for equality, so it is the attempt that *)
(* holds the latest value, NULL when an invalidation does.                 *)
(***************************************************************************)
EXTENDS Naturals, FiniteSets

CONSTANTS
  Identities,   \* user and session id pairs
  Attempts,     \* bound: attempts, live or superseded, awaiting an answer
  MaxRestarts,  \* MAX_RESTARTS
  BodiesArrive, \* whether every response body ends (fairness only)
  NULL

ASSUME SessionAssumption ==
  /\ NULL \notin Identities \cup Attempts
  /\ MaxRestarts \in Nat /\ BodiesArrive \in BOOLEAN

VARIABLES
  session,       \* the identity getSession returns (NULL: signed out)
  owners,        \* the identities the server's owner check accepts
  fresh,         \* the flow was checked within MAX_FRESH_MS
  api,           \* a private API is configured
  unlocked, gen, inflight, key,   \* the controller's own variables
  recentOk,      \* now - lastOk < revalidateMs
  recentAttempt, \* now - lastAttempt < retryMs
  status, summary,
  attempts,      \* the continuation of each attempt (NULL: none)
  before,        \* history: attempts that began before the last invalidation
  granted        \* history: identities the server accepted since then, in an
                 \* attempt that began since then

world == <<session, owners, api>>
vars == <<world, fresh, unlocked, gen, inflight, key, recentOk, recentAttempt,
          status, summary, attempts, before, granted>>

Failures == {"DENIED", "SERVER_UNAVAILABLE", "UNREACHABLE", "MALFORMED", "ERROR"}
Statuses == Failures \cup {"IDLE", "AUTHORIZING", "AUTHORIZED", "UNCONFIGURED"}

Opt(S) == S \cup {NULL}

(* Where an attempt awaits, and what it holds: the identity of its request *)
(* and the last answer, once it arrived ("none" until then).               *)
Awaits == {"session", "headers", "body", "again"}
Attempt == [at : Awaits, arrived : BOOLEAN, first : Opt(Identities),
            got : Opt(Identities) \cup Failures \cup {"ok"}, restarts : 0..MaxRestarts]

ASSUME AttemptAssumption == NULL \notin Attempt

Publish(s, v) == status' = s /\ summary' = v
Silent == UNCHANGED <<status, summary>>

-----------------------------------------------------------------------------
(* The controller                                                          *)

(* The attempt suspends itself.                                            *)
Await(a, at, first, restarts) ==
  attempts' = [attempts EXCEPT ![a] =
    [at |-> at, arrived |-> FALSE, first |-> first, got |-> NULL, restarts |-> restarts]]

(* attempt(restarts) up to its first await.                                *)
Begin(a, restarts) ==
  /\ gen' = a /\ inflight' = a /\ recentAttempt' = TRUE
  /\ Await(a, "session", NULL, restarts)

Invalidate ==
  /\ gen' = NULL /\ inflight' = NULL /\ key' = NULL
  /\ recentOk' = FALSE /\ recentAttempt' = FALSE
  /\ Publish("IDLE", NULL)

(* Nothing to do: an attempt is in flight, or the last one is recent.      *)
\* mutant: a view is never revalidated
SettledForGood ==
  \/ inflight # NULL
  \/ status = "AUTHORIZED"
  \/ status \in Failures \cup {"UNCONFIGURED"} /\ recentAttempt

Settled ==
  \/ inflight # NULL
  \/ status = "AUTHORIZED" /\ recentOk
  \/ status \in Failures \cup {"UNCONFIGURED"} /\ recentAttempt

OnLocked ==
  /\ unlocked' = FALSE
  /\ IF status # "IDLE" \/ inflight # NULL \/ key # NULL THEN Invalidate
     ELSE UNCHANGED <<gen, inflight, key, recentOk, recentAttempt, status, summary>>
  /\ UNCHANGED attempts

OnUnlocked ==
  /\ unlocked' = TRUE
  /\ \/ /\ ~api
        /\ Publish("UNCONFIGURED", NULL)
        /\ UNCHANGED <<gen, inflight, key, recentOk, recentAttempt, attempts>>
     \/ /\ api /\ Settled
        /\ UNCHANGED <<gen, inflight, key, recentOk, recentAttempt, status, summary, attempts>>
     \/ /\ api /\ ~Settled
        /\ \E a \in Attempts : attempts[a] = NULL /\ Begin(a, 0)
        /\ UNCHANGED <<key, recentOk, status, summary>>

(* The attempt lost its turn.                                              *)
\* mutant: only a lock makes an attempt stale
StaleWhenLocked(a) == ~unlocked

Stale(a) == gen # a \/ ~unlocked

Done(a) == attempts' = [attempts EXCEPT ![a] = NULL]

(* fail(status), reached only by an attempt that is not stale.             *)
\* mutant: a failed attempt stays in flight
FailInFlight(a, s) ==
  /\ Done(a)
  /\ key' = NULL /\ recentOk' = FALSE
  /\ Publish(s, NULL)
  /\ UNCHANGED <<gen, inflight, recentAttempt>>

Fail(a, s) ==
  /\ Done(a)
  /\ inflight' = NULL /\ key' = NULL /\ recentOk' = FALSE
  /\ Publish(s, NULL)
  /\ UNCHANGED <<gen, recentAttempt>>

(* The first session is known: a view of another identity is cleared, then *)
(* the request leaves.                                                     *)
\* mutant: the view of another identity stays
RequestKeepsView(a) ==
  /\ key' = attempts[a].got
  /\ IF status = "AUTHORIZED" THEN Silent ELSE Publish("AUTHORIZING", NULL)
  /\ Await(a, "headers", attempts[a].got, attempts[a].restarts)
  /\ UNCHANGED <<gen, inflight, recentOk, recentAttempt>>

Request(a) ==
  /\ key' = attempts[a].got
  /\ IF status = "AUTHORIZED" /\ key \in {NULL, key'} THEN Silent
     ELSE Publish("AUTHORIZING", NULL)
  /\ Await(a, "headers", attempts[a].got, attempts[a].restarts)
  /\ UNCHANGED <<gen, inflight, recentOk, recentAttempt>>

(* The response belongs to somebody else: start over, a few times.         *)
Restart(a) ==
  /\ Publish("IDLE", NULL)
  /\ Begin(a, attempts[a].restarts + 1)
  /\ UNCHANGED <<key, recentOk>>

CanRenderPrivate == unlocked /\ fresh

Authorize(a) ==
  /\ Done(a)
  /\ inflight' = NULL /\ recentOk' = TRUE
  /\ Publish("AUTHORIZED", attempts[a].first)
  /\ UNCHANGED <<gen, key, recentAttempt>>

(* The second session is known.                                            *)

Conclude(a) ==
  LET second == attempts[a].got IN
  \/ second = NULL /\ Fail(a, "ERROR")
  \/ /\ second \notin {NULL, attempts[a].first}
     /\ IF attempts[a].restarts < MaxRestarts THEN Restart(a) ELSE Fail(a, "ERROR")
  \/ /\ second = attempts[a].first
     /\ IF CanRenderPrivate THEN Authorize(a) ELSE Fail(a, "ERROR")

(* An attempt goes on with the answer it awaited.                          *)
Continue(a) ==
  /\ attempts[a] # NULL /\ attempts[a].arrived
  /\ IF Stale(a)
     THEN /\ Done(a)
          /\ Silent /\ UNCHANGED <<gen, inflight, key, recentOk, recentAttempt>>
     ELSE \/ /\ attempts[a].at = "session"
             /\ IF attempts[a].got = NULL THEN Fail(a, "ERROR") ELSE Request(a)
          \/ /\ attempts[a].at \in {"headers", "body"} /\ attempts[a].got \in Failures
             /\ Fail(a, attempts[a].got)
          \/ /\ attempts[a].at = "headers" /\ attempts[a].got = "ok"
             /\ Await(a, "body", attempts[a].first, attempts[a].restarts)
             /\ Silent /\ UNCHANGED <<gen, inflight, key, recentOk, recentAttempt>>
          \/ /\ attempts[a].at = "body" /\ attempts[a].got = "ok"
             /\ Await(a, "again", attempts[a].first, attempts[a].restarts)
             /\ Silent /\ UNCHANGED <<gen, inflight, key, recentOk, recentAttempt>>
          \/ attempts[a].at = "again" /\ Conclude(a)
  /\ before' = {b \in before : attempts'[b] # NULL}
  /\ UNCHANGED <<world, fresh, unlocked, granted>>

(* The history variables forget everything that precedes an invalidation.  *)
Outdate ==
  /\ before' = {a \in Attempts : attempts[a] # NULL}
  /\ granted' = {}

(* The flow publishes its state; the listener runs synchronously.          *)
FlowPublishes(isUnlocked) ==
  /\ fresh' = isUnlocked
  /\ IF isUnlocked THEN OnUnlocked ELSE OnLocked
  /\ IF isUnlocked
     THEN /\ before' = {a \in before : attempts[a] # NULL}
          /\ UNCHANGED granted
     ELSE Outdate
  /\ UNCHANGED world

(* The exported invalidate().                                              *)
InvalidateCalled ==
  /\ Invalidate /\ Outdate
  /\ UNCHANGED <<world, fresh, unlocked, attempts>>

-----------------------------------------------------------------------------
(* What the controller depends on                                          *)

(* The answer an attempt awaits arrives.  The fetch may also be aborted;   *)
(* once the headers are there nothing bounds the wait for the body.        *)
Answers(a) ==
  CASE attempts[a].at \in {"session", "again"} -> {session}
    [] attempts[a].at = "headers" ->
         Failures \cup (IF attempts[a].first \in owners THEN {"ok"} ELSE {})
    [] attempts[a].at = "body" -> {"ok", "MALFORMED"}

Answer(a) ==
  /\ attempts[a] # NULL /\ ~attempts[a].arrived
  /\ \E g \in Answers(a) :
       /\ attempts' = [attempts EXCEPT ![a] =
            [at |-> attempts[a].at, arrived |-> TRUE, first |-> attempts[a].first,
             got |-> g, restarts |-> attempts[a].restarts]]
       /\ granted' = IF attempts[a].at = "headers" /\ g = "ok" /\ a \notin before
                     THEN granted \cup {attempts[a].first} ELSE granted
  /\ UNCHANGED <<world, fresh, unlocked, gen, inflight, key, recentOk, recentAttempt,
                 status, summary, before>>

(* The SDK session changes: sign-in, sign-out, expiry.  A token refresh    *)
(* keeps the identity.                                                     *)
SessionChanges(s) ==
  /\ session' = s
  /\ UNCHANGED <<owners, api, fresh, unlocked, gen, inflight, key, recentOk,
                 recentAttempt, status, summary, attempts, before, granted>>

(* The server starts or stops accepting an identity.                       *)
OwnersChange(o) ==
  /\ owners' = o
  /\ UNCHANGED <<session, api, fresh, unlocked, gen, inflight, key, recentOk,
                 recentAttempt, status, summary, attempts, before, granted>>

(* A window closes.                                                        *)
OkAges ==
  /\ recentOk /\ recentOk' = FALSE
  /\ UNCHANGED <<world, fresh, unlocked, gen, inflight, key, recentAttempt,
                 status, summary, attempts, before, granted>>

AttemptAges ==
  /\ recentAttempt /\ recentAttempt' = FALSE
  /\ UNCHANGED <<world, fresh, unlocked, gen, inflight, key, recentOk,
                 status, summary, attempts, before, granted>>

FlowAges ==
  /\ fresh /\ fresh' = FALSE
  /\ UNCHANGED <<world, unlocked, gen, inflight, key, recentOk, recentAttempt,
                 status, summary, attempts, before, granted>>

-----------------------------------------------------------------------------

Init ==
  /\ session \in Opt(Identities) /\ owners \in SUBSET Identities /\ api \in BOOLEAN
  /\ fresh = FALSE /\ unlocked = FALSE
  /\ gen = NULL /\ inflight = NULL /\ key = NULL
  /\ recentOk = FALSE /\ recentAttempt = FALSE
  /\ status = "IDLE" /\ summary = NULL
  /\ attempts = [a \in Attempts |-> NULL]
  /\ before = {} /\ granted = {}

Next ==
  \/ \E u \in BOOLEAN : FlowPublishes(u)
  \/ InvalidateCalled
  \/ \E a \in Attempts : Continue(a)
  \/ \E a \in Attempts : Answer(a)
  \/ \E s \in Opt(Identities) : SessionChanges(s)
  \/ \E o \in SUBSET Identities : OwnersChange(o)
  \/ OkAges \/ AttemptAges \/ FlowAges

Spec == Init /\ [][Next]_vars

(* Answers arrive (a fetch is aborted after timeoutMs) and continuations   *)
(* run; time passes; while UNLOCKED the flow publishes again and again,    *)
(* since the page refreshes it every 30 s.  Nothing is assumed of the      *)
(* owners, the SDK session or the flow's locking.                          *)
Fairness ==
  /\ \A a \in Attempts :
       /\ WF_vars(Answer(a) /\ (BodiesArrive \/ attempts[a].at # "body"))
       /\ WF_vars(Continue(a))
  /\ WF_vars(OkAges) /\ WF_vars(AttemptAges)
  /\ WF_vars(unlocked /\ FlowPublishes(TRUE))

FairSpec == Spec /\ Fairness

-----------------------------------------------------------------------------
(* Properties                                                              *)

(* Type correctness; a view exists exactly while AUTHORIZED.               *)
TypeOK ==
  /\ session \in Opt(Identities) /\ owners \in SUBSET Identities
  /\ api \in BOOLEAN /\ fresh \in BOOLEAN /\ unlocked \in BOOLEAN
  /\ recentOk \in BOOLEAN /\ recentAttempt \in BOOLEAN
  /\ gen \in Opt(Attempts) /\ inflight \in Opt(Attempts) /\ key \in Opt(Identities)
  /\ status \in Statuses /\ summary \in Opt(Identities)
  /\ summary # NULL <=> status = "AUTHORIZED"
  /\ attempts \in [Attempts -> Opt(Attempt)]
  /\ before \in SUBSET Attempts /\ granted \in SUBSET Identities

(* Lines 5-6 of the source: a view is shown only while the flow is         *)
(* UNLOCKED, of the identity the controller holds, and only after the      *)
(* server accepted that identity in an attempt begun since the last lock.  *)
ViewIsOfAcceptedSession ==
  summary # NULL => unlocked /\ summary = key /\ summary \in granted

(* The attempt in flight is the current one and is still running: a        *)
(* forgotten inflight would coalesce every later event and no view would   *)
(* be authorized or revalidated again.                                     *)
InflightIsAlive ==
  /\ inflight # NULL => inflight = gen /\ attempts[inflight] # NULL
  /\ \A a \in Attempts :
       attempts[a] # NULL /\ gen = a => inflight = a /\ unlocked

(* A view is never replaced by another one: it is cleared in between.      *)
ViewIsClearedFirst ==
  [][summary # NULL /\ summary' # NULL => summary' = summary]_vars

(* An identity the server stops accepting for good stops being shown.      *)
RevokedViewIsHidden ==
  \A i \in Identities : <>[](i \notin owners) => <>[](summary # i)

=============================================================================
