--------------------------- MODULE OwnerPageProofs ----------------------------
(***************************************************************************)
(* What the owner page shows.                                              *)
(*                                                                         *)
(* First the private session, for any number of identities and of          *)
(* superseded attempts: the view is always of an identity the server       *)
(* accepted since the last lock.  The view alone is not inductive: an      *)
(* attempt authorizes with what it learnt several answers earlier.         *)
(* AttemptOK carries that knowledge: the attempt that holds gen began      *)
(* after the last lock, the controller's key is its identity, and past the *)
(* headers the server has accepted it.                                     *)
(*                                                                         *)
(* Then the MFA flow beside it, in each of the parts of the page: there    *)
(* the theorems of OwnerMfaFlow are used as they are instantiated.         *)
(***************************************************************************)
EXTENDS MCOwnerPage, TLAPS

(* The answers an attempt may hold, and what its turn guarantees.          *)
AttemptOK(a) == attempts[a] # NULL =>
  /\ attempts[a].at \in {"session", "again"} => attempts[a].got \in Opt(Identities)
  /\ attempts[a].at \in {"headers", "body"} /\ attempts[a].arrived
       => attempts[a].got \in Failures \cup {"ok"}
  /\ attempts[a].at # "session" => attempts[a].first \in Identities
  /\ gen = a =>
       /\ a \notin before
       /\ attempts[a].at # "session" => key = attempts[a].first
       /\ \/ attempts[a].at \in {"body", "again"}
          \/ attempts[a].at = "headers" /\ attempts[a].arrived /\ attempts[a].got = "ok"
          => attempts[a].first \in granted

AttemptInv == \A a \in Attempts : AttemptOK(a)

IInv == TypeOK /\ ViewIsOfAcceptedSession /\ InflightIsAlive /\ AttemptInv

-----------------------------------------------------------------------------
(* The steps of an attempt that has its turn.                              *)

Turn(a) ==
  /\ a \in Attempts /\ attempts[a] # NULL /\ ~Stale(a)
  /\ before' = {b \in before : attempts'[b] # NULL}
  /\ UNCHANGED <<world, fresh, unlocked, granted>>

(* The facts about attempt a that its steps rest on.                       *)
LEMMA TurnFacts ==
  ASSUME IInv, NEW a, Turn(a)
  PROVE  /\ a \in Attempts /\ attempts[a] \in Attempt /\ AttemptOK(a)
         /\ gen = a /\ inflight = a /\ unlocked /\ a \notin before
         /\ UNCHANGED <<session, owners, api, fresh, unlocked, granted>>
         /\ before' \in SUBSET Attempts
         /\ before' = {b \in before : attempts'[b] # NULL}
<1>1. a \in Attempts /\ attempts[a] # NULL /\ gen = a /\ unlocked BY DEF Turn, Stale
<1>2. attempts[a] \in Attempt BY <1>1 DEF IInv, TypeOK, Opt
<1>3. AttemptOK(a) BY <1>1 DEF IInv, AttemptInv
<1>4. a \notin before BY <1>1, <1>3 DEF AttemptOK
<1>5. inflight = a BY <1>1 DEF IInv, InflightIsAlive
<1>6. before' \in SUBSET Attempts BY DEF IInv, TypeOK, Turn
<1> QED BY <1>1, <1>2, <1>3, <1>4, <1>5, <1>6 DEF Turn, world

(* What concerns the other attempts survives: only a's continuation        *)
(* changed, and gen, if it changed, is a's or nobody's.                    *)
LEMMA OthersKept ==
  ASSUME IInv, NEW a \in Attempts, NEW x,
         attempts' = [attempts EXCEPT ![a] = x],
         gen' \in {gen, a, NULL}, gen' = gen => gen \in {a, NULL},
         AttemptOK(a)'
  PROVE  AttemptInv'
<1> SUFFICES ASSUME NEW b \in Attempts, b # a PROVE AttemptOK(b)'
  BY DEF AttemptInv
<1>1. attempts'[b] = attempts[b] BY DEF IInv, TypeOK
<1>2. gen' # b BY SessionAssumption
<1>3. AttemptOK(b) BY DEF IInv, AttemptInv
<1> QED BY <1>1, <1>2, <1>3 DEF AttemptOK

(* An attempt fails.                                                       *)
LEMMA FailStep ==
  ASSUME IInv, NEW a, Turn(a), NEW s \in Failures, Fail(a, s)
  PROVE  IInv'
<1> USE SessionAssumption, AttemptAssumption, TurnFacts
<1>1. /\ attempts' = [attempts EXCEPT ![a] = NULL] /\ attempts'[a] = NULL
      /\ inflight' = NULL /\ key' = NULL /\ recentOk' = FALSE
      /\ status' = s /\ summary' = NULL /\ gen' = gen /\ recentAttempt' = recentAttempt
  BY DEF Fail, Done, Publish, IInv, TypeOK
<1>2. TypeOK'
  <2>1. attempts' \in [Attempts -> Opt(Attempt)] BY <1>1 DEF IInv, TypeOK, Opt
  <2>2. status' \in Statuses /\ (summary' # NULL <=> status' = "AUTHORIZED")
    BY <1>1 DEF Statuses, Failures
  <2> QED BY <1>1, <2>1, <2>2 DEF IInv, TypeOK, Opt
<1>3. ViewIsOfAcceptedSession' BY <1>1 DEF ViewIsOfAcceptedSession
<1>4. InflightIsAlive' BY <1>1 DEF IInv, TypeOK, InflightIsAlive
<1>5. AttemptOK(a)' BY <1>1 DEF AttemptOK
<1>6. AttemptInv' BY <1>1, <1>5, OthersKept
<1> QED BY <1>2, <1>3, <1>4, <1>6 DEF IInv

(* An attempt goes on and suspends itself again: the parts that do not     *)
(* depend on what it learnt.                                               *)
LEMMA AwaitStep ==
  ASSUME IInv, NEW a, Turn(a), NEW at \in Awaits, NEW first \in Opt(Identities),
         NEW restarts \in 0..MaxRestarts, Await(a, at, first, restarts),
         gen' = a, inflight' = a,
         at # "session" => first \in Identities /\ key' = first,
         at \in {"body", "again"} => first \in granted
  PROVE  /\ attempts' \in [Attempts -> Opt(Attempt)]
         /\ InflightIsAlive' /\ AttemptInv'
<1> USE SessionAssumption, AttemptAssumption, TurnFacts
<1> DEFINE t == [at |-> at, arrived |-> FALSE, first |-> first, got |-> NULL,
                 restarts |-> restarts]
<1>1. t \in Attempt /\ t # NULL
  <2>1. at \in Awaits /\ FALSE \in BOOLEAN /\ first \in Opt(Identities)
        /\ NULL \in Opt(Identities) \cup Failures \cup {"ok"} /\ restarts \in 0..MaxRestarts
    BY DEF Opt
  <2>2. t \in Attempt BY ONLY <2>1 DEF Attempt
  <2> QED BY <2>2
<1>2. /\ t.at = at /\ t.arrived = FALSE /\ t.first = first /\ t.got = NULL
  OBVIOUS
<1>3. attempts' = [attempts EXCEPT ![a] = t] BY DEF Await
<1> HIDE DEF t
<1>4. attempts' \in [Attempts -> Opt(Attempt)] /\ attempts'[a] = t
  BY <1>1, <1>3 DEF IInv, TypeOK, Opt
<1>5. InflightIsAlive'
  BY <1>1, <1>3, <1>4 DEF IInv, TypeOK, InflightIsAlive
<1>6. a \notin before' /\ granted' = granted OBVIOUS
<1>7. AttemptOK(a)' BY <1>2, <1>4, <1>6 DEF AttemptOK, Opt, Awaits
<1>8. AttemptInv' BY <1>3, <1>7, OthersKept
<1> QED BY <1>4, <1>5, <1>8

(* The request leaves: the key becomes the identity of the attempt.        *)
LEMMA RequestStep ==
  ASSUME IInv, NEW a, Turn(a), attempts[a].at = "session", attempts[a].got # NULL,
         Request(a)
  PROVE  IInv'
<1> USE SessionAssumption, TurnFacts
<1> DEFINE i == attempts[a].got
<1>1. i \in Identities
  <2>1. AttemptOK(a) OBVIOUS
  <2>2. attempts[a].got \in Opt(Identities) BY <2>1 DEF AttemptOK, Turn
  <2> QED BY <2>2 DEF Opt
<1>2. attempts[a].restarts \in 0..MaxRestarts BY DEF Attempt
<1>3. /\ Await(a, "headers", i, attempts[a].restarts)
      /\ key' = i
      /\ UNCHANGED <<gen, inflight, recentOk, recentAttempt>>
  BY DEF Request
<1>4. \/ status' = status /\ summary' = summary /\ key \in {NULL, i}
      \/ status' = "AUTHORIZING" /\ summary' = NULL
  BY <1>3 DEF Request, Silent, Publish
<1> HIDE DEF i
<1>5. attempts' \in [Attempts -> Opt(Attempt)] /\ InflightIsAlive' /\ AttemptInv'
  BY <1>1, <1>2, <1>3, AwaitStep DEF Opt, Awaits
<1>6. TypeOK'
  <2>1. status' \in Statuses /\ summary' \in Opt(Identities)
        /\ (summary' # NULL <=> status' = "AUTHORIZED")
    BY <1>4 DEF Statuses, IInv, TypeOK, Opt
  <2> QED BY <1>1, <1>3, <1>5, <2>1 DEF IInv, TypeOK, Opt
<1>7. ViewIsOfAcceptedSession'
  BY <1>1, <1>3, <1>4 DEF IInv, TypeOK, Opt, ViewIsOfAcceptedSession
<1> QED BY <1>5, <1>6, <1>7 DEF IInv

(* The response belongs to somebody else: the attempt starts over.         *)
LEMMA RestartStep ==
  ASSUME IInv, NEW a, Turn(a), attempts[a].restarts < MaxRestarts, Restart(a)
  PROVE  IInv'
<1> USE SessionAssumption, TurnFacts
<1> DEFINE n == attempts[a].restarts + 1
<1>1. n \in 0..MaxRestarts
  <2>1. attempts[a].restarts \in 0..MaxRestarts BY DEF Attempt
  <2> QED BY <2>1
<1>2. /\ Await(a, "session", NULL, n)
      /\ gen' = a /\ inflight' = a /\ recentAttempt' = TRUE
      /\ status' = "IDLE" /\ summary' = NULL /\ key' = key /\ recentOk' = recentOk
  BY DEF Restart, Begin, Publish
<1> HIDE DEF n
<1>3. attempts' \in [Attempts -> Opt(Attempt)] /\ InflightIsAlive' /\ AttemptInv'
  BY <1>1, <1>2, AwaitStep DEF Opt, Awaits
<1>4. TypeOK'
  BY <1>2, <1>3 DEF IInv, TypeOK, Opt, Statuses
<1>5. ViewIsOfAcceptedSession' BY <1>2 DEF ViewIsOfAcceptedSession
<1> QED BY <1>3, <1>4, <1>5 DEF IInv

(* The headers or the body arrived well: the next answer is awaited.       *)
LEMMA ProceedStep ==
  ASSUME IInv, NEW a, Turn(a), NEW at \in {"body", "again"},
         \/ attempts[a].at = "headers" /\ attempts[a].arrived /\ attempts[a].got = "ok"
         \/ attempts[a].at = "body",
         Await(a, at, attempts[a].first, attempts[a].restarts), Silent,
         UNCHANGED <<gen, inflight, key, recentOk, recentAttempt>>
  PROVE  IInv'
<1> USE SessionAssumption, TurnFacts
<1>1. attempts[a].restarts \in 0..MaxRestarts BY DEF Attempt
<1>2. AttemptOK(a) /\ attempts[a] # NULL BY DEF Turn
<1>3. /\ attempts[a].first \in Identities /\ key' = attempts[a].first
      /\ attempts[a].first \in granted
  BY <1>2 DEF AttemptOK
<1>4. attempts' \in [Attempts -> Opt(Attempt)] /\ InflightIsAlive' /\ AttemptInv'
  BY <1>1, <1>3, AwaitStep DEF Opt, Awaits
<1>5. TypeOK' BY <1>4 DEF IInv, TypeOK, Silent
<1>6. ViewIsOfAcceptedSession' BY DEF IInv, ViewIsOfAcceptedSession, Silent
<1> QED BY <1>4, <1>5, <1>6 DEF IInv

(* The view is shown.                                                      *)
LEMMA AuthorizeStep ==
  ASSUME IInv, NEW a, Turn(a), attempts[a].at = "again", Authorize(a)
  PROVE  IInv'
<1> USE SessionAssumption, AttemptAssumption, TurnFacts
<1>1. AttemptOK(a) /\ attempts[a] # NULL BY DEF Turn
<1>2. /\ attempts[a].first \in Identities /\ key = attempts[a].first
      /\ attempts[a].first \in granted
  BY <1>1 DEF AttemptOK
<1>3. /\ attempts' = [attempts EXCEPT ![a] = NULL] /\ attempts'[a] = NULL
      /\ inflight' = NULL /\ recentOk' = TRUE
      /\ status' = "AUTHORIZED" /\ summary' = attempts[a].first
      /\ UNCHANGED <<gen, key, recentAttempt>>
  BY DEF Authorize, Done, Publish, IInv, TypeOK
<1>4. TypeOK'
  <2>1. attempts' \in [Attempts -> Opt(Attempt)] BY <1>3 DEF IInv, TypeOK, Opt
  <2> QED BY <1>2, <1>3, <2>1 DEF IInv, TypeOK, Opt, Statuses
<1>5. ViewIsOfAcceptedSession' BY <1>2, <1>3 DEF ViewIsOfAcceptedSession
<1>6. InflightIsAlive' BY <1>3 DEF IInv, TypeOK, InflightIsAlive
<1>7. AttemptOK(a)' BY <1>3 DEF AttemptOK
<1>8. AttemptInv' BY <1>3, <1>7, OthersKept
<1> QED BY <1>4, <1>5, <1>6, <1>8 DEF IInv

(* A superseded attempt ends without a trace.                              *)
LEMMA StaleStep ==
  ASSUME IInv, NEW a \in Attempts, attempts[a] # NULL, Stale(a), Done(a), Silent,
         UNCHANGED <<gen, inflight, key, recentOk, recentAttempt>>,
         before' = {b \in before : attempts'[b] # NULL},
         UNCHANGED <<world, fresh, unlocked, granted>>
  PROVE  IInv'
<1> USE SessionAssumption, AttemptAssumption DEF world
<1>1. attempts' = [attempts EXCEPT ![a] = NULL] /\ attempts'[a] = NULL
  BY DEF Done, IInv, TypeOK
<1>2. gen # a BY DEF Stale, IInv, InflightIsAlive
<1>3. TypeOK'
  <2>1. attempts' \in [Attempts -> Opt(Attempt)] BY <1>1 DEF IInv, TypeOK, Opt
  <2>2. before' \in SUBSET Attempts BY DEF IInv, TypeOK
  <2> QED BY <2>1, <2>2 DEF IInv, TypeOK, Silent
<1>4. ViewIsOfAcceptedSession' BY DEF IInv, ViewIsOfAcceptedSession, Silent
<1>5. InflightIsAlive' BY <1>1, <1>2 DEF IInv, TypeOK, InflightIsAlive
<1>6. AttemptInv'
  <2> SUFFICES ASSUME NEW b \in Attempts, attempts'[b] # NULL PROVE AttemptOK(b)'
    BY DEF AttemptInv, AttemptOK
  <2>1. b # a /\ attempts'[b] = attempts[b] BY <1>1 DEF IInv, TypeOK
  <2>2. AttemptOK(b) BY DEF IInv, AttemptInv
  <2> QED BY <2>1, <2>2 DEF AttemptOK
<1> QED BY <1>3, <1>4, <1>5, <1>6 DEF IInv

LEMMA ContinueStep ==
  ASSUME IInv, NEW a \in Attempts, Continue(a)
  PROVE  IInv'
<1>1. /\ attempts[a] # NULL /\ attempts[a].arrived
      /\ before' = {b \in before : attempts'[b] # NULL}
      /\ UNCHANGED <<world, fresh, unlocked, granted>>
  BY DEF Continue
<1>2. CASE Stale(a)
  BY <1>1, <1>2, StaleStep DEF Continue
<1>3. CASE ~Stale(a)
  <2>1. Turn(a) BY <1>1, <1>3 DEF Turn
  <2>2. "ERROR" \in Failures BY DEF Failures
  <2>3. CASE attempts[a].at = "session" /\ attempts[a].got = NULL /\ Fail(a, "ERROR")
    BY <2>1, <2>2, <2>3, FailStep
  <2>4. CASE attempts[a].at = "session" /\ attempts[a].got # NULL /\ Request(a)
    BY <2>1, <2>4, RequestStep
  <2>5. CASE attempts[a].got \in Failures /\ Fail(a, attempts[a].got)
    BY <2>1, <2>5, FailStep
  <2>6. CASE /\ attempts[a].at = "headers" /\ attempts[a].got = "ok"
             /\ Await(a, "body", attempts[a].first, attempts[a].restarts)
             /\ Silent /\ UNCHANGED <<gen, inflight, key, recentOk, recentAttempt>>
    BY <1>1, <2>1, <2>6, ProceedStep
  <2>7. CASE /\ attempts[a].at = "body" /\ attempts[a].got = "ok"
             /\ Await(a, "again", attempts[a].first, attempts[a].restarts)
             /\ Silent /\ UNCHANGED <<gen, inflight, key, recentOk, recentAttempt>>
    BY <2>1, <2>7, ProceedStep
  <2>8. CASE attempts[a].at = "again" /\ Conclude(a)
    <3>1. \/ Fail(a, "ERROR")
          \/ attempts[a].restarts < MaxRestarts /\ Restart(a)
          \/ Authorize(a)
      BY <2>8 DEF Conclude
    <3> QED BY <2>1, <2>2, <2>8, <3>1, FailStep, RestartStep, AuthorizeStep
  <2> QED BY <1>3, <2>3, <2>4, <2>5, <2>6, <2>7, <2>8 DEF Continue
<1> QED BY <1>2, <1>3

-----------------------------------------------------------------------------
(* The other steps.                                                        *)

(* Everything that was learnt is forgotten.                                *)
LEMMA InvalidateStep ==
  ASSUME IInv, Invalidate, Outdate, UNCHANGED attempts, unlocked' \in BOOLEAN,
         fresh' \in BOOLEAN, UNCHANGED world
  PROVE  IInv'
<1> USE SessionAssumption, AttemptAssumption
<1>1. /\ gen' = NULL /\ inflight' = NULL /\ key' = NULL
      /\ recentOk' = FALSE /\ recentAttempt' = FALSE
      /\ status' = "IDLE" /\ summary' = NULL /\ granted' = {}
      /\ before' \in SUBSET Attempts
      /\ UNCHANGED <<session, owners, api>>
  BY DEF Invalidate, Publish, Outdate, world
<1>2. TypeOK' BY <1>1 DEF IInv, TypeOK, Opt, Statuses
<1>3. ViewIsOfAcceptedSession' BY <1>1 DEF ViewIsOfAcceptedSession
<1>4. InflightIsAlive' BY <1>1 DEF InflightIsAlive
<1>5. AttemptInv'
  <2> SUFFICES ASSUME NEW a \in Attempts PROVE AttemptOK(a)' BY DEF AttemptInv
  <2>1. AttemptOK(a) /\ gen' # a BY <1>1 DEF IInv, AttemptInv
  <2> QED BY <2>1 DEF AttemptOK
<1> QED BY <1>2, <1>3, <1>4, <1>5 DEF IInv

(* The flow is not unlocked and the controller had nothing to forget.      *)
LEMMA IdleLockStep ==
  ASSUME IInv, OnLocked, Outdate, fresh' = FALSE, UNCHANGED world
  PROVE  IInv'
<1> USE SessionAssumption, AttemptAssumption
<1>1. CASE status # "IDLE" \/ inflight # NULL \/ key # NULL
  BY <1>1, InvalidateStep DEF OnLocked
<1>2. CASE status = "IDLE" /\ inflight = NULL /\ key = NULL
  <2>1. /\ UNCHANGED <<gen, inflight, key, recentOk, recentAttempt, status, summary,
                       attempts, session, owners, api>>
        /\ unlocked' = FALSE /\ granted' = {} /\ before' \in SUBSET Attempts
    BY <1>2 DEF OnLocked, Outdate, world
  <2>2. TypeOK' BY <2>1 DEF IInv, TypeOK
  <2>3. summary = NULL BY <1>2 DEF IInv, TypeOK
  <2>4. ViewIsOfAcceptedSession' BY <2>1, <2>3 DEF ViewIsOfAcceptedSession
  <2>5. \A a \in Attempts : attempts[a] # NULL => gen # a
    BY <1>2 DEF IInv, InflightIsAlive
  <2>6. InflightIsAlive' BY <1>2, <2>1, <2>5 DEF InflightIsAlive
  <2>7. AttemptInv'
    <3> SUFFICES ASSUME NEW a \in Attempts PROVE AttemptOK(a)' BY DEF AttemptInv
    <3>1. AttemptOK(a) /\ (attempts[a] # NULL => gen # a) BY <2>5 DEF IInv, AttemptInv
    <3> QED BY <2>1, <3>1 DEF AttemptOK
  <2> QED BY <2>2, <2>4, <2>6, <2>7 DEF IInv
<1> QED BY <1>1, <1>2

LEMMA UnlockStep ==
  ASSUME IInv, FlowPublishes(TRUE)
  PROVE  IInv'
<1> USE SessionAssumption, AttemptAssumption
<1>1. /\ OnUnlocked /\ unlocked' = TRUE /\ fresh' = TRUE
      /\ before' = {a \in before : attempts[a] # NULL}
      /\ before' \in SUBSET Attempts
      /\ UNCHANGED <<session, owners, api, granted>>
  BY DEF FlowPublishes, OnUnlocked, world, IInv, TypeOK
<1>2. CASE UNCHANGED <<gen, inflight, key, recentOk, recentAttempt, attempts>>
  <2>1. \/ UNCHANGED <<status, summary>>
        \/ status' = "UNCONFIGURED" /\ summary' = NULL
    <3>1. CASE ~api /\ Publish("UNCONFIGURED", NULL) BY <3>1 DEF Publish
    <3>2. CASE UNCHANGED <<status, summary>> BY <3>2
    <3>3. CASE \E a \in Attempts : attempts[a] = NULL /\ Begin(a, 0)
               /\ UNCHANGED <<key, recentOk, status, summary>>
      BY <3>3
    <3> QED BY <1>1, <3>1, <3>2, <3>3 DEF OnUnlocked
  <2>2. TypeOK' BY <1>1, <1>2, <2>1 DEF IInv, TypeOK, Statuses, Opt
  <2>3. ViewIsOfAcceptedSession'
    BY <1>1, <1>2, <2>1 DEF IInv, ViewIsOfAcceptedSession
  <2>4. InflightIsAlive' BY <1>1, <1>2 DEF IInv, InflightIsAlive
  <2>5. AttemptInv'
    <3> SUFFICES ASSUME NEW a \in Attempts PROVE AttemptOK(a)' BY DEF AttemptInv
    <3>1. AttemptOK(a) BY DEF IInv, AttemptInv
    <3> QED BY <1>1, <1>2, <3>1 DEF AttemptOK
  <2> QED BY <2>2, <2>3, <2>4, <2>5 DEF IInv
<1>3. CASE /\ \E a \in Attempts : attempts[a] = NULL /\ Begin(a, 0)
           /\ UNCHANGED <<key, recentOk, status, summary>>
           /\ ~Settled
  <2>1. PICK a \in Attempts : attempts[a] = NULL /\ Begin(a, 0) BY <1>3
  <2> DEFINE t == [at |-> "session", arrived |-> FALSE, first |-> NULL, got |-> NULL,
                   restarts |-> 0]
  <2>2. /\ gen' = a /\ inflight' = a /\ recentAttempt' = TRUE
        /\ attempts' = [attempts EXCEPT ![a] = t]
    BY <2>1 DEF Begin, Await
  <2>3. t \in Attempt /\ t # NULL
    <3>1. /\ "session" \in Awaits /\ NULL \in Opt(Identities) /\ 0 \in 0..MaxRestarts
          /\ NULL \in Opt(Identities) \cup Failures \cup {"ok"}
      BY DEF Awaits, Opt
    <3>2. t \in Attempt BY <3>1 DEF Attempt
    <3> QED BY <3>2
  <2>4. t.at = "session" /\ t.arrived = FALSE /\ t.got = NULL OBVIOUS
  <2> HIDE DEF t
  <2>5. attempts' \in [Attempts -> Opt(Attempt)] /\ attempts'[a] = t
    BY <2>2, <2>3 DEF IInv, TypeOK, Opt
  <2>6. TypeOK' BY <1>1, <1>3, <2>2, <2>5 DEF IInv, TypeOK, Opt
  <2>7. ViewIsOfAcceptedSession'
    BY <1>1, <1>3 DEF IInv, ViewIsOfAcceptedSession
  <2>8. InflightIsAlive'
    BY <1>1, <2>2, <2>3, <2>5 DEF IInv, TypeOK, InflightIsAlive
  <2>9. a \notin before' BY <1>1, <2>1
  <2>10. AttemptInv'
    <3> SUFFICES ASSUME NEW b \in Attempts PROVE AttemptOK(b)' BY DEF AttemptInv
    <3>1. CASE b = a BY <3>1, <2>4, <2>5, <2>9 DEF AttemptOK, Opt
    <3>2. CASE b # a
      <4>1. attempts'[b] = attempts[b] /\ gen' # b BY <3>2, <2>2 DEF IInv, TypeOK
      <4>2. AttemptOK(b) BY DEF IInv, AttemptInv
      <4> QED BY <4>1, <4>2 DEF AttemptOK
    <3> QED BY <3>1, <3>2
  <2> QED BY <2>6, <2>7, <2>8, <2>10 DEF IInv
<1> QED BY <1>1, <1>2, <1>3 DEF OnUnlocked

(* The answer an attempt awaits arrives; the server's acceptance is        *)
(* recorded for the attempts begun since the last lock.                    *)
LEMMA AnswerStep ==
  ASSUME IInv, NEW a \in Attempts, Answer(a)
  PROVE  IInv'
<1> USE SessionAssumption, AttemptAssumption
<1> DEFINE r == attempts[a]
<1>1. r # NULL /\ ~r.arrived /\ r \in Attempt /\ AttemptOK(a)
  BY DEF Answer, IInv, TypeOK, Opt, AttemptInv
<1>2. PICK g \in Answers(a) :
        /\ attempts' = [attempts EXCEPT ![a] =
             [at |-> r.at, arrived |-> TRUE, first |-> r.first, got |-> g,
              restarts |-> r.restarts]]
        /\ granted' = IF r.at = "headers" /\ g = "ok" /\ a \notin before
                      THEN granted \cup {r.first} ELSE granted
  BY DEF Answer
<1> DEFINE t == [at |-> r.at, arrived |-> TRUE, first |-> r.first, got |-> g,
                 restarts |-> r.restarts]
<1>3. UNCHANGED <<session, owners, api, fresh, unlocked, gen, inflight, key, recentOk,
                  recentAttempt, status, summary, before>>
  BY DEF Answer, world
<1>4. r.at \in Awaits /\ r.first \in Opt(Identities) /\ r.restarts \in 0..MaxRestarts
  BY <1>1 DEF Attempt
<1>5. /\ r.at \in {"session", "again"} => g \in Opt(Identities)
      /\ r.at \in {"headers", "body"} => g \in Failures \cup {"ok"}
  <2>1. CASE r.at \in {"session", "again"}
    BY <2>1 DEF Answers, IInv, TypeOK
  <2>2. CASE r.at = "headers" BY <2>2 DEF Answers
  <2>3. CASE r.at = "body" BY <2>3 DEF Answers, Failures
  <2> QED BY <1>4, <2>1, <2>2, <2>3 DEF Awaits
<1>6. t \in Attempt /\ t # NULL
  <2>1. g \in Opt(Identities) \cup Failures \cup {"ok"} BY <1>4, <1>5 DEF Awaits
  <2>2. t \in Attempt BY <1>4, <2>1 DEF Attempt
  <2> QED BY <2>2
<1>7. t.at = r.at /\ t.arrived = TRUE /\ t.first = r.first /\ t.got = g OBVIOUS
<1>8. attempts' = [attempts EXCEPT ![a] = t] BY <1>2
<1> HIDE DEF t, r
<1>9. attempts' \in [Attempts -> Opt(Attempt)] /\ attempts'[a] = t
  BY <1>6, <1>8 DEF IInv, TypeOK, Opt
<1>10. r.at = "headers" => r.first \in Identities BY <1>1 DEF AttemptOK, r
<1>11. granted \subseteq granted' /\ granted' \in SUBSET Identities
  BY <1>2, <1>10 DEF IInv, TypeOK
<1>12. TypeOK' BY <1>3, <1>9, <1>11 DEF IInv, TypeOK
<1>13. ViewIsOfAcceptedSession' BY <1>3, <1>11 DEF IInv, ViewIsOfAcceptedSession
<1>14. InflightIsAlive'
  BY <1>1, <1>3, <1>6, <1>8, <1>9 DEF IInv, TypeOK, InflightIsAlive, r
<1>15. AttemptInv'
  <2> SUFFICES ASSUME NEW b \in Attempts PROVE AttemptOK(b)' BY DEF AttemptInv
  <2>1. CASE b = a
    <3>1. r.at # "session" => r.first \in Identities BY <1>1 DEF AttemptOK, r
    <3>2. gen = a => a \notin before /\ (r.at # "session" => key = r.first)
      BY <1>1 DEF AttemptOK, r
    <3>3. gen = a /\ r.at \in {"body", "again"} => r.first \in granted
      BY <1>1 DEF AttemptOK, r
    <3>4. gen = a /\ r.at = "headers" /\ g = "ok" => r.first \in granted'
      BY <1>2, <3>2 DEF r
    <3> QED BY <2>1, <1>3, <1>5, <1>7, <1>9, <1>11, <3>1, <3>2, <3>3, <3>4 DEF AttemptOK
  <2>2. CASE b # a
    <3>1. attempts'[b] = attempts[b] BY <2>2, <1>8 DEF IInv, TypeOK
    <3>2. AttemptOK(b) BY DEF IInv, AttemptInv
    <3> QED BY <1>3, <1>11, <3>1, <3>2 DEF AttemptOK
  <2> QED BY <2>1, <2>2
<1> QED BY <1>12, <1>13, <1>14, <1>15 DEF IInv

(* A step of the world: sessions, owners and clocks.                       *)
LEMMA WorldStep ==
  ASSUME IInv, session' \in Opt(Identities), owners' \in SUBSET Identities,
         fresh' \in BOOLEAN, recentOk' \in BOOLEAN, recentAttempt' \in BOOLEAN,
         UNCHANGED <<api, unlocked, gen, inflight, key, status, summary, attempts,
                     before, granted>>
  PROVE  IInv'
<1>1. TypeOK' BY DEF IInv, TypeOK
<1>2. ViewIsOfAcceptedSession' BY DEF IInv, ViewIsOfAcceptedSession
<1>3. InflightIsAlive' BY DEF IInv, InflightIsAlive
<1>4. AttemptInv' BY DEF IInv, AttemptInv, AttemptOK
<1> QED BY <1>1, <1>2, <1>3, <1>4 DEF IInv

-----------------------------------------------------------------------------

LEMMA InitOK == Init => IInv
<1> SUFFICES ASSUME Init PROVE IInv OBVIOUS
<1> USE SessionAssumption DEF Init
<1>1. TypeOK BY DEF TypeOK, Opt, Statuses
<1>2. ViewIsOfAcceptedSession BY DEF ViewIsOfAcceptedSession
<1>3. InflightIsAlive BY DEF InflightIsAlive
<1>4. AttemptInv BY DEF AttemptInv, AttemptOK
<1> QED BY <1>1, <1>2, <1>3, <1>4 DEF IInv

LEMMA StepOK == IInv /\ [Next]_vars => IInv'
<1> SUFFICES ASSUME IInv, [Next]_vars PROVE IInv' OBVIOUS
<1>0. /\ session \in Opt(Identities) /\ owners \in SUBSET Identities
      /\ fresh \in BOOLEAN /\ recentOk \in BOOLEAN /\ recentAttempt \in BOOLEAN
  BY DEF IInv, TypeOK
<1>1. CASE FlowPublishes(TRUE) BY <1>1, UnlockStep
<1>2. CASE FlowPublishes(FALSE)
  BY <1>2, IdleLockStep DEF FlowPublishes
<1>3. CASE InvalidateCalled
  <2>1. unlocked' \in BOOLEAN BY <1>3 DEF InvalidateCalled, IInv, TypeOK
  <2> QED BY <1>0, <1>3, <2>1, InvalidateStep DEF InvalidateCalled
<1>4. ASSUME NEW a \in Attempts, Continue(a) PROVE IInv' BY <1>4, ContinueStep
<1>5. ASSUME NEW a \in Attempts, Answer(a) PROVE IInv' BY <1>5, AnswerStep
<1>6. ASSUME NEW s \in Opt(Identities), SessionChanges(s) PROVE IInv'
  BY <1>0, <1>6, WorldStep DEF SessionChanges
<1>7. ASSUME NEW o \in SUBSET Identities, OwnersChange(o) PROVE IInv'
  BY <1>0, <1>7, WorldStep DEF OwnersChange
<1>8. CASE OkAges BY <1>0, <1>8, WorldStep DEF OkAges, world
<1>9. CASE AttemptAges BY <1>0, <1>9, WorldStep DEF AttemptAges, world
<1>10. CASE FlowAges BY <1>0, <1>10, WorldStep DEF FlowAges, world
<1>11. CASE UNCHANGED vars BY <1>0, <1>11, WorldStep DEF vars, world
<1> QED BY <1>1, <1>2, <1>3, <1>4, <1>5, <1>6, <1>7, <1>8, <1>9, <1>10, <1>11 DEF Next

(* The controller is well typed, and a view exists exactly while it is     *)
(* AUTHORIZED.                                                             *)
THEOREM SessionTypeCorrect == Spec => []TypeOK
<1>1. IInv => TypeOK BY DEF IInv
<1> QED BY <1>1, InitOK, StepOK, PTL DEF Spec

(* However many attempts were superseded and in whatever order their       *)
(* answers arrive, the view shown is of the identity the controller holds, *)
(* accepted by the server since the last lock, under an unlocked flow.     *)
THEOREM ViewAlwaysAccepted == Spec => []ViewIsOfAcceptedSession
<1>1. IInv => ViewIsOfAcceptedSession BY DEF IInv
<1> QED BY <1>1, InitOK, StepOK, PTL DEF Spec

(* inflight never names an attempt that has ended, so no later event is    *)
(* coalesced for nothing.                                                  *)
THEOREM InflightAlwaysAlive == Spec => []InflightIsAlive
<1>1. IInv => InflightIsAlive BY DEF IInv
<1> QED BY <1>1, InitOK, StepOK, PTL DEF Spec

LEMMA ClearedFirst ==
  ASSUME IInv, [Next]_vars, summary # NULL, summary' # NULL
  PROVE  summary' = summary
<1> USE DEF Silent, Publish
<1>1. CASE FlowPublishes(TRUE) BY <1>1 DEF FlowPublishes, OnUnlocked
<1>2. CASE FlowPublishes(FALSE) BY <1>2 DEF FlowPublishes, OnLocked, Invalidate
<1>3. CASE InvalidateCalled BY <1>3 DEF InvalidateCalled, Invalidate
<1>4. ASSUME NEW a \in Attempts, Continue(a) PROVE summary' = summary
  <2>1. CASE UNCHANGED summary BY <2>1
  <2>2. CASE Request(a) BY <2>2 DEF Request
  <2>3. CASE attempts[a].at = "again" /\ ~Stale(a) /\ Authorize(a)
    <3>1. AttemptOK(a) /\ attempts[a] # NULL /\ gen = a
      BY <1>4, <2>3 DEF IInv, AttemptInv, Continue, Stale
    <3>2. key = attempts[a].first BY <2>3, <3>1 DEF AttemptOK
    <3>3. summary = key BY DEF IInv, ViewIsOfAcceptedSession
    <3> QED BY <2>3, <3>2, <3>3 DEF Authorize
  <2> QED BY <1>4, <2>1, <2>2, <2>3 DEF Continue, Fail, Conclude, Restart
<1>5. ASSUME NEW a \in Attempts, Answer(a) PROVE summary' = summary BY <1>5 DEF Answer
<1>6. CASE \/ \E s \in Opt(Identities) : SessionChanges(s)
           \/ \E o \in SUBSET Identities : OwnersChange(o)
           \/ OkAges \/ AttemptAges \/ FlowAges \/ UNCHANGED vars
  BY <1>6 DEF SessionChanges, OwnersChange, OkAges, AttemptAges, FlowAges, vars
<1> QED BY <1>1, <1>2, <1>3, <1>4, <1>5, <1>6 DEF Next

(* A view is never replaced by another one without being cleared, even     *)
(* when the session changes while a revalidation is awaiting its answers.  *)
THEOREM ViewClearedFirst == Spec => ViewIsClearedFirst
<1>1. IInv /\ [Next]_vars
        => [summary # NULL /\ summary' # NULL => summary' = summary]_vars
  BY ClearedFirst
<1> QED BY <1>1, InitOK, StepOK, PTL DEF Spec, ViewIsClearedFirst

-----------------------------------------------------------------------------
(* The parts of the page                                                   *)

PartsInv ==
  /\ part = "prompt" => Prompt!IInv /\ Prompt!WinInv
  /\ part = "flow" => Flow!IInv /\ Flow!WinInv
  /\ part = "refused" => Refused!IInv

LEMMA PartsInit == PageInit => PartsInv
<1>1. part = "prompt" /\ Prompt!Init => Prompt!IInv /\ Prompt!WinInv
  BY PageAssumption, Prompt!InitInv, Prompt!InitWins
<1>2. part = "flow" /\ Flow!Init => Flow!IInv /\ Flow!WinInv
  BY PageAssumption, Flow!InitInv, Flow!InitWins
<1>3. part = "refused" /\ Refused!Init => Refused!IInv
  BY PageAssumption, Refused!InitInv
<1> QED BY <1>1, <1>2, <1>3 DEF PageInit, PartsInv

LEMMA PartsNext == ASSUME PartsInv, [PageNext]_pageVars PROVE PartsInv'
<1>1. part' = part BY DEF PageNext, pageVars
<1>2. ASSUME part = "prompt" PROVE Prompt!IInv' /\ Prompt!WinInv'
  <2>1. [Prompt!Next]_(Prompt!vars)
    BY <1>2 DEF PageNext, pageVars, flowVars, Prompt!vars, Prompt!flow, Prompt!server
  <2>2. Prompt!IInv /\ Prompt!WinInv BY <1>2 DEF PartsInv
  <2> QED BY <2>1, <2>2, PageAssumption, Prompt!NextInv, Prompt!NextWins
<1>3. ASSUME part = "flow" PROVE Flow!IInv' /\ Flow!WinInv'
  <2>1. [Flow!Next]_(Flow!vars)
    BY <1>3 DEF PageNext, pageVars, flowVars, Flow!vars, Flow!flow, Flow!server
  <2>2. Flow!IInv /\ Flow!WinInv BY <1>3 DEF PartsInv
  <2> QED BY <2>1, <2>2, PageAssumption, Flow!NextInv, Flow!NextWins
<1>4. ASSUME part = "refused" PROVE Refused!IInv'
  <2>1. [Refused!Next]_(Refused!vars)
    BY <1>4 DEF PageNext, pageVars, flowVars, Refused!vars, Refused!flow, Refused!server
  <2>2. Refused!IInv BY <1>4 DEF PartsInv
  <2> QED BY <2>1, <2>2, PageAssumption, Refused!NextInv
<1> QED BY <1>1, <1>2, <1>3, <1>4 DEF PartsInv

(* What the page shows of its MFA flow is true in every part: over calls   *)
(* that end with their timeout, over sign-ins that outlive it, and over a  *)
(* provider whose sign-out fails (mfa_flow.js:10-11, :169 and :246).       *)
THEOREM ShownStateIsTrue == PageSpec => []StateIsTrue
<1>1. ASSUME PartsInv PROVE StateIsTrue
  <2>1. part = "prompt" => /\ Prompt!TypeOK /\ Prompt!OpenHasSession
                           /\ Prompt!PendingOnlyWhenOpen /\ Prompt!RestIsCurrent
    BY <1>1, Prompt!RestFollows DEF PartsInv, Prompt!IInv
  <2>2. part = "flow" => Flow!TypeOK /\ Flow!OpenHasSession /\ Flow!RestIsCurrent
    BY <1>1, Flow!RestFollows DEF PartsInv, Flow!IInv
  <2>3. part = "refused" => Refused!OpenHasSession /\ Refused!PendingOnlyWhenOpen
    BY <1>1 DEF PartsInv, Refused!IInv
  <2> QED BY <2>1, <2>2, <2>3 DEF StateIsTrue
<1> QED BY PartsInit, PartsNext, <1>1, PTL DEF PageSpec

(* mfa_flow.js:13, sign-out always wins, in the parts whose provider       *)
(* answers a sign-out.                                                     *)
THEOREM PageSignOutWins == PageSpec => []SignOutWins
<1>1. ASSUME PartsInv PROVE SignOutWins
  BY <1>1 DEF PartsInv, SignOutWins, Prompt!WinInv, Flow!WinInv
<1> QED BY PartsInit, PartsNext, <1>1, PTL DEF PageSpec
=============================================================================
