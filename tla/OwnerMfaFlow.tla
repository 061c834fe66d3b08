----------------------------- MODULE OwnerMfaFlow -----------------------------
(***************************************************************************)
(* createOwnerMfaFlow (frontend/owner/js/mfa_flow.js): the state machine   *)
(* of the owner page, from sign-in over TOTP enrolment or challenge to     *)
(* UNLOCKED, as the page (owner_app.js) drives it.  Refreshes, one         *)
(* exclusive operation, a sign-out and an abandoned enrolment run at the   *)
(* same time; each awaits SDK calls that answer, fail, or hang until the   *)
(* flow's own timeout rejects them, in which case the SDK may still finish *)
(* the call later.                                                         *)
(*                                                                         *)
(* The SDK (auth-js without a lock) and the Auth server are modelled from  *)
(* the surface the flow uses: the SDK saves a session, or removes it, and  *)
(* emits its event when the response of a call is delivered.               *)
(*                                                                         *)
(* Abstractions.  refreshSeq and epoch are only compared for equality: a   *)
(* refresh is marked stale, an operation outdated, when they move on.  An  *)
(* error, a malformed answer and a timeout are one failure.  checkedAt is  *)
(* left to PrivateSession, which asks for it.                              *)
(***************************************************************************)
EXTENDS Naturals, FiniteSets, TLAPS

CONSTANTS
  Factors,      \* TOTP factors
  Background,   \* bound: refreshes running beside the one of the operation
  MaxAttempts,  \* MAX_ENROLL_ATTEMPTS
  MaxSessions,  \* bound: sessions the server issues
  MaxLate,      \* bound: SDK calls running that nobody awaits
  CallsOutlive, \* whether a call may go on after the flow's timeout
  SignOutFails, \* whether the provider's sign-out may fail or hang
  NULL

VARIABLES
  state, factors, pending, signingOut, scheduled, \* the flow's variables
  refreshes,  \* each running refresh (NULL: none)
  op,         \* the operation that holds busy (NULL: none)
  leaving,    \* the SDK call of the sign-out (NULL: none)
  late,       \* SDK calls nobody awaits any more
  sdk,        \* the session in the SDK's memory (NULL: none)
  live,       \* sessions the server accepts
  issued,     \* sessions the server issued
  enrolled,   \* the server's status of each factor
  left        \* history: the sessions the owner signed out of

flow == <<state, factors, pending, signingOut, scheduled>>
server == <<live, issued, enrolled>>
vars == <<flow, refreshes, op, leaving, late, sdk, server, left>>

Opt(S) == S \cup {NULL}
Locked == {"SIGNED_OUT", "ERROR_LOCKED"}
Open == {"NEEDS_ENROLLMENT", "NEEDS_CHALLENGE", "UNLOCKED"}
Slots == Background \cup {"nested"}
Sessions == 1..MaxSessions
Levels == {"aal1", "aal2"}

SignOuts == {"signOut", "signOutAll"} \* the scopes local and global

(* An SDK call: what it asks, with which session's token, and the answer.  *)
Call == [does : {"signIn", "verify", "enroll", "unenroll"} \cup SignOuts,
         id : Opt(Sessions), factor : Opt(Factors), answer : {NULL, "ok", "failed"}]

Refresh == [at : {"session", "level", "factors"}, stale : BOOLEAN, id : Opt(Sessions),
            level : Opt(Levels), answer : {NULL, "ok", "missing"},
            verified : SUBSET Factors]

Operation == [kind : {"signIn", "enroll", "confirm", "challenge"}, call : Opt(Call),
              outdated : BOOLEAN]

Token == IF sdk = NULL THEN NULL ELSE sdk.id
Ask(does, f) == [does |-> does, id |-> Token, factor |-> f, answer |-> NULL]

-----------------------------------------------------------------------------
(* Publishing and superseding                                              *)

(* refreshSeq moves on: refreshes that run become stale, and what they     *)
(* read will not be published.                                             *)
Superseded(rs) ==
  [r \in Slots |->
    IF rs[r] = NULL THEN NULL
    ELSE [rs[r] EXCEPT !.stale = TRUE, !.level = NULL, !.verified = {}]]

(* epoch moves on: the operation that runs becomes outdated.               *)
Outdated(o) == IF o = NULL THEN NULL ELSE [o EXCEPT !.outdated = TRUE]

(* publish of a locking state: nothing that runs may be applied.           *)

Lock(s, rs, o) ==
  /\ state' = s /\ factors' = {} /\ pending' = NULL
  /\ refreshes' = Superseded(rs) /\ op' = Outdated(o)

(* notifyAuthEvent("SIGNED_OUT"): it always supersedes refreshes, and      *)
(* locks unless a sign-out runs.                                           *)
NotifySignedOut(rs, o) ==
  /\ IF signingOut
     THEN /\ refreshes' = Superseded(rs) /\ op' = o
          /\ UNCHANGED <<state, factors, pending>>
     ELSE Lock("SIGNED_OUT", rs, o)
  /\ UNCHANGED <<signingOut, scheduled>>

(* notifyAuthEvent of any other event: one coalesced refresh is scheduled. *)
\* mutant: an event during a running refresh is taken as covered by it
NotifyIfIdle ==
  scheduled' = (scheduled \/ (~signingOut /\ \A r \in Slots : refreshes[r] = NULL))

Notify == scheduled' = (scheduled \/ ~signingOut)

NewRefresh ==
  [at |-> "session", stale |-> FALSE, id |-> NULL, level |-> NULL, answer |-> NULL,
   verified |-> {}]

(* refresh() in a slot; nothing during a sign-out.                         *)
Start(r) ==
  refreshes' = IF signingOut THEN refreshes
               ELSE [Superseded(refreshes) EXCEPT ![r] = NewRefresh]

(* The operation ends with a refresh, whose end is its own.                *)
OpRefreshes ==
  /\ Start("nested")
  /\ op' = IF signingOut THEN NULL ELSE [op EXCEPT !.call = NULL]

-----------------------------------------------------------------------------
(* refresh                                                                 *)

(* The page's 30 s interval.                                               *)
Interval(r) ==
  /\ refreshes[r] = NULL /\ ~signingOut
  /\ Start(r)
  /\ UNCHANGED <<flow, op, leaving, late, sdk, server, left>>

RunScheduled(r) ==
  /\ scheduled /\ scheduled' = FALSE
  /\ refreshes[r] = NULL /\ Start(r)
  /\ UNCHANGED <<state, factors, pending, signingOut, op, leaving, late, sdk, server, left>>

(* The server answers GET /user.                                           *)
ServeFactors(r) ==
  /\ refreshes[r] # NULL /\ refreshes[r].at = "factors" /\ refreshes[r].answer = NULL
  /\ refreshes' = [refreshes EXCEPT
       ![r].answer = IF refreshes[r].id \in live THEN "ok" ELSE "missing",
       ![r].verified =
         {f \in Factors :
            ~refreshes[r].stale /\ refreshes[r].id \in live /\ enrolled[f] = "verified"}]
  /\ UNCHANGED <<flow, op, leaving, late, sdk, server, left>>

\* mutant: a refresh is stale only during a sign-out
StaleWhenLeaving(r) == signingOut

Stale(r) == refreshes[r].stale \/ signingOut

(* The refresh is over, and with it the operation it ends.                 *)
Without(r) == [refreshes EXCEPT ![r] = NULL]
OpWithout(r) == IF r = "nested" THEN NULL ELSE op

(* The state a session of some level with some verified factors is in.     *)
\* mutant: the level alone unlocks
StateByLevel(level, verified) ==
  IF level = "aal2" THEN "UNLOCKED"
  ELSE IF level = NULL THEN "ERROR_LOCKED"
  ELSE IF verified = {} THEN "NEEDS_ENROLLMENT" ELSE "NEEDS_CHALLENGE"

StateOf(level, verified) ==
  IF level = NULL \/ (level = "aal2" /\ verified = {}) THEN "ERROR_LOCKED"
  ELSE IF level = "aal2" THEN "UNLOCKED"
  ELSE IF verified = {} THEN "NEEDS_ENROLLMENT" ELSE "NEEDS_CHALLENGE"

Concludes(r, s, verified) ==
  IF s \in Locked THEN Lock(s, Without(r), OpWithout(r))
  ELSE /\ state' = s /\ factors' = verified
       /\ refreshes' = Without(r) /\ op' = OpWithout(r)
       /\ UNCHANGED pending

(* A refresh goes on.  The session and its level are read from the SDK's   *)
(* memory; any of the three calls may fail or time out.                    *)
ContinueRefresh(r) ==
  /\ refreshes[r] # NULL /\ refreshes[r].answer # "missing"
  /\ \/ /\ Stale(r)
        /\ refreshes' = Without(r) /\ op' = OpWithout(r)
        /\ UNCHANGED <<state, factors, pending>>
     \/ ~Stale(r) /\ Concludes(r, "ERROR_LOCKED", {})
     \/ /\ ~Stale(r) /\ refreshes[r].at = "session"
        /\ IF sdk = NULL THEN Concludes(r, "SIGNED_OUT", {})
           ELSE /\ refreshes' = [refreshes EXCEPT ![r].at = "level"]
                /\ UNCHANGED <<state, factors, pending, op>>
     \/ /\ ~Stale(r) /\ refreshes[r].at = "level"
        /\ refreshes' = [refreshes EXCEPT
             ![r].at = "factors", ![r].id = Token,
             ![r].level = IF sdk = NULL THEN NULL ELSE sdk.level]
        /\ UNCHANGED <<state, factors, pending, op>>
     \/ /\ ~Stale(r) /\ refreshes[r].at = "factors" /\ refreshes[r].answer = "ok"
        /\ Concludes(r, StateOf(refreshes[r].level, refreshes[r].verified), refreshes[r].verified)
  /\ UNCHANGED <<signingOut, scheduled, leaving, late, sdk, server, left>>

(* The server no longer knows the session: the SDK removes it, and its     *)
(* event overtakes the continuation of the refresh.                        *)
SessionMissing(r) ==
  /\ refreshes[r] # NULL /\ refreshes[r].answer = "missing"
  /\ sdk' = NULL
  /\ NotifySignedOut(Without(r), OpWithout(r))
  /\ UNCHANGED <<leaving, late, server, left>>

-----------------------------------------------------------------------------
(* Operations: the guards are the flow's and the page's own                *)

(* exclusive(fn): refreshes that run are stale from here on.               *)
Begin(kind, call) ==
  /\ op = NULL
  /\ op' = [kind |-> kind, call |-> call, outdated |-> FALSE]
  /\ refreshes' = Superseded(refreshes)
  /\ UNCHANGED <<state, factors, signingOut, scheduled, leaving, late, sdk, server, left>>

SignIn ==
  /\ state = "SIGNED_OUT"
  /\ Begin("signIn", Ask("signIn", NULL))
  /\ UNCHANGED pending

(* dropPending first, where an enrolment is pending.                       *)
BeginEnrollment ==
  /\ state \in {"NEEDS_ENROLLMENT", "UNLOCKED"}
  /\ Begin("enroll", IF pending = NULL THEN Ask("enroll", NULL)
                     ELSE Ask("unenroll", pending.factor))
  /\ pending' = NULL

ConfirmEnrollment ==
  /\ pending # NULL
  /\ Begin("confirm", Ask("verify", pending.factor))
  /\ UNCHANGED pending

Challenge(f) ==
  /\ state = "NEEDS_CHALLENGE" /\ f \in factors
  /\ Begin("challenge", Ask("verify", f))
  /\ UNCHANGED pending

(* The SDK saves the session of an answer, and its event is notified.      *)
Saves(call) == call.answer = "ok" /\ call.does \in {"signIn", "verify"}

SavedSession(call) ==
  [id |-> call.id, level |-> IF call.does = "signIn" THEN "aal1" ELSE "aal2"]

(* A call of the operation succeeded, after a lock: nothing is applied,    *)
(* and where the page shows SIGNED_OUT the session is closed again.        *)
Cleanup ==
  /\ op' = IF state = "SIGNED_OUT" /\ op.call.does # "enroll"
           THEN [op EXCEPT !.call = [does |-> "signOut", id |-> op.call.id,
                                     factor |-> NULL, answer |-> NULL]]
           ELSE NULL
  /\ UNCHANGED <<state, factors, pending, refreshes>>

(* A call of the operation succeeded.                                      *)
Succeeds ==
  IF op.outdated THEN Cleanup
  ELSE /\ CASE op.call.does = "enroll" ->
                 /\ pending' = [factor |-> op.call.factor, attempts |-> 0]
                 /\ op' = NULL /\ UNCHANGED refreshes
            [] op.kind = "confirm" -> pending' = NULL /\ OpRefreshes
            [] OTHER -> OpRefreshes /\ UNCHANGED pending
       /\ UNCHANGED <<state, factors>>

(* A code was rejected: it counts, and the last one abandons the factor.   *)

Rejected ==
  IF pending # NULL /\ pending.attempts + 1 >= MaxAttempts
  THEN /\ op' = [op EXCEPT !.call = Ask("unenroll", pending.factor)]
       /\ pending' = NULL /\ UNCHANGED refreshes
  ELSE /\ pending' = IF pending = NULL THEN NULL ELSE [pending EXCEPT !.attempts = @ + 1]
       /\ OpRefreshes

(* A call of the operation failed or timed out.                            *)
Fails ==
  /\ IF op.outdated \/ op.call.does = "enroll"
     THEN op' = NULL /\ UNCHANGED <<pending, refreshes>>
     ELSE IF op.kind = "confirm" THEN Rejected
     ELSE OpRefreshes /\ UNCHANGED pending
  /\ UNCHANGED <<state, factors>>

(* dropPending is over, however it ended.                                  *)
Dropped ==
  /\ IF op.kind = "enroll"
     THEN op' = [op EXCEPT !.call = Ask("enroll", NULL)] /\ UNCHANGED refreshes
     ELSE OpRefreshes
  /\ UNCHANGED <<state, factors, pending>>

(* The answer of the operation's call is delivered.                        *)
OpContinues ==
  /\ op # NULL /\ op.call # NULL /\ op.call.answer # NULL
  /\ CASE op.call.does = "unenroll" -> Dropped /\ UNCHANGED <<signingOut, scheduled>>
       [] op.call.does = "signOut" -> NotifySignedOut(refreshes, NULL)
       [] OTHER ->
            /\ IF op.call.answer = "ok" THEN Succeeds ELSE Fails
            /\ IF Saves(op.call) THEN Notify ELSE UNCHANGED scheduled
            /\ UNCHANGED signingOut
  /\ sdk' = IF Saves(op.call) THEN SavedSession(op.call)
            ELSE IF op.call.does = "signOut" THEN NULL ELSE sdk
  /\ UNCHANGED <<leaving, late, server, left>>

(* The flow's timeout rejects the call; the SDK may finish it later.       *)
Abandon(call) ==
  late' = IF Cardinality(late) < MaxLate THEN late \cup {call} ELSE late

OpTimesOut ==
  /\ op # NULL /\ op.call # NULL
  /\ CASE op.call.does = "unenroll" -> Dropped
       [] op.call.does = "signOut" -> op' = NULL /\ UNCHANGED <<state, factors, pending, refreshes>>
       [] OTHER -> Fails
  /\ IF CallsOutlive THEN Abandon(op.call) ELSE UNCHANGED late
  /\ UNCHANGED <<signingOut, scheduled, leaving, sdk, server, left>>

(* cancelEnrollment runs beside an operation; nothing follows its call.    *)
CancelEnrollment ==
  /\ pending # NULL /\ pending' = NULL
  /\ Abandon(Ask("unenroll", pending.factor))
  /\ UNCHANGED <<state, factors, signingOut, scheduled, refreshes, op, leaving, sdk, server, left>>

(* signOut: the flow locks first, then tells the provider.                 *)
SignOut(all) ==
  /\ state # "SIGNED_OUT"
  /\ signingOut' = TRUE /\ left' = left \cup ({Token} \ {NULL})
  /\ Lock("SIGNED_OUT", refreshes, op)
  /\ leaving' = Ask(IF all THEN "signOutAll" ELSE "signOut", NULL)
  /\ UNCHANGED <<scheduled, late, sdk, server>>

(* The provider's answer, or the timeout.  The SDK forgets the session     *)
(* even where the server refused, but not while the call hangs.            *)
SignedOut ==
  /\ leaving # NULL
  /\ \/ /\ leaving.answer # NULL
        /\ sdk' = NULL /\ UNCHANGED late
     \/ /\ SignOutFails
        /\ IF CallsOutlive THEN Abandon(leaving) ELSE UNCHANGED late
        /\ UNCHANGED sdk
  /\ signingOut' = FALSE /\ leaving' = NULL
  /\ Lock("SIGNED_OUT", refreshes, op)
  /\ UNCHANGED <<scheduled, server, left>>

-----------------------------------------------------------------------------
(* The server and the SDK                                                  *)

(* What the server accepts, and the answers it may give to a call.         *)
Permits(call) ==
  CASE call.does = "signIn" -> issued < MaxSessions
    [] call.does = "verify" -> call.id \in live /\ enrolled[call.factor] # "none"
    [] call.does \in {"enroll", "unenroll"} -> call.id \in live
    [] OTHER -> TRUE

Answers(call) ==
  (IF call.does \in SignOuts /\ ~SignOutFails THEN {}
   ELSE {[call EXCEPT !.answer = "failed"]})
  \cup
  (IF ~Permits(call) THEN {}
   ELSE IF call.does = "signIn" THEN {[call EXCEPT !.answer = "ok", !.id = issued + 1]}
   ELSE IF call.does = "enroll"
   THEN {[call EXCEPT !.answer = "ok", !.factor = f] : f \in {g \in Factors : enrolled[g] = "none"}}
   ELSE {[call EXCEPT !.answer = "ok"]})

(* What the server does when it answers.  Without a token there is nothing *)
(* to sign out at the server.                                              *)
Performs(done) ==
  IF done.answer = "failed" THEN UNCHANGED server
  ELSE /\ issued' = IF done.does = "signIn" THEN done.id ELSE issued
       /\ live' = CASE done.does = "signIn" -> live \cup {done.id}
                    [] done.does = "signOut" -> live \ {done.id}
                    [] done.does = "signOutAll" /\ done.id # NULL -> {}
                    [] OTHER -> live
       /\ enrolled' = CASE done.does = "enroll" -> [enrolled EXCEPT ![done.factor] = "unverified"]
                        [] done.does = "verify" -> [enrolled EXCEPT ![done.factor] = "verified"]
                        [] done.does = "unenroll" -> [enrolled EXCEPT ![done.factor] = "none"]
                        [] OTHER -> enrolled

Serves(call, done) == call.answer = NULL /\ done \in Answers(call) /\ Performs(done)

ServeOp ==
  /\ op # NULL /\ op.call # NULL
  /\ \E done \in Answers(op.call) :
       Serves(op.call, done) /\ op' = [op EXCEPT !.call = done]
  /\ UNCHANGED <<flow, refreshes, leaving, late, sdk, left>>

ServeLeaving ==
  /\ leaving # NULL
  /\ \E done \in Answers(leaving) : Serves(leaving, done) /\ leaving' = done
  /\ UNCHANGED <<flow, refreshes, op, late, sdk, left>>

ServeLate(call) ==
  /\ \E done \in Answers(call) :
       Serves(call, done) /\ late' = (late \ {call}) \cup {done}
  /\ UNCHANGED <<flow, refreshes, op, leaving, sdk, left>>

(* A call nobody awaits is finished by the SDK.                            *)
DeliverLate(call) ==
  /\ call.answer # NULL /\ late' = late \ {call}
  /\ \/ /\ Saves(call) /\ sdk' = SavedSession(call) /\ Notify
        /\ UNCHANGED <<state, factors, pending, signingOut, refreshes, op>>
     \/ /\ call.does \in SignOuts /\ sdk' = NULL
        /\ NotifySignedOut(refreshes, op)
     \/ /\ ~Saves(call) /\ call.does \notin SignOuts
        /\ UNCHANGED <<flow, refreshes, op, sdk>>
  /\ UNCHANGED <<leaving, server, left>>

(* The SDK refreshes the token, perhaps after a factor was removed.        *)
TokenRefreshed(level) ==
  /\ sdk # NULL /\ sdk.id \in live /\ level \in {sdk.level, "aal1"}
  /\ sdk' = [sdk EXCEPT !.level = level] /\ Notify
  /\ UNCHANGED <<state, factors, pending, signingOut, refreshes, op, leaving, late, server, left>>

(* The server refuses to refresh the token: the SDK gives the session up.  *)
SessionEnds ==
  /\ sdk # NULL /\ sdk' = NULL
  /\ live' = live \ {sdk.id}
  /\ NotifySignedOut(refreshes, op)
  /\ UNCHANGED <<leaving, late, issued, enrolled, left>>

(* Elsewhere, a session is revoked or a factor is removed.                 *)
Revoked(i) ==
  /\ i \in live /\ live' = live \ {i}
  /\ UNCHANGED <<flow, refreshes, op, leaving, late, sdk, issued, enrolled, left>>

FactorRemoved(f) ==
  /\ enrolled[f] # "none" /\ enrolled' = [enrolled EXCEPT ![f] = "none"]
  /\ UNCHANGED <<flow, refreshes, op, leaving, late, sdk, live, issued, left>>

-----------------------------------------------------------------------------

Init ==
  /\ state = "SIGNED_OUT" /\ factors = {} /\ pending = NULL
  /\ signingOut = FALSE /\ scheduled = FALSE
  /\ refreshes = [r \in Slots |-> NULL]
  /\ op = NULL /\ leaving = NULL /\ late = {}
  /\ sdk = NULL /\ live = {} /\ issued = 0
  /\ enrolled \in [Factors -> {"none", "verified"}]
  /\ left = {}

Next ==
  \/ \E r \in Background : Interval(r) \/ RunScheduled(r)
  \/ \E r \in Slots : ServeFactors(r) \/ ContinueRefresh(r) \/ SessionMissing(r)
  \/ SignIn \/ BeginEnrollment \/ ConfirmEnrollment \/ CancelEnrollment
  \/ \E f \in Factors : Challenge(f)
  \/ OpContinues \/ OpTimesOut
  \/ \E all \in BOOLEAN : SignOut(all)
  \/ SignedOut
  \/ ServeOp \/ ServeLeaving
  \/ \E call \in late : ServeLate(call) \/ DeliverLate(call)
  \/ \E level \in Levels : TokenRefreshed(level)
  \/ SessionEnds
  \/ \E i \in Sessions : Revoked(i)
  \/ \E f \in Factors : FactorRemoved(f)

Spec == Init /\ [][Next]_vars

-----------------------------------------------------------------------------
(* Properties                                                              *)

(* Type correctness.                                                       *)
TypeOK ==
  /\ state \in Locked \cup Open /\ factors \in SUBSET Factors
  /\ pending \in Opt([factor : Factors, attempts : 0..(MaxAttempts - 1)])
  /\ {signingOut, scheduled} \subseteq BOOLEAN
  /\ refreshes \in [Slots -> Opt(Refresh)]
  /\ op \in Opt(Operation) /\ leaving \in Opt(Call) /\ late \in SUBSET Call
  /\ sdk \in Opt([id : Sessions, level : Levels])
  /\ {live, left} \subseteq SUBSET Sessions /\ issued \in 0..MaxSessions
  /\ enrolled \in [Factors -> {"none", "unverified", "verified"}]

(* Lines 10-11 and 169 of the source: no enrolment, and so no secret, is   *)
(* pending while the flow is locked.                                       *)
PendingOnlyWhenOpen == pending # NULL => state \notin Locked

(* An open flow has a session in the SDK, and UNLOCKED a verified factor:  *)
(* no refresh publishes what it read of a session that is gone.            *)
OpenHasSession ==
  /\ state \in Open => sdk # NULL
  /\ state = "UNLOCKED" => factors # {}

(* Nothing runs, is scheduled or may still arrive.                         *)
Quiet ==
  /\ \A r \in Slots : refreshes[r] = NULL
  /\ op = NULL /\ leaving = NULL /\ late = {} /\ ~scheduled

(* At rest, a page that shows SIGNED_OUT keeps no session: no event is     *)
(* lost by coalescing, by superseding or by a sign-out.                    *)
RestIsCurrent == Quiet /\ state = "SIGNED_OUT" => sdk = NULL

(* Line 13 of the source: sign-out always wins.  No refresh that may still *)
(* be published has the answer of a session the owner signed out of.       *)
SignOutWins ==
  \A r \in Slots :
    refreshes[r] # NULL /\ refreshes[r].answer = "ok" /\ ~Stale(r) => refreshes[r].id \notin left

(* Line 12 of the source: a success after a lock closes its session.       *)
ClosesLateSuccess ==
  op # NULL /\ op.outdated /\ sdk' # sdk /\ sdk' # NULL /\ op' # op
    => op' # NULL /\ op'.call.does = "signOut"

-----------------------------------------------------------------------------
(* Proofs: what the theorems assume and their inductive invariants         *)

PendingFactor == [factor : Factors, attempts : 0..(MaxAttempts - 1)]
SdkSession == [id : Sessions, level : Levels]

(* MAX_ENROLL_ATTEMPTS is a number of attempts; NULL is none of the values.*)
FlowConstants ==
  /\ MaxAttempts \in Nat \ {0} /\ MaxSessions \in Nat /\ "nested" \notin Background
  /\ NULL \notin Sessions /\ NULL \notin Levels /\ NULL \notin PendingFactor
  /\ NULL \notin SdkSession /\ NULL \notin Refresh /\ NULL \notin Operation
  /\ NULL \notin Call /\ NULL \notin {"ok", "failed", "missing"}

Ids == 1..issued

(* An answered call names a session the server issued, or a factor.        *)
CallOK(call) == call.answer = "ok" =>
  /\ call.does \in {"signIn", "verify"} => call.id \in Ids
  /\ call.does = "enroll" => call.factor \in Factors

CallsOK == \A call \in late \cup ({leaving} \ {NULL}) : CallOK(call)

(* A call of an operation is never awaited beside the refresh it ends with.*)
OpFits(o, rs) ==
  /\ rs["nested"] # NULL => o # NULL
  /\ o # NULL /\ o.call # NULL =>
       /\ CallOK(o.call) /\ rs["nested"] = NULL
       /\ o.call.does = "enroll" => o.kind = "enroll"
       /\ ~o.outdated => o.call.does \notin SignOuts

(* An operation that no lock outdated runs in a state it may begin in.     *)
OpOpen == op # NULL /\ ~op.outdated /\ op.kind # "signIn" => state \notin Locked

(* What a refresh learnt is of a session that is not gone, and a sign-out  *)
(* supersedes it.                                                          *)
ReadOK == \A r \in Slots :
  refreshes[r] # NULL =>
    /\ refreshes[r].level # NULL => sdk # NULL
    /\ signingOut => refreshes[r].stale

(* A sign-out locks the flow while it runs.                                *)
LeavingOK ==
  /\ signingOut <=> leaving # NULL
  /\ signingOut => state = "SIGNED_OUT" /\ leaving.does \in SignOuts

KnownIds == live \cup left \subseteq Ids /\ (sdk # NULL => sdk.id \in Ids)

IInv ==
  /\ TypeOK /\ CallsOK /\ OpFits(op, refreshes) /\ OpOpen
  /\ ReadOK /\ LeavingOK /\ KnownIds
  /\ PendingOnlyWhenOpen /\ OpenHasSession

(* The server still accepts a session the owner signed out of only while   *)
(* the sign-out awaits its answer.                                         *)
LeftIsDead ==
  /\ leaving # NULL => leaving.answer # "failed"
  /\ left \cap live \subseteq IF leaving # NULL /\ leaving.answer = NULL THEN {leaving.id} ELSE {}

(* A page that shows SIGNED_OUT over a session is about to look again.     *)
WillLook ==
  state = "SIGNED_OUT" /\ sdk # NULL =>
    \/ scheduled \/ leaving # NULL
    \/ \E r \in Slots : refreshes[r] # NULL /\ ~refreshes[r].stale
    \/ op # NULL /\ ~op.outdated /\ op.call # NULL

(* A refresh is answered by the server once it has asked it.               *)
AskedFirst == \A r \in Slots :
  refreshes[r] # NULL /\ ~refreshes[r].stale /\ refreshes[r].answer = "ok"
    => refreshes[r].at = "factors"

WinInv == LeftIsDead /\ WillLook /\ AskedFirst /\ SignOutWins

-----------------------------------------------------------------------------
(* The helpers                                                             *)

Refreshes == [Slots -> Opt(Refresh)]

LEMMA SupersededFacts ==
  ASSUME FlowConstants, NEW rs \in Refreshes
  PROVE  /\ Superseded(rs) \in Refreshes
         /\ \A r \in Slots :
              /\ Superseded(rs)[r] = NULL <=> rs[r] = NULL
              /\ rs[r] # NULL => Superseded(rs)[r].stale /\ Superseded(rs)[r].level = NULL
<1>1. ASSUME NEW r \in Slots, rs[r] # NULL
      PROVE  /\ [rs[r] EXCEPT !.stale = TRUE, !.level = NULL, !.verified = {}] \in Refresh
             /\ [rs[r] EXCEPT !.stale = TRUE, !.level = NULL, !.verified = {}].stale
             /\ [rs[r] EXCEPT !.stale = TRUE, !.level = NULL, !.verified = {}].level = NULL
  BY <1>1 DEF Refreshes, Refresh, Opt
<1>2. NULL \notin Refresh BY DEF FlowConstants
<1> QED BY <1>1, <1>2 DEF Superseded, Refreshes, Opt

LEMMA OutdatedFacts ==
  ASSUME FlowConstants, NEW o \in Opt(Operation)
  PROVE  /\ Outdated(o) \in Opt(Operation) /\ (Outdated(o) = NULL <=> o = NULL)
         /\ o # NULL => /\ Outdated(o).outdated
                        /\ Outdated(o).call = o.call /\ Outdated(o).kind = o.kind
BY DEF Outdated, Opt, Operation, FlowConstants

LEMMA LockFacts ==
  ASSUME FlowConstants, NEW s \in Locked, NEW rs \in Refreshes, NEW o \in Opt(Operation),
         Lock(s, rs, o), issued' \in Nat, issued <= issued', issued \in Nat, OpFits(o, rs)
  PROVE  /\ state' = s /\ factors' = {} /\ pending' = NULL
         /\ refreshes' \in Refreshes /\ op' \in Opt(Operation)
         /\ \A r \in Slots :
              refreshes'[r] # NULL => refreshes'[r].stale /\ refreshes'[r].level = NULL
         /\ op' # NULL => op'.outdated
         /\ OpFits(op, refreshes)' /\ OpOpen'
<1> "nested" \in Slots BY DEF Slots
<1> USE SupersededFacts, OutdatedFacts
<1>1. /\ state' = s /\ factors' = {} /\ pending' = NULL
      /\ refreshes' = Superseded(rs) /\ op' = Outdated(o)
  BY DEF Lock
<1>2. OpFits(op, refreshes)' BY <1>1 DEF OpFits, CallOK, Ids
<1> QED BY <1>1, <1>2 DEF OpOpen

LEMMA StartFacts ==
  ASSUME FlowConstants, refreshes \in Refreshes, NEW s \in Slots, Start(s)
  PROVE  /\ refreshes' \in Refreshes
         /\ signingOut => refreshes' = refreshes
         /\ ~signingOut =>
              /\ refreshes'[s] # NULL /\ ~refreshes'[s].stale
              /\ refreshes'[s].level = NULL /\ refreshes'[s].answer = NULL
              /\ \A r \in Slots \ {s} :
                   /\ refreshes'[r] = NULL <=> refreshes[r] = NULL
                   /\ refreshes[r] # NULL => refreshes'[r].stale /\ refreshes'[r].level = NULL
<1>1. NewRefresh \in Refresh /\ NewRefresh # NULL
  <2>1. NewRefresh \in Refresh BY DEF NewRefresh, Refresh, Opt
  <2> QED BY <2>1 DEF FlowConstants
<1>2. ~NewRefresh.stale /\ NewRefresh.level = NULL /\ NewRefresh.answer = NULL BY DEF NewRefresh
<1> QED BY <1>1, <1>2, SupersededFacts DEF Start, Refreshes, Opt

-----------------------------------------------------------------------------
(* Refreshes                                                               *)

LEMMA InitInv == ASSUME FlowConstants, Init PROVE IInv
<1>1. "nested" \in Slots BY DEF Slots
<1>2. 0 \in 0..MaxSessions BY DEF FlowConstants
<1>3. refreshes \in [Slots -> Opt(Refresh)] BY DEF Init, Opt
<1>4. enrolled \in [Factors -> {"none", "unverified", "verified"}] BY DEF Init
<1>5. TypeOK BY <1>2, <1>3, <1>4 DEF Init, TypeOK, Opt, Locked
<1> QED BY <1>1, <1>5 DEF Init, IInv, CallsOK, OpFits, OpOpen, ReadOK, LeavingOK, KnownIds,
   PendingOnlyWhenOpen, OpenHasSession, Ids, Locked, Open, SignOuts

LEMMA IntervalStep ==
  ASSUME FlowConstants, IInv, NEW r \in Background, Interval(r)
  PROVE  IInv'
<1>1. r \in Slots /\ r # "nested" /\ "nested" \in Slots BY DEF Slots, FlowConstants
<1>2. /\ UNCHANGED <<state, factors, pending, signingOut, scheduled, op, leaving, late,
                     sdk, live, issued, enrolled, left>>
      /\ ~signingOut /\ Start(r)
  BY DEF Interval, flow, server
<1>3. refreshes \in Refreshes BY DEF IInv, TypeOK, Refreshes
<1>4. /\ refreshes' \in Refreshes
      /\ refreshes'["nested"] = NULL <=> refreshes["nested"] = NULL
      /\ \A s \in Slots : refreshes'[s] # NULL => refreshes'[s].level = NULL
  BY <1>1, <1>2, <1>3, StartFacts
<1>5. TypeOK' BY <1>2, <1>4 DEF IInv, TypeOK, Refreshes
<1>6. OpFits(op, refreshes)' BY <1>2, <1>4 DEF IInv, OpFits, CallOK, Ids
<1> QED BY <1>2, <1>4, <1>5, <1>6 DEF IInv, CallsOK, CallOK, Ids, OpOpen, ReadOK, LeavingOK, KnownIds,
   PendingOnlyWhenOpen, OpenHasSession

LEMMA RunScheduledStep ==
  ASSUME FlowConstants, IInv, NEW r \in Background, RunScheduled(r)
  PROVE  IInv'
<1>1. r \in Slots /\ r # "nested" /\ "nested" \in Slots BY DEF Slots, FlowConstants
<1>2. /\ UNCHANGED <<state, factors, pending, signingOut, op, leaving, late,
                     sdk, live, issued, enrolled, left>>
      /\ scheduled' = FALSE /\ Start(r)
  BY DEF RunScheduled, server
<1>3. refreshes \in Refreshes BY DEF IInv, TypeOK, Refreshes
<1>4. /\ refreshes' \in Refreshes
      /\ refreshes'["nested"] = NULL <=> refreshes["nested"] = NULL
      /\ \A s \in Slots : refreshes'[s] # NULL =>
           \/ signingOut /\ refreshes'[s] = refreshes[s]
           \/ ~signingOut /\ refreshes'[s].level = NULL
  BY <1>1, <1>2, <1>3, StartFacts DEF IInv, TypeOK
<1>5. TypeOK' BY <1>2, <1>4 DEF IInv, TypeOK, Refreshes
<1>6. OpFits(op, refreshes)' BY <1>2, <1>4 DEF IInv, OpFits, CallOK, Ids
<1>7. ReadOK' BY <1>2, <1>4 DEF IInv, ReadOK
<1> QED BY <1>2, <1>5, <1>6, <1>7 DEF IInv, CallsOK, CallOK, Ids, OpOpen, LeavingOK, KnownIds,
   PendingOnlyWhenOpen, OpenHasSession

LEMMA ServeFactorsStep ==
  ASSUME FlowConstants, IInv, NEW r \in Slots, ServeFactors(r)
  PROVE  IInv'
<1> DEFINE answer == IF refreshes[r].id \in live THEN "ok" ELSE "missing"
           verified == {f \in Factors : ~refreshes[r].stale /\ refreshes[r].id \in live
                                        /\ enrolled[f] = "verified"}
           read == [refreshes[r] EXCEPT !.answer = answer, !.verified = verified]
<1>1. /\ UNCHANGED <<state, factors, pending, signingOut, scheduled, op, leaving, late,
                     sdk, live, issued, enrolled, left>>
      /\ refreshes[r] # NULL /\ refreshes' = [refreshes EXCEPT ![r] = read]
  BY DEF ServeFactors, flow, server
<1>2. refreshes \in Refreshes /\ "nested" \in Slots BY DEF IInv, TypeOK, Refreshes, Slots
<1>3. refreshes[r] \in Refresh BY <1>1, <1>2 DEF Refreshes, Opt
<1>4. answer \in {NULL, "ok", "missing"} /\ verified \in SUBSET Factors OBVIOUS
<1>5. /\ read \in Refresh /\ read.stale = refreshes[r].stale /\ read.level = refreshes[r].level
  <2> HIDE DEF answer, verified
  <2> QED BY ONLY <1>3, <1>4 DEF Refresh
<1>6. read # NULL BY <1>5 DEF FlowConstants
<1> HIDE DEF read
<1>7. refreshes' \in Refreshes BY <1>1, <1>2, <1>5 DEF Refreshes, Opt
<1>8. TypeOK' BY <1>1, <1>7 DEF IInv, TypeOK, Refreshes
<1>9. OpFits(op, refreshes)' BY <1>1, <1>2, <1>6 DEF IInv, OpFits, CallOK, Ids, Refreshes
<1>10. ReadOK' BY <1>1, <1>2, <1>5 DEF IInv, ReadOK, Refreshes
<1> QED BY <1>1, <1>8, <1>9, <1>10 DEF IInv, CallsOK, CallOK, Ids, OpOpen, LeavingOK, KnownIds,
   PendingOnlyWhenOpen, OpenHasSession

LEMMA WithoutFacts ==
  ASSUME FlowConstants, IInv, NEW r \in Slots
  PROVE  /\ Without(r) \in Refreshes /\ OpWithout(r) \in Opt(Operation)
         /\ \A s \in Slots : Without(r)[s] # NULL => s # r /\ Without(r)[s] = refreshes[s]
         /\ OpWithout(r) \in {NULL, op} /\ OpFits(OpWithout(r), Without(r))
<1>1. refreshes \in Refreshes /\ op \in Opt(Operation) BY DEF IInv, TypeOK, Refreshes
<1>2. "nested" \in Slots BY DEF Slots
<1>3. NULL \in Opt(Refresh) BY DEF Opt
<1>4. OpFits(op, refreshes) BY DEF IInv
<1> QED BY <1>1, <1>2, <1>3, <1>4 DEF Without, OpWithout, Refreshes, Opt, OpFits

(* A refresh concludes: with a lock, or with what it read of a session.    *)
LEMMA ConcludesStep ==
  ASSUME FlowConstants, IInv, NEW r \in Slots, NEW s \in Locked \cup Open,
         NEW verified \in SUBSET Factors, Concludes(r, s, verified),
         s \in Open => sdk # NULL /\ ~signingOut, s = "UNLOCKED" => verified # {},
         signingOut => s = "SIGNED_OUT",
         UNCHANGED <<signingOut, scheduled, leaving, late, sdk, live, issued, enrolled, left>>
  PROVE  IInv'
<1> USE WithoutFacts
<1>1. issued \in Nat BY DEF IInv, TypeOK
<1>2. CASE s \in Locked
  <2>1. Lock(s, Without(r), OpWithout(r)) BY <1>2 DEF Concludes
  <2>2. /\ state' = s /\ factors' = {} /\ pending' = NULL
        /\ refreshes' \in Refreshes /\ op' \in Opt(Operation)
        /\ \A q \in Slots :
             refreshes'[q] # NULL => refreshes'[q].stale /\ refreshes'[q].level = NULL
        /\ OpFits(op, refreshes)' /\ OpOpen'
    BY <1>1, <1>2, <2>1, LockFacts
  <2>3. s \notin Open /\ s # "UNLOCKED" BY <1>2 DEF Locked, Open
  <2>4. TypeOK' BY <2>2 DEF IInv, TypeOK, Opt, Refreshes
  <2> QED BY <2>2, <2>3, <2>4 DEF IInv, CallsOK, CallOK, Ids, ReadOK, LeavingOK, KnownIds,
   PendingOnlyWhenOpen, OpenHasSession
<1>3. CASE s \notin Locked
  <2>1. /\ state' = s /\ factors' = verified /\ pending' = pending
        /\ refreshes' = Without(r) /\ op' = OpWithout(r)
    BY <1>3 DEF Concludes
  <2>2. TypeOK' BY <2>1 DEF IInv, TypeOK, Refreshes
  <2>3. OpFits(op, refreshes)' BY <2>1 DEF OpFits, CallOK, Ids
  <2>4. ReadOK' BY <2>1 DEF IInv, ReadOK
  <2> QED BY <1>3, <2>1, <2>2, <2>3, <2>4 DEF IInv, CallsOK, CallOK, Ids, OpOpen, LeavingOK, KnownIds,
   PendingOnlyWhenOpen, OpenHasSession
<1> QED BY <1>2, <1>3

LEMMA ContinueRefreshStep ==
  ASSUME FlowConstants, IInv, NEW r \in Slots, ContinueRefresh(r)
  PROVE  IInv'
<1>1. /\ UNCHANGED <<signingOut, scheduled, leaving, late, sdk, live, issued, enrolled, left>>
      /\ refreshes[r] # NULL
  BY DEF ContinueRefresh, server
<1>2. refreshes \in Refreshes /\ "nested" \in Slots BY DEF IInv, TypeOK, Refreshes, Slots
<1>3. refreshes[r] \in Refresh BY <1>1, <1>2 DEF Refreshes, Opt
<1> DEFINE goesOn(x) == /\ refreshes' = [refreshes EXCEPT ![r] = x]
                        /\ UNCHANGED <<state, factors, pending, op>>
<1>4. ASSUME NEW x \in Refresh, x.level # NULL => sdk # NULL, ~Stale(r), goesOn(x) PROVE IInv'
  <2>1. x # NULL BY DEF FlowConstants
  <2>2. refreshes' \in Refreshes BY <1>2, <1>4 DEF Refreshes, Opt
  <2>3. TypeOK' BY <1>1, <1>4, <2>2 DEF IInv, TypeOK, Refreshes
  <2>4. OpFits(op, refreshes)' BY <1>1, <1>2, <1>4, <2>1 DEF IInv, OpFits, CallOK, Ids, Refreshes
  <2>5. ReadOK' BY <1>1, <1>2, <1>4 DEF IInv, ReadOK, Refreshes, Stale
  <2> QED BY <1>1, <1>4, <2>3, <2>4, <2>5 DEF IInv, CallsOK, CallOK, Ids, OpOpen, LeavingOK,
   KnownIds, PendingOnlyWhenOpen, OpenHasSession
<1>5. CASE Stale(r) /\ refreshes' = Without(r) /\ op' = OpWithout(r)
           /\ UNCHANGED <<state, factors, pending>>
  <2> USE WithoutFacts
  <2>1. TypeOK' BY <1>1, <1>5 DEF IInv, TypeOK, Refreshes
  <2>2. OpFits(op, refreshes)' BY <1>1, <1>5 DEF OpFits, CallOK, Ids
  <2>3. ReadOK' BY <1>1, <1>5 DEF IInv, ReadOK
  <2> QED BY <1>1, <1>5, <2>1, <2>2, <2>3 DEF IInv, CallsOK, CallOK, Ids, OpOpen, LeavingOK,
   KnownIds, PendingOnlyWhenOpen, OpenHasSession
<1>6. CASE ~Stale(r) /\ \/ Concludes(r, "ERROR_LOCKED", {})
                        \/ Concludes(r, "SIGNED_OUT", {})
  <2>1. {"ERROR_LOCKED", "SIGNED_OUT"} \subseteq Locked /\ ~signingOut
        /\ "ERROR_LOCKED" \notin Open /\ "SIGNED_OUT" \notin Open
    BY <1>6 DEF Locked, Open, Stale
  <2> QED BY <1>1, <1>6, <2>1, ConcludesStep
<1>7. CASE ~Stale(r) /\ goesOn([refreshes[r] EXCEPT !.at = "level"])
  <2> DEFINE x == [refreshes[r] EXCEPT !.at = "level"]
  <2>1. x \in Refresh /\ x.level = refreshes[r].level BY ONLY <1>3 DEF Refresh
  <2>2. refreshes[r].level # NULL => sdk # NULL BY <1>1 DEF IInv, ReadOK
  <2> QED BY <1>4, <1>7, <2>1, <2>2
<1>8. CASE ~Stale(r) /\ goesOn([refreshes[r] EXCEPT
             !.at = "factors", !.id = Token, !.level = IF sdk = NULL THEN NULL ELSE sdk.level])
  <2> DEFINE level == IF sdk = NULL THEN NULL ELSE sdk.level
             x == [refreshes[r] EXCEPT !.at = "factors", !.id = Token, !.level = level]
  <2>1. Token \in Opt(Sessions) /\ level \in Opt(Levels) /\ (level # NULL => sdk # NULL)
    BY DEF IInv, TypeOK, Opt, Token
  <2> HIDE DEF level
  <2>2. x \in Refresh /\ x.level = level BY ONLY <1>3, <2>1 DEF Refresh
  <2>3. goesOn(x) BY <1>8 DEF level
  <2> QED BY <1>4, <1>8, <2>1, <2>2, <2>3
<1>9. CASE /\ ~Stale(r)
           /\ Concludes(r, StateOf(refreshes[r].level, refreshes[r].verified), refreshes[r].verified)
  <2> DEFINE s == StateOf(refreshes[r].level, refreshes[r].verified)
  <2>1. refreshes[r].verified \in SUBSET Factors BY <1>3 DEF Refresh
  <2>2. /\ s \in Locked \cup Open /\ (s = "UNLOCKED" => refreshes[r].verified # {})
        /\ s \in Open => refreshes[r].level # NULL
    BY DEF StateOf, Locked, Open
  <2>3. (refreshes[r].level # NULL => sdk # NULL) /\ ~signingOut
    BY <1>1, <1>9 DEF IInv, ReadOK, Stale
  <2> HIDE DEF s
  <2> QED BY <1>1, <1>9, <2>1, <2>2, <2>3, ConcludesStep DEF s
<1> HIDE DEF goesOn
<1>10. \/ <1>5!1 \/ <1>6!1 \/ <1>7!1 \/ <1>8!1 \/ <1>9!1
  BY DEF ContinueRefresh, goesOn
<1> QED BY <1>5, <1>6, <1>7, <1>8, <1>9, <1>10

(* The SDK gives its session up: the event locks, unless a sign-out did.   *)
LEMMA NotifySignedOutStep ==
  ASSUME FlowConstants, IInv, NEW rs \in Refreshes, NEW o \in {NULL, op},
         NotifySignedOut(rs, o), OpFits(o, rs), \A c \in late' : CallOK(c),
         late' \in SUBSET Call, live' \in SUBSET live, sdk' = NULL,
         UNCHANGED <<leaving, issued, enrolled, left>>
  PROVE  IInv'
<1>1. /\ issued \in Nat /\ op \in Opt(Operation) /\ NULL \in Opt(Operation)
      /\ "SIGNED_OUT" \in Locked /\ "SIGNED_OUT" \notin Open
  BY DEF IInv, TypeOK, Opt, Locked, Open
<1>2. signingOut' = signingOut /\ scheduled' = scheduled BY DEF NotifySignedOut
<1>3. /\ state' \in Locked /\ (signingOut => state' = state)
      /\ factors' \in SUBSET Factors /\ pending' \in {NULL, pending}
      /\ pending' # NULL => pending' = pending /\ state' = state
      /\ refreshes' \in Refreshes /\ op' \in Opt(Operation)
      /\ \A q \in Slots :
           refreshes'[q] # NULL => refreshes'[q].stale /\ refreshes'[q].level = NULL
      /\ OpFits(op, refreshes)' /\ OpOpen'
  <2>1. CASE signingOut
    <3>1. /\ refreshes' = Superseded(rs) /\ op' = o
          /\ UNCHANGED <<state, factors, pending>> /\ state = "SIGNED_OUT"
      BY <2>1 DEF NotifySignedOut, IInv, LeavingOK
    <3>2. OpFits(op, refreshes)' BY <3>1, SupersededFacts DEF OpFits, CallOK, Ids, Slots
    <3>3. OpOpen' BY <3>1 DEF IInv, OpOpen
    <3> QED BY <1>1, <3>1, <3>2, <3>3, SupersededFacts DEF IInv, TypeOK
  <2>2. CASE ~signingOut
    <3>1. Lock("SIGNED_OUT", rs, o) BY <2>2 DEF NotifySignedOut
    <3>2. o \in Opt(Operation) BY <1>1
    <3> QED BY <1>1, <2>2, <3>1, <3>2, LockFacts
  <2> QED BY <2>1, <2>2
<1>4. TypeOK'
  BY <1>2, <1>3 DEF IInv, TypeOK, Refreshes, Opt
<1>5. state' \notin Open BY <1>3 DEF Locked, Open
<1> QED BY <1>2, <1>3, <1>4, <1>5 DEF IInv, CallsOK, CallOK, Ids, ReadOK, LeavingOK, KnownIds,
   PendingOnlyWhenOpen, OpenHasSession, Open

LEMMA SessionMissingStep ==
  ASSUME FlowConstants, IInv, NEW r \in Slots, SessionMissing(r)
  PROVE  IInv'
<1>1. /\ NotifySignedOut(Without(r), OpWithout(r)) /\ sdk' = NULL
      /\ UNCHANGED <<leaving, late, live, issued, enrolled, left>>
  BY DEF SessionMissing, server
<1>2. late' \in SUBSET Call /\ live' \in SUBSET live /\ \A c \in late' : CallOK(c)
  BY <1>1 DEF IInv, TypeOK, CallsOK
<1> QED BY <1>1, <1>2, WithoutFacts, NotifySignedOutStep

-----------------------------------------------------------------------------
(* Operations                                                              *)

LEMMA AskFacts ==
  ASSUME FlowConstants, IInv, NEW f \in Opt(Factors),
         NEW does \in {"signIn", "verify", "enroll", "unenroll"} \cup SignOuts
  PROVE  /\ Ask(does, f) \in Call /\ Ask(does, f) # NULL /\ Ask(does, f).does = does
         /\ Ask(does, f).answer = NULL /\ Ask(does, f).id = Token
<1>1. Token \in Opt(Sessions) BY DEF IInv, TypeOK, Opt, Token
<1>2. Ask(does, f) \in Call BY <1>1 DEF Ask, Call, Opt
<1> QED BY <1>2 DEF Ask, FlowConstants

LEMMA BeginStep ==
  ASSUME FlowConstants, IInv, NEW f \in Opt(Factors),
         NEW kind \in {"signIn", "enroll", "confirm", "challenge"},
         NEW does \in {"signIn", "verify", "enroll", "unenroll"},
         Begin(kind, Ask(does, f)), pending' \in {NULL, pending},
         does = "enroll" => kind = "enroll", kind # "signIn" => state \notin Locked
  PROVE  IInv'
<1> DEFINE call == Ask(does, f)
<1>1. /\ op = NULL /\ op' = [kind |-> kind, call |-> call, outdated |-> FALSE]
      /\ refreshes' = Superseded(refreshes)
      /\ UNCHANGED <<state, factors, signingOut, scheduled, leaving, late, sdk, live, issued,
                     enrolled, left>>
  BY DEF Begin, server
<1>2. call \in Call /\ call # NULL /\ call.does = does /\ call.answer = NULL
  BY AskFacts
<1> HIDE DEF call
<1>3. op' \in Operation /\ op' # NULL
  <2>1. op' \in Operation BY <1>1, <1>2 DEF Operation, Opt
  <2> QED BY <2>1 DEF FlowConstants
<1>4. refreshes \in Refreshes /\ "nested" \in Slots BY DEF IInv, TypeOK, Refreshes, Slots
<1>5. /\ refreshes' \in Refreshes /\ refreshes'["nested"] = NULL
      /\ \A r \in Slots :
           refreshes'[r] # NULL => refreshes'[r].stale /\ refreshes'[r].level = NULL
  BY <1>1, <1>4, SupersededFacts DEF IInv, OpFits
<1>6. TypeOK' BY <1>1, <1>3, <1>5 DEF IInv, TypeOK, Refreshes, Opt
<1>7. OpFits(op, refreshes)'
  <2>1. op'.call = call /\ op'.kind = kind /\ call.answer # "ok" BY <1>1, <1>2 DEF FlowConstants
  <2> QED BY <1>2, <1>5, <2>1 DEF OpFits, CallOK, SignOuts
<1>8. OpOpen' BY <1>1 DEF OpOpen
<1> QED BY <1>1, <1>5, <1>6, <1>7, <1>8 DEF IInv, CallsOK, CallOK, Ids, ReadOK, LeavingOK,
   KnownIds, PendingOnlyWhenOpen, OpenHasSession

LEMMA BeginningsStep ==
  ASSUME FlowConstants, IInv,
         SignIn \/ BeginEnrollment \/ ConfirmEnrollment \/ \E f \in Factors : Challenge(f)
  PROVE  IInv'
<1>1. /\ NULL \in Opt(Factors) /\ \A f \in Factors : f \in Opt(Factors)
      /\ pending # NULL => pending.factor \in Factors /\ state \notin Locked
  BY DEF Opt, IInv, TypeOK, PendingOnlyWhenOpen
<1>2. CASE SignIn BY <1>1, <1>2, BeginStep DEF SignIn
<1>3. CASE BeginEnrollment
  <2>1. state \notin Locked /\ pending' = NULL BY <1>3 DEF BeginEnrollment, Locked
  <2>2. \/ Begin("enroll", Ask("enroll", NULL))
        \/ pending # NULL /\ Begin("enroll", Ask("unenroll", pending.factor))
    BY <1>3 DEF BeginEnrollment
  <2> QED BY <1>1, <2>1, <2>2, BeginStep
<1>4. CASE ConfirmEnrollment BY <1>1, <1>4, BeginStep DEF ConfirmEnrollment
<1>5. CASE \E f \in Factors : Challenge(f)
  BY <1>1, <1>5, BeginStep DEF Challenge, Locked
<1> QED BY <1>2, <1>3, <1>4, <1>5

(* A refresh that has learnt nothing it may publish.                       *)
Ignorant(refresh) == refresh.level = NULL /\ (refresh.stale \/ refresh.answer = NULL)

(* What holds of every step of an operation that its call's end causes: an *)
(* operation no lock outdated goes on, in a call or in a refresh.          *)
Moved ==
  /\ op' \in Opt(Operation) /\ refreshes' \in Refreshes /\ pending' \in Opt(PendingFactor)
  /\ pending' # NULL => state \notin Locked
  /\ OpFits(op', refreshes') /\ (op' # NULL => op'.kind = op.kind /\ op'.outdated = op.outdated)
  /\ \A r \in Slots : refreshes'[r] # NULL =>
       \/ refreshes'[r] = refreshes[r]
       \/ ~signingOut /\ Ignorant(refreshes'[r])
  /\ \/ state # "SIGNED_OUT" \/ signingOut
     \/ \E r \in Slots : refreshes'[r] # NULL /\ ~refreshes'[r].stale
     \/ refreshes' = refreshes /\ (op.outdated \/ (op' # NULL /\ op'.call # NULL))
  /\ state' = state /\ factors' = factors

LEMMA OpFacts ==
  ASSUME FlowConstants, IInv, op # NULL, op.call # NULL
  PROVE  /\ op \in Operation /\ op.call \in Call /\ op.outdated \in BOOLEAN
         /\ OpFits(op, refreshes) /\ CallOK(op.call)
         /\ refreshes["nested"] = NULL /\ "nested" \in Slots /\ refreshes \in Refreshes
         /\ \A c \in Opt(Call) :
              LET o == [op EXCEPT !.call = c] IN
              /\ o \in Operation /\ o # NULL /\ o.call = c
              /\ o.kind = op.kind /\ o.outdated = op.outdated
<1>1. op \in Operation /\ op.call \in Call /\ op.outdated \in BOOLEAN
  BY DEF IInv, TypeOK, Opt, Operation
<1>2. ASSUME NEW c \in Opt(Call) PROVE [op EXCEPT !.call = c] \in Operation
  BY <1>1, <1>2 DEF Operation
<1>3. \A c \in Opt(Call) :
        LET o == [op EXCEPT !.call = c] IN
        o.call = c /\ o.kind = op.kind /\ o.outdated = op.outdated
  BY ONLY <1>1 DEF Operation
<1>4. OpFits(op, refreshes) BY DEF IInv
<1>5. "nested" \in Slots /\ refreshes \in Refreshes BY DEF Slots, IInv, TypeOK, Refreshes
<1> QED BY <1>1, <1>2, <1>3, <1>4, <1>5 DEF FlowConstants, OpFits

LEMMA OpRefreshesMoved ==
  ASSUME FlowConstants, IInv, op # NULL, op.call # NULL, OpRefreshes,
         pending' \in Opt(PendingFactor), pending' # NULL => pending # NULL,
         UNCHANGED <<state, factors>>
  PROVE  Moved
<1> USE OpFacts
<1>1. /\ Start("nested") /\ NULL \in Opt(Call)
      /\ op' = IF signingOut THEN NULL ELSE [op EXCEPT !.call = NULL]
  BY DEF OpRefreshes, Opt
<1>2. /\ op' \in Opt(Operation)
      /\ op' = NULL <=> signingOut
      /\ op' # NULL => op'.call = NULL /\ op'.kind = op.kind /\ op'.outdated = op.outdated
  BY <1>1 DEF Opt
<1>3. /\ refreshes' \in Refreshes
      /\ signingOut => refreshes' = refreshes
      /\ \A r \in Slots : refreshes'[r] # NULL =>
           \/ refreshes'[r] = refreshes[r]
           \/ ~signingOut /\ Ignorant(refreshes'[r])
      /\ ~signingOut => refreshes'["nested"] # NULL /\ ~refreshes'["nested"].stale
  BY <1>1, StartFacts DEF Ignorant
<1>4. OpFits(op', refreshes') BY <1>2, <1>3 DEF OpFits, IInv, TypeOK
<1> QED BY <1>2, <1>3, <1>4 DEF Moved, IInv, PendingOnlyWhenOpen

(* Another call follows, or the operation is over.                         *)
LEMMA CallsMoved ==
  ASSUME FlowConstants, IInv, op # NULL, op.call # NULL, NEW c \in Call,
         (op' = NULL /\ op.outdated) \/ op' = [op EXCEPT !.call = c],
         c.answer = NULL, c.does = "enroll" => op.kind = "enroll",
         op.outdated \/ c.does \notin SignOuts,
         pending' \in Opt(PendingFactor), pending' # NULL => state \notin Locked,
         UNCHANGED <<state, factors, refreshes>>
  PROVE  Moved
<1> USE OpFacts
<1>1. NULL \in Opt(Operation) /\ c \in Opt(Call) /\ c # NULL /\ c.answer # "ok"
  BY DEF Opt, FlowConstants
<1>2. /\ op' \in Opt(Operation) /\ (op' = NULL => op.outdated) /\ refreshes' = refreshes
      /\ op' # NULL => op'.call = c /\ op'.kind = op.kind /\ op'.outdated = op.outdated
  BY <1>1 DEF Opt
<1>3. OpFits(op', refreshes') BY <1>1, <1>2 DEF OpFits, CallOK
<1>4. op.outdated \/ (op' # NULL /\ op'.call # NULL) BY <1>1, <1>2
<1>5. state' = state /\ factors' = factors OBVIOUS
<1> QED BY <1>2, <1>3, <1>4, <1>5 DEF Moved

LEMMA SucceedsMoved ==
  ASSUME FlowConstants, IInv, op # NULL, op.call # NULL, op.call.answer = "ok", Succeeds,
         op.call.does # "unenroll"
  PROVE  Moved
<1> USE OpFacts
<1>1. state' = state /\ factors' = factors BY DEF Succeeds, Cleanup
<1>2. CASE op.outdated
  <2> DEFINE c == [does |-> "signOut", id |-> op.call.id, factor |-> NULL, answer |-> NULL]
  <2>1. c \in Call /\ c.answer = NULL /\ c.does = "signOut" BY DEF Call, Opt, SignOuts
  <2>2. /\ (op' = NULL /\ op.outdated) \/ op' = [op EXCEPT !.call = c]
        /\ pending' = pending /\ refreshes' = refreshes
    BY <1>2 DEF Succeeds, Cleanup
  <2> HIDE DEF c
  <2>3. pending' \in Opt(PendingFactor) /\ (pending' # NULL => state \notin Locked)
    BY <2>2 DEF IInv, TypeOK, PendingFactor, PendingOnlyWhenOpen
  <2> QED BY <1>1, <1>2, <2>1, <2>2, <2>3, CallsMoved
<1>3. CASE ~op.outdated /\ op.call.does = "enroll"
  <2> op.kind = "enroll" BY <1>3 DEF OpFits
  <2>1. /\ pending' = [factor |-> op.call.factor, attempts |-> 0]
        /\ op' = NULL /\ UNCHANGED refreshes
    BY <1>3 DEF Succeeds
  <2>2. op.call.factor \in Factors BY <1>3 DEF CallOK
  <2>3. 0 \in 0..(MaxAttempts - 1) BY DEF FlowConstants
  <2>4. pending' \in Opt(PendingFactor) BY <2>1, <2>2, <2>3 DEF PendingFactor, Opt
  <2>5. state \notin Locked BY <1>3 DEF OpFits, OpOpen, IInv
  <2> QED BY <1>1, <2>1, <2>4, <2>5 DEF Moved, Opt, OpFits, Locked
<1>4. CASE ~op.outdated /\ op.call.does # "enroll"
  <2>1. OpRefreshes /\ pending' \in {NULL, pending} BY <1>4 DEF Succeeds
  <2>2. pending' \in Opt(PendingFactor) /\ (pending' # NULL => pending # NULL)
    BY <2>1 DEF IInv, TypeOK, Opt, PendingFactor
  <2> QED BY <1>1, <2>1, <2>2, OpRefreshesMoved
<1> QED BY <1>2, <1>3, <1>4

LEMMA RejectedMoved ==
  ASSUME FlowConstants, IInv, op # NULL, op.call # NULL, Rejected, UNCHANGED <<state, factors>>
  PROVE  Moved
<1>1. pending # NULL => /\ pending.factor \in Opt(Factors) /\ pending \in PendingFactor
  BY DEF IInv, TypeOK, PendingFactor, Opt
<1>2. CASE pending # NULL /\ pending.attempts + 1 >= MaxAttempts
  <2> DEFINE c == Ask("unenroll", pending.factor)
  <2>1. c \in Call /\ c.answer = NULL /\ c.does = "unenroll" BY <1>1, <1>2, AskFacts
  <2>2. op' = [op EXCEPT !.call = c] /\ pending' = NULL /\ UNCHANGED refreshes
    BY <1>2 DEF Rejected
  <2> HIDE DEF c
  <2>3. c.does \notin SignOuts /\ c.does # "enroll" BY <2>1 DEF SignOuts
  <2>4. pending' \in Opt(PendingFactor) BY <2>2 DEF Opt
  <2> QED BY <2>1, <2>2, <2>3, <2>4, CallsMoved
<1>3. CASE ~(pending # NULL /\ pending.attempts + 1 >= MaxAttempts)
  <2>1. /\ pending' = IF pending = NULL THEN NULL ELSE [pending EXCEPT !.attempts = @ + 1]
        /\ OpRefreshes
    BY <1>3 DEF Rejected
  <2>2. pending' \in Opt(PendingFactor) /\ (pending' # NULL => pending # NULL)
    BY <1>1, <1>3, <2>1 DEF PendingFactor, Opt, FlowConstants
  <2> QED BY <2>1, <2>2, OpRefreshesMoved
<1> QED BY <1>2, <1>3

LEMMA FailsMoved ==
  ASSUME FlowConstants, IInv, op # NULL, op.call # NULL, Fails
  PROVE  Moved
<1>1. /\ pending \in Opt(PendingFactor) /\ (pending # NULL => state \notin Locked)
      /\ UNCHANGED <<state, factors>>
  BY DEF Fails, IInv, TypeOK, PendingFactor, PendingOnlyWhenOpen
<1>2. CASE op.outdated \/ op.call.does = "enroll"
  <2>1. op' = NULL /\ pending' = pending /\ refreshes' = refreshes BY <1>2 DEF Fails
  <2>2. op.outdated \/ state # "SIGNED_OUT"
    BY <1>2, OpFacts DEF OpFits, OpOpen, IInv, Locked
  <2>3. op' \in Opt(Operation) /\ OpFits(op', refreshes') BY <2>1, OpFacts DEF Opt, OpFits
  <2> QED BY <1>1, <2>1, <2>2, <2>3, OpFacts DEF Moved
<1>3. CASE ~(op.outdated \/ op.call.does = "enroll")
  <2>1. \/ op.kind = "confirm" /\ Rejected
        \/ op.kind # "confirm" /\ OpRefreshes /\ pending' = pending
    BY <1>3 DEF Fails
  <2> QED BY <1>1, <2>1, RejectedMoved, OpRefreshesMoved
<1> QED BY <1>2, <1>3

LEMMA DroppedMoved ==
  ASSUME FlowConstants, IInv, op # NULL, op.call # NULL, Dropped
  PROVE  Moved
<1>1. /\ pending' \in Opt(PendingFactor) /\ (pending' # NULL => pending # NULL /\ state \notin Locked)
      /\ UNCHANGED <<state, factors>>
  BY DEF Dropped, IInv, TypeOK, PendingFactor, PendingOnlyWhenOpen
<1>2. CASE op.kind = "enroll"
  <2> DEFINE c == Ask("enroll", NULL)
  <2>1. c \in Call /\ c.answer = NULL /\ c.does = "enroll" BY AskFacts DEF Opt
  <2>2. op' = [op EXCEPT !.call = c] /\ UNCHANGED refreshes BY <1>2 DEF Dropped
  <2> HIDE DEF c
  <2>3. c.does \notin SignOuts BY <2>1 DEF SignOuts
  <2> QED BY <1>1, <1>2, <2>1, <2>2, <2>3, CallsMoved
<1>3. CASE op.kind # "enroll"
  BY <1>1, <1>3, OpRefreshesMoved DEF Dropped
<1> QED BY <1>2, <1>3

(* What such a step leaves to check is the SDK's session and its calls.    *)
LEMMA MovedStep ==
  ASSUME FlowConstants, IInv, Moved, op # NULL,
         sdk' = sdk \/ (sdk' \in SdkSession /\ sdk'.id \in Ids),
         late' \in SUBSET Call, \A c \in late' : CallOK(c), scheduled' \in BOOLEAN,
         UNCHANGED <<signingOut, leaving, live, issued, enrolled, left>>
  PROVE  IInv'
<1>1. sdk # NULL => sdk' # NULL BY DEF FlowConstants
<1>2. sdk' \in Opt(SdkSession) /\ (sdk' # NULL => sdk'.id \in Ids)
  BY DEF IInv, TypeOK, SdkSession, KnownIds, Opt
<1>3. TypeOK' BY <1>2 DEF Moved, IInv, TypeOK, Refreshes, PendingFactor, SdkSession
<1>4. OpFits(op, refreshes)' BY DEF Moved, OpFits, CallOK, Ids
<1>5. OpOpen' BY DEF Moved, IInv, OpOpen
<1>6. ReadOK' BY <1>1 DEF Moved, Ignorant, IInv, ReadOK
<1> QED BY <1>1, <1>2, <1>3, <1>4, <1>5, <1>6 DEF Moved, IInv, CallsOK, CallOK, Ids, LeavingOK,
   KnownIds, PendingOnlyWhenOpen, OpenHasSession

LEMMA SavedFacts ==
  ASSUME FlowConstants, IInv, NEW call \in Call, CallOK(call), Saves(call)
  PROVE  SavedSession(call) \in SdkSession /\ SavedSession(call).id \in Ids
<1>1. call.id \in Ids BY DEF CallOK, Saves
<1>2. call.id \in Sessions BY <1>1 DEF IInv, TypeOK, Ids, Sessions, FlowConstants
<1> QED BY <1>1, <1>2 DEF SavedSession, SdkSession, Levels

LEMMA OpContinuesStep ==
  ASSUME FlowConstants, IInv, OpContinues
  PROVE  IInv'
<1>1. /\ op # NULL /\ op.call # NULL /\ op.call.answer # NULL
      /\ UNCHANGED <<leaving, late, live, issued, enrolled, left>>
      /\ sdk' = IF Saves(op.call) THEN SavedSession(op.call)
                ELSE IF op.call.does = "signOut" THEN NULL ELSE sdk
  BY DEF OpContinues, server
<1> USE OpFacts
<1>2. late' \in SUBSET Call /\ (\A c \in late' : CallOK(c)) /\ live' \in SUBSET live
  BY <1>1 DEF IInv, TypeOK, CallsOK
<1>3. CASE op.call.does = "signOut"
  <2>1. NotifySignedOut(refreshes, NULL) /\ sdk' = NULL
    BY <1>1, <1>3 DEF OpContinues, Saves
  <2>2. OpFits(NULL, refreshes) BY <1>1 DEF OpFits
  <2> QED BY <1>1, <1>2, <2>1, <2>2, NotifySignedOutStep
<1>4. CASE op.call.does # "signOut"
  <2>1. sdk' = sdk \/ (sdk' \in SdkSession /\ sdk'.id \in Ids) BY <1>1, <1>4, SavedFacts
  <2>2. Moved
    BY <1>1, <1>4, DroppedMoved, SucceedsMoved, FailsMoved DEF OpContinues
  <2>3. signingOut' = signingOut /\ scheduled' \in BOOLEAN
    BY <1>1, <1>4 DEF OpContinues, Notify, IInv, TypeOK
  <2> QED BY <1>1, <1>2, <2>1, <2>2, <2>3, MovedStep
<1> QED BY <1>3, <1>4

LEMMA AbandonFacts ==
  ASSUME IInv, NEW call \in Call, CallOK(call), Abandon(call) \/ UNCHANGED late
  PROVE  late' \in SUBSET Call /\ \A c \in late' : CallOK(c)
BY DEF Abandon, IInv, TypeOK, CallsOK

LEMMA OpTimesOutMoved ==
  ASSUME FlowConstants, IInv, OpTimesOut
  PROVE  Moved
<1>1. op # NULL /\ op.call # NULL BY DEF OpTimesOut
<1>2. CASE op.call.does = "unenroll" BY <1>1, <1>2, DroppedMoved DEF OpTimesOut
<1>3. CASE op.call.does = "signOut"
  <2>1. /\ op' = NULL /\ state' = state /\ factors' = factors /\ pending' = pending
        /\ refreshes' = refreshes
    BY <1>3 DEF OpTimesOut
  <2>2. op.outdated BY <1>1, <1>3, OpFacts DEF OpFits, SignOuts
  <2>3. op' \in Opt(Operation) /\ OpFits(op', refreshes')
    BY <1>1, <2>1, OpFacts DEF Opt, OpFits
  <2>4. pending \in Opt(PendingFactor) /\ (pending # NULL => state \notin Locked)
    BY DEF IInv, TypeOK, PendingFactor, PendingOnlyWhenOpen
  <2> QED BY <1>1, <2>1, <2>2, <2>3, <2>4, OpFacts DEF Moved
<1>4. CASE op.call.does \notin {"unenroll", "signOut"}
  BY <1>1, <1>4, FailsMoved DEF OpTimesOut
<1> QED BY <1>2, <1>3, <1>4

LEMMA OpTimesOutStep ==
  ASSUME FlowConstants, IInv, OpTimesOut
  PROVE  IInv'
<1>1. /\ op # NULL /\ op.call # NULL
      /\ UNCHANGED <<signingOut, scheduled, leaving, sdk, live, issued, enrolled, left>>
      /\ Abandon(op.call) \/ UNCHANGED late
  BY DEF OpTimesOut, server
<1>2. Moved BY OpTimesOutMoved
<1>3. late' \in SUBSET Call /\ \A c \in late' : CallOK(c) BY <1>1, OpFacts, AbandonFacts
<1> QED BY <1>1, <1>2, <1>3, MovedStep DEF IInv, TypeOK

LEMMA CancelEnrollmentStep ==
  ASSUME FlowConstants, IInv, CancelEnrollment
  PROVE  IInv'
<1> DEFINE c == Ask("unenroll", pending.factor)
<1>1. /\ pending # NULL /\ pending' = NULL /\ Abandon(c)
      /\ UNCHANGED <<state, factors, signingOut, scheduled, refreshes, op, leaving, sdk,
                     live, issued, enrolled, left>>
  BY DEF CancelEnrollment, server
<1>2. pending.factor \in Opt(Factors) BY <1>1 DEF IInv, TypeOK, Opt
<1>3. c \in Call /\ c.answer = NULL BY <1>2, AskFacts
<1> HIDE DEF c
<1>4. c.answer # "ok" BY <1>3 DEF FlowConstants
<1>5. late' \in SUBSET Call /\ \A x \in late' : CallOK(x)
  BY <1>1, <1>3, <1>4, AbandonFacts DEF CallOK
<1>6. TypeOK' BY <1>1, <1>5 DEF IInv, TypeOK, Opt
<1> QED BY <1>1, <1>5, <1>6 DEF IInv, CallsOK, CallOK, Ids, OpFits, OpOpen, ReadOK, LeavingOK,
   KnownIds, PendingOnlyWhenOpen, OpenHasSession

-----------------------------------------------------------------------------
(* The sign-out, the server and the SDK                                    *)

LEMMA SignOutStep ==
  ASSUME FlowConstants, IInv, NEW all \in BOOLEAN, SignOut(all)
  PROVE  IInv'
<1> DEFINE c == Ask(IF all THEN "signOutAll" ELSE "signOut", NULL)
<1>1. /\ signingOut' = TRUE /\ left' = left \cup ({Token} \ {NULL})
      /\ Lock("SIGNED_OUT", refreshes, op) /\ leaving' = c
      /\ UNCHANGED <<scheduled, late, sdk, live, issued, enrolled>>
  BY DEF SignOut, server
<1>2. c \in Call /\ c # NULL /\ c.does \in SignOuts /\ c.answer = NULL
  BY AskFacts DEF SignOuts, Opt
<1>3. /\ issued \in Nat /\ refreshes \in Refreshes /\ op \in Opt(Operation)
      /\ OpFits(op, refreshes) /\ "SIGNED_OUT" \in Locked
  BY DEF IInv, TypeOK, Refreshes, Locked
<1> HIDE DEF c
<1>4. /\ state' = "SIGNED_OUT" /\ factors' = {} /\ pending' = NULL
      /\ refreshes' \in Refreshes /\ op' \in Opt(Operation)
      /\ \A r \in Slots :
           refreshes'[r] # NULL => refreshes'[r].stale /\ refreshes'[r].level = NULL
      /\ OpFits(op, refreshes)' /\ OpOpen'
  BY <1>1, <1>3, LockFacts
<1>5. {Token} \ {NULL} \subseteq Ids /\ {Token} \ {NULL} \subseteq Sessions
  BY DEF Token, IInv, TypeOK, KnownIds, Opt
<1>6. TypeOK' BY <1>1, <1>2, <1>4, <1>5 DEF IInv, TypeOK, Opt, Refreshes, Locked
<1>7. CallsOK' BY <1>1, <1>2 DEF IInv, CallsOK, CallOK, Ids, FlowConstants
<1>8. KnownIds' BY <1>1, <1>5 DEF IInv, KnownIds, Ids
<1> QED BY <1>1, <1>2, <1>4, <1>6, <1>7, <1>8 DEF IInv, ReadOK, LeavingOK,
   PendingOnlyWhenOpen, OpenHasSession, Open

LEMMA SignedOutStep ==
  ASSUME FlowConstants, IInv, SignedOut
  PROVE  IInv'
<1>1. /\ leaving # NULL /\ leaving' = NULL /\ signingOut' = FALSE
      /\ Lock("SIGNED_OUT", refreshes, op) /\ sdk' \in {NULL, sdk}
      /\ Abandon(leaving) \/ UNCHANGED late
      /\ UNCHANGED <<scheduled, live, issued, enrolled, left>>
  BY DEF SignedOut, server
<1>2. /\ issued \in Nat /\ refreshes \in Refreshes /\ op \in Opt(Operation)
      /\ OpFits(op, refreshes) /\ "SIGNED_OUT" \in Locked
      /\ leaving \in Call /\ CallOK(leaving)
  BY <1>1 DEF IInv, TypeOK, Refreshes, Locked, Opt, CallsOK
<1>3. /\ state' = "SIGNED_OUT" /\ factors' = {} /\ pending' = NULL
      /\ refreshes' \in Refreshes /\ op' \in Opt(Operation)
      /\ \A r \in Slots :
           refreshes'[r] # NULL => refreshes'[r].stale /\ refreshes'[r].level = NULL
      /\ OpFits(op, refreshes)' /\ OpOpen'
  BY <1>1, <1>2, LockFacts
<1>4. late' \in SUBSET Call /\ \A c \in late' : CallOK(c) BY <1>1, <1>2, AbandonFacts
<1>5. TypeOK' BY <1>1, <1>3, <1>4 DEF IInv, TypeOK, Opt, Refreshes, Locked
<1>6. CallsOK' BY <1>1, <1>4 DEF CallsOK, CallOK, Ids
<1>7. KnownIds' BY <1>1 DEF IInv, KnownIds, Ids
<1> QED BY <1>1, <1>3, <1>5, <1>6, <1>7 DEF IInv, ReadOK, LeavingOK,
   PendingOnlyWhenOpen, OpenHasSession, Open

(* What an answer of the server is, and what it changes there.             *)
LEMMA ServesFacts ==
  ASSUME FlowConstants, IInv, NEW call \in Call, NEW done \in Answers(call), Serves(call, done)
  PROVE  /\ done \in Call /\ done # NULL /\ done.does = call.does
         /\ done.answer \in {"ok", "failed"} /\ (done.answer = "ok" => Permits(call))
         /\ done.does # "signIn" => done.id = call.id
         /\ issued' \in issued..MaxSessions /\ live' \in SUBSET Sessions
         /\ live' \subseteq live \cup ((1..issued') \ Ids)
         /\ done.answer = "ok" =>
              /\ done.does \in {"signIn", "verify"} => done.id \in 1..issued'
              /\ done.does = "enroll" => done.factor \in Factors
         /\ enrolled' \in [Factors -> {"none", "unverified", "verified"}]
<1>1. /\ issued \in 0..MaxSessions /\ MaxSessions \in Nat /\ live \in SUBSET Sessions
      /\ enrolled \in [Factors -> {"none", "unverified", "verified"}]
      /\ live \subseteq Ids
  BY DEF IInv, TypeOK, KnownIds, FlowConstants
<1>2. CASE done = [call EXCEPT !.answer = "failed"]
  <2>1. /\ done \in Call /\ done.answer = "failed" /\ done.does = call.does /\ done.id = call.id
    BY <1>2 DEF Call
  <2>2. UNCHANGED <<live, issued, enrolled>> BY <2>1 DEF Serves, Performs, server
  <2> QED BY <1>1, <2>1, <2>2 DEF FlowConstants
<1>3. CASE Permits(call) /\ call.does = "signIn"
           /\ done = [call EXCEPT !.answer = "ok", !.id = issued + 1]
  <2>1. issued < MaxSessions BY <1>3 DEF Permits
  <2>2. issued + 1 \in Sessions BY <1>1, <2>1 DEF Sessions
  <2>3. /\ done \in Call /\ done.answer = "ok" /\ done.does = "signIn" /\ done.id = issued + 1
    BY <1>3, <2>2 DEF Call, Opt
  <2>4. issued' = issued + 1 /\ live' = live \cup {issued + 1} /\ enrolled' = enrolled
    BY <2>3 DEF Serves, Performs
  <2> QED BY <1>1, <1>3, <2>1, <2>2, <2>3, <2>4 DEF Ids, FlowConstants
<1>4. CASE call.does = "enroll" /\ Permits(call)
           /\ \E f \in Factors : done = [call EXCEPT !.answer = "ok", !.factor = f]
  <2>1. PICK f \in Factors : done = [call EXCEPT !.answer = "ok", !.factor = f] BY <1>4
  <2>2. /\ done \in Call /\ done.answer = "ok" /\ done.does = "enroll" /\ done.factor = f
        /\ done.id = call.id
    BY <1>4, <2>1 DEF Call, Opt
  <2>3. issued' = issued /\ live' = live /\ enrolled' = [enrolled EXCEPT ![f] = "unverified"]
    BY <2>2 DEF Serves, Performs
  <2> QED BY <1>1, <1>4, <2>2, <2>3 DEF FlowConstants
<1>5. CASE call.does \notin {"signIn", "enroll"} /\ Permits(call)
           /\ done = [call EXCEPT !.answer = "ok"]
  <2>1. /\ done \in Call /\ done.answer = "ok" /\ done.does = call.does /\ done.id = call.id
    BY <1>5 DEF Call
  <2>2. /\ issued' = issued /\ live' \in SUBSET live
        /\ enrolled' \in {enrolled, [enrolled EXCEPT ![done.factor] = "verified"],
                          [enrolled EXCEPT ![done.factor] = "none"]}
    BY <1>5, <2>1 DEF Serves, Performs
  <2>3. call.does = "verify" => call.id \in live BY <1>5 DEF Permits
  <2> QED BY <1>1, <1>5, <2>1, <2>2, <2>3 DEF FlowConstants, Ids
<1>6. <1>2!1 \/ <1>3!1 \/ <1>4!1 \/ <1>5!1 BY DEF Answers
<1> QED BY <1>2, <1>3, <1>4, <1>5, <1>6

LEMMA ServeOpStep ==
  ASSUME FlowConstants, IInv, ServeOp
  PROVE  IInv'
<1>1. PICK done \in Answers(op.call) :
        Serves(op.call, done) /\ op' = [op EXCEPT !.call = done]
  BY DEF ServeOp
<1>2. /\ op # NULL /\ op.call # NULL
      /\ UNCHANGED <<state, factors, pending, signingOut, scheduled, refreshes, leaving,
                     late, sdk, left>>
  BY DEF ServeOp, flow
<1> USE OpFacts, ServesFacts
<1>3. done \in Call BY <1>1, <1>2
<1>4. /\ op' \in Operation /\ op' # NULL /\ op'.call = done
      /\ op'.kind = op.kind /\ op'.outdated = op.outdated
  BY <1>1, <1>2, <1>3 DEF Opt
<1>5. /\ issued' \in issued..MaxSessions /\ live' \in SUBSET Sessions /\ issued \in Nat
      /\ live' \subseteq live \cup ((1..issued') \ Ids)
      /\ enrolled' \in [Factors -> {"none", "unverified", "verified"}]
  BY <1>1, <1>2 DEF IInv, TypeOK
<1>6. TypeOK' BY <1>2, <1>4, <1>5 DEF IInv, TypeOK, Opt
<1>7. OpFits(op, refreshes)'
  <2>1. /\ refreshes["nested"] = NULL /\ (op.call.does = "enroll" => op.kind = "enroll")
        /\ ~op.outdated => op.call.does \notin SignOuts
    BY <1>2 DEF IInv, OpFits
  <2>2. CallOK(done)' BY <1>1, <1>2 DEF CallOK, Ids
  <2> QED BY <1>1, <1>2, <1>4, <2>1, <2>2 DEF OpFits
<1>8. OpOpen' BY <1>2, <1>4 DEF IInv, OpOpen
<1>9. CallsOK' BY <1>2, <1>5 DEF IInv, CallsOK, CallOK, Ids
<1>10. KnownIds' BY <1>2, <1>5 DEF IInv, KnownIds, Ids
<1> QED BY <1>2, <1>6, <1>7, <1>8, <1>9, <1>10 DEF IInv, ReadOK, LeavingOK,
   PendingOnlyWhenOpen, OpenHasSession

LEMMA ServeOthersStep ==
  ASSUME FlowConstants, IInv, ServeLeaving \/ \E call \in late : ServeLate(call)
  PROVE  IInv'
<1>1. PICK call \in Call : \E done \in Answers(call) :
        /\ Serves(call, done)
        /\ \/ leaving = call /\ leaving # NULL /\ leaving' = done /\ late' = late
           \/ leaving' = leaving /\ late' = (late \ {call}) \cup {done}
  BY DEF ServeLeaving, ServeLate, IInv, TypeOK, Opt
<1> PICK done \in Answers(call) :
      /\ Serves(call, done)
      /\ \/ leaving = call /\ leaving # NULL /\ leaving' = done /\ late' = late
         \/ leaving' = leaving /\ late' = (late \ {call}) \cup {done}
  BY <1>1
<1>2. UNCHANGED <<state, factors, pending, signingOut, scheduled, refreshes, op, sdk, left>>
  BY DEF ServeLeaving, ServeLate, flow
<1>3. /\ done \in Call /\ done # NULL /\ done.does = call.does
      /\ issued' \in issued..MaxSessions /\ live' \in SUBSET Sessions /\ issued \in Nat
      /\ live' \subseteq live \cup ((1..issued') \ Ids)
      /\ enrolled' \in [Factors -> {"none", "unverified", "verified"}]
  BY ServesFacts DEF IInv, TypeOK
<1>4. CallOK(done)' BY ServesFacts DEF CallOK, Ids
<1>5. leaving' \in Opt(Call) /\ late' \in SUBSET Call
  BY <1>3 DEF IInv, TypeOK, Opt
<1>6. TypeOK' BY <1>2, <1>3, <1>5 DEF IInv, TypeOK
<1>7. CallsOK'
  <2>1. \A c \in late \cup ({leaving} \ {NULL}) : CallOK(c)' BY <1>3 DEF IInv, CallsOK, CallOK, Ids
  <2> QED BY <1>4, <2>1 DEF CallsOK, CallOK, Ids
<1>8. OpFits(op, refreshes)' BY <1>2, <1>3 DEF IInv, OpFits, CallOK, Ids
<1>9. KnownIds' BY <1>2, <1>3 DEF IInv, KnownIds, Ids
<1>10. LeavingOK' BY <1>2, <1>3 DEF IInv, LeavingOK
<1> QED BY <1>2, <1>6, <1>7, <1>8, <1>9, <1>10 DEF IInv, OpOpen, ReadOK,
   PendingOnlyWhenOpen, OpenHasSession

(* The SDK saves a session: its event at most schedules a refresh.         *)
LEMMA SavesStep ==
  ASSUME FlowConstants, IInv, late' \in SUBSET late,
         sdk' = sdk \/ (sdk' \in SdkSession /\ sdk'.id \in Ids), Notify \/ UNCHANGED scheduled,
         live' \in SUBSET live, enrolled' \in [Factors -> {"none", "unverified", "verified"}],
         UNCHANGED <<state, factors, pending, signingOut, refreshes, op, leaving, issued, left>>
  PROVE  IInv'
<1>1. sdk # NULL => sdk' # NULL BY DEF FlowConstants
<1>2. sdk' \in Opt(SdkSession) /\ (sdk' # NULL => sdk'.id \in Ids) /\ scheduled' \in BOOLEAN
  BY DEF IInv, TypeOK, SdkSession, KnownIds, Opt, Notify
<1>3. TypeOK' BY <1>2 DEF IInv, TypeOK, SdkSession
<1> QED BY <1>1, <1>2, <1>3 DEF IInv, CallsOK, CallOK, Ids, OpFits, OpOpen, ReadOK, LeavingOK,
   KnownIds, PendingOnlyWhenOpen, OpenHasSession

LEMMA DeliverLateStep ==
  ASSUME FlowConstants, IInv, NEW call \in late, DeliverLate(call)
  PROVE  IInv'
<1>1. /\ late' \in SUBSET late /\ call \in Call /\ CallOK(call)
      /\ UNCHANGED <<leaving, live, issued, enrolled, left>>
  BY DEF DeliverLate, server, IInv, TypeOK, CallsOK
<1>2. enrolled \in [Factors -> {"none", "unverified", "verified"}] BY DEF IInv, TypeOK
<1>3. CASE sdk' = NULL /\ NotifySignedOut(refreshes, op)
  <2>1. /\ late' \in SUBSET Call /\ (\A c \in late' : CallOK(c)) /\ refreshes \in Refreshes
        /\ OpFits(op, refreshes) /\ live' \in SUBSET live
    BY <1>1 DEF IInv, TypeOK, CallsOK, Refreshes
  <2> QED BY <1>1, <1>3, <2>1, NotifySignedOutStep
<1>4. CASE Saves(call) /\ sdk' = SavedSession(call) /\ Notify
           /\ UNCHANGED <<state, factors, pending, signingOut, refreshes, op>>
  BY <1>1, <1>2, <1>4, SavedFacts, SavesStep
<1>5. CASE UNCHANGED <<flow, refreshes, op, sdk>>
  BY <1>1, <1>2, <1>5, SavesStep DEF flow
<1> QED BY <1>3, <1>4, <1>5 DEF DeliverLate

LEMMA EnvironmentStep ==
  ASSUME FlowConstants, IInv,
         \/ \E level \in Levels : TokenRefreshed(level)
         \/ SessionEnds
         \/ \E i \in Sessions : Revoked(i)
         \/ \E f \in Factors : FactorRemoved(f)
  PROVE  IInv'
<1>1. /\ enrolled \in [Factors -> {"none", "unverified", "verified"}]
      /\ late \in SUBSET Call /\ live \in SUBSET live /\ (\A c \in late : CallOK(c))
      /\ refreshes \in Refreshes /\ OpFits(op, refreshes)
      /\ sdk # NULL => sdk \in SdkSession /\ sdk.id \in Ids
  BY DEF IInv, TypeOK, CallsOK, Refreshes, SdkSession, Opt, KnownIds
<1>2. ASSUME NEW level \in Levels, TokenRefreshed(level) PROVE IInv'
  <2>1. /\ sdk # NULL /\ sdk' = [sdk EXCEPT !.level = level] /\ Notify
        /\ UNCHANGED <<state, factors, pending, signingOut, refreshes, op, leaving, late, live,
                       issued, enrolled, left>>
    BY <1>2 DEF TokenRefreshed, server
  <2>2. sdk' \in SdkSession /\ sdk'.id \in Ids BY <1>1, <2>1 DEF SdkSession
  <2> QED BY <1>1, <2>1, <2>2, SavesStep
<1>3. CASE SessionEnds
  <2>1. /\ sdk' = NULL /\ live' = live \ {sdk.id} /\ NotifySignedOut(refreshes, op)
        /\ UNCHANGED <<leaving, late, issued, enrolled, left>>
    BY <1>3 DEF SessionEnds
  <2> QED BY <1>1, <2>1, NotifySignedOutStep
<1>4. ASSUME NEW i \in Sessions, Revoked(i) PROVE IInv'
  <2>1. /\ live' = live \ {i}
        /\ UNCHANGED <<state, factors, pending, signingOut, scheduled, refreshes, op, leaving,
                       late, sdk, issued, enrolled, left>>
    BY <1>4 DEF Revoked, flow
  <2> QED BY <1>1, <2>1, SavesStep
<1>5. ASSUME NEW f \in Factors, FactorRemoved(f) PROVE IInv'
  <2>1. /\ enrolled' = [enrolled EXCEPT ![f] = "none"]
        /\ UNCHANGED <<state, factors, pending, signingOut, scheduled, refreshes, op, leaving,
                       late, sdk, live, issued, left>>
    BY <1>5 DEF FactorRemoved, flow
  <2> QED BY <1>1, <2>1, SavesStep
<1> QED BY <1>2, <1>3, <1>4, <1>5

LEMMA NextInv == ASSUME FlowConstants, IInv, [Next]_vars PROVE IInv'
<1>1. CASE Next
  BY <1>1, IntervalStep, RunScheduledStep, ServeFactorsStep, ContinueRefreshStep,
     SessionMissingStep, BeginningsStep, CancelEnrollmentStep, OpContinuesStep, OpTimesOutStep,
     SignOutStep, SignedOutStep, ServeOpStep, ServeOthersStep, DeliverLateStep, EnvironmentStep
  DEF Next
<1>2. CASE UNCHANGED vars
  BY <1>2 DEF vars, flow, server, IInv, TypeOK, CallsOK, CallOK, Ids, OpFits, OpOpen, ReadOK,
     LeavingOK, KnownIds, PendingOnlyWhenOpen, OpenHasSession
<1> QED BY <1>1, <1>2

(* The flow is well typed, keeps no pending enrolment once it is locked,   *)
(* and shows an open state only over a session (UNLOCKED also with a       *)
(* verified factor), whatever fails, hangs or ends late.                   *)
THEOREM FlowStateIsTrue ==
  ASSUME FlowConstants
  PROVE  Spec => [](TypeOK /\ PendingOnlyWhenOpen /\ OpenHasSession)
<1>1. IInv => TypeOK /\ PendingOnlyWhenOpen /\ OpenHasSession BY DEF IInv
<1> QED BY InitInv, NextInv, <1>1, PTL DEF Spec

-----------------------------------------------------------------------------
(* Sign-out wins, and SIGNED_OUT is looked at again, where the provider's  *)
(* sign-out answers                                                        *)

(* No refresh learnt anything new, and no further session was left.        *)
LEMMA NothingLearnt ==
  ASSUME IInv, WinInv, left' = left,
         \A r \in Slots : refreshes'[r] # NULL =>
            \/ refreshes'[r].stale \/ refreshes'[r].answer # "ok"
            \/ /\ refreshes[r] # NULL /\ refreshes'[r].stale = refreshes[r].stale
               /\ refreshes'[r].answer = refreshes[r].answer
               /\ refreshes'[r].id = refreshes[r].id
               /\ refreshes'[r].at \in {refreshes[r].at, "factors"}
  PROVE  SignOutWins' /\ AskedFirst'
BY DEF WinInv, SignOutWins, AskedFirst, Stale, IInv, ReadOK

(* The sign-outs and the server's sessions are the same, or fewer.         *)
LEMMA NobodyLeft ==
  ASSUME LeftIsDead, leaving' = leaving, left' = left, live' \in SUBSET live
  PROVE  LeftIsDead'
BY DEF LeftIsDead

LEMMA LockStales ==
  ASSUME FlowConstants, NEW s, NEW rs \in Refreshes, NEW o, Lock(s, rs, o)
  PROVE  \A r \in Slots : refreshes'[r] # NULL => refreshes'[r].stale
BY SupersededFacts DEF Lock

LEMMA SignedOutStales ==
  ASSUME FlowConstants, NEW rs \in Refreshes, NEW o, NotifySignedOut(rs, o)
  PROVE  \A r \in Slots : refreshes'[r] # NULL => refreshes'[r].stale
BY SupersededFacts, LockStales DEF NotifySignedOut

LEMMA RefreshWins ==
  ASSUME FlowConstants, IInv, WinInv, NEW r \in Slots,
         \/ r # "nested" /\ (Interval(r) \/ RunScheduled(r))
         \/ ServeFactors(r) \/ ContinueRefresh(r) \/ SessionMissing(r)
  PROVE  WinInv'
<1>1. leaving' = leaving /\ left' = left /\ live' = live /\ signingOut' = signingOut
  BY DEF Interval, RunScheduled, ServeFactors, ContinueRefresh, SessionMissing,
         NotifySignedOut, flow, server
<1>2. LeftIsDead' BY <1>1, NobodyLeft DEF WinInv
<1>3. refreshes \in Refreshes /\ SignOutWins /\ WillLook /\ (signingOut <=> leaving # NULL)
  BY DEF IInv, TypeOK, Refreshes, WinInv, LeavingOK
<1>4. CASE Interval(r) \/ RunScheduled(r)
  <2>1. Start(r) /\ sdk' = sdk BY <1>4 DEF Interval, RunScheduled
  <2>2. \/ signingOut /\ refreshes' = refreshes
        \/ /\ refreshes'[r] # NULL /\ ~refreshes'[r].stale
           /\ \A q \in Slots : refreshes'[q] # NULL => \/ refreshes'[q].stale
                                                       \/ refreshes'[q].answer = NULL
    BY <1>3, <2>1, StartFacts
  <2>3. NULL # "ok" BY DEF FlowConstants
  <2>4. SignOutWins' /\ AskedFirst' BY <1>1, <1>3, <2>2, <2>3, NothingLearnt
  <2>5. WillLook' BY <1>1, <1>3, <2>2 DEF WillLook
  <2> QED BY <1>2, <2>4, <2>5 DEF WinInv
<1>5. CASE ServeFactors(r)
  <2>1. /\ refreshes[r] # NULL
        /\ \A q \in Slots \ {r} : refreshes'[q] = refreshes[q]
        /\ refreshes'[r].stale = refreshes[r].stale /\ refreshes'[r].id = refreshes[r].id
        /\ refreshes'[r].answer = "ok" => refreshes[r].id \in live
        /\ refreshes'[r] # NULL /\ refreshes'[r].at = "factors"
        /\ UNCHANGED <<state, sdk, scheduled, op>>
    <3>1. refreshes[r] # NULL /\ refreshes[r] \in Refresh /\ refreshes[r].at = "factors"
      BY <1>3, <1>5 DEF ServeFactors, Refreshes, Opt
    <3> DEFINE answer == IF refreshes[r].id \in live THEN "ok" ELSE "missing"
               verified == {f \in Factors : ~refreshes[r].stale /\ refreshes[r].id \in live
                                            /\ enrolled[f] = "verified"}
               read == [refreshes[r] EXCEPT !.answer = answer, !.verified = verified]
    <3>2. refreshes' = [refreshes EXCEPT ![r] = read] /\ UNCHANGED <<state, sdk, scheduled, op>>
      BY <1>5 DEF ServeFactors, flow
    <3>3. answer \in {NULL, "ok", "missing"} /\ verified \in SUBSET Factors
          /\ (answer = "ok" => refreshes[r].id \in live)
      OBVIOUS
    <3> HIDE DEF answer, verified
    <3>4. /\ read \in Refresh /\ read.stale = refreshes[r].stale /\ read.id = refreshes[r].id
          /\ read.answer = answer /\ read.at = "factors"
      BY ONLY <3>1, <3>3 DEF Refresh
    <3>5. read # NULL BY <3>4 DEF FlowConstants
    <3> HIDE DEF read
    <3> QED BY <1>3, <3>1, <3>2, <3>3, <3>4, <3>5 DEF Refreshes
  <2>2. SignOutWins' /\ AskedFirst'
    <3>1. ~signingOut => left \cap live = {} BY <1>3 DEF WinInv, LeftIsDead
    <3>2. signingOut /\ refreshes[r] # NULL => refreshes[r].stale BY DEF IInv, ReadOK
    <3> QED BY <1>1, <1>3, <2>1, <3>1, <3>2 DEF SignOutWins, AskedFirst, WinInv, Stale, IInv, ReadOK
  <2>3. WillLook'
    <3>1. \A q \in Slots : refreshes[q] # NULL /\ ~refreshes[q].stale
                            => refreshes'[q] # NULL /\ ~refreshes'[q].stale
      BY <2>1
    <3> QED BY <1>1, <1>3, <2>1, <3>1 DEF WillLook
  <2> QED BY <1>2, <2>2, <2>3 DEF WinInv
<1>6. CASE SessionMissing(r)
  <2>1. sdk' = NULL /\ NotifySignedOut(Without(r), OpWithout(r)) BY <1>6 DEF SessionMissing
  <2>2. SignOutWins' /\ AskedFirst' BY <1>1, <1>3, <2>1, WithoutFacts, SignedOutStales, NothingLearnt
  <2> QED BY <1>2, <2>1, <2>2 DEF WinInv, WillLook
<1>7. CASE ContinueRefresh(r)
  <2>1. /\ UNCHANGED <<scheduled, sdk>> /\ refreshes[r] # NULL
    BY <1>7 DEF ContinueRefresh
  <2>2. refreshes[r] \in Refresh BY <1>3, <2>1 DEF Refreshes, Opt
  <2> DEFINE x == [refreshes[r] EXCEPT !.at = "level"]
             level == IF sdk = NULL THEN NULL ELSE sdk.level
             y == [refreshes[r] EXCEPT !.at = "factors", !.id = Token, !.level = level]
             s == StateOf(refreshes[r].level, refreshes[r].verified)
  <2>3. ASSUME refreshes' = Without(r), op' = OpWithout(r) PROVE SignOutWins' /\ AskedFirst'
    BY <1>1, <1>3, <2>3, WithoutFacts, NothingLearnt
  <2>4. CASE Stale(r) /\ refreshes' = Without(r) /\ op' = OpWithout(r) /\ state' = state
    <3>1. signingOut \/ refreshes[r].stale BY <2>4 DEF Stale
    <3>2. r = "nested" => op = NULL \/ op.call = NULL BY <2>1 DEF IInv, OpFits
    <3>3. \A q \in Slots \ {r} : refreshes'[q] = refreshes[q]
      BY <1>3, <2>4 DEF Without, Refreshes
    <3>4. r # "nested" => op' = op BY <2>4 DEF OpWithout
    <3>5. WillLook' BY <1>1, <1>3, <2>1, <2>4, <3>1, <3>2, <3>3, <3>4 DEF WillLook
    <3> QED BY <1>2, <2>3, <2>4, <3>5 DEF WinInv
  <2>5. ASSUME NEW t, NEW v, Concludes(r, t, v), t = "SIGNED_OUT" => sdk = NULL PROVE WinInv'
    <3>1. CASE t \in Locked
      <4>1. Lock(t, Without(r), OpWithout(r)) BY <2>5, <3>1 DEF Concludes
      <4>2. state' = t BY <4>1 DEF Lock
      <4>3. SignOutWins' /\ AskedFirst' BY <1>1, <1>3, <4>1, WithoutFacts, LockStales, NothingLearnt
      <4> QED BY <1>2, <2>1, <2>5, <4>2, <4>3 DEF WinInv, WillLook
    <3>2. CASE t \notin Locked
      <4>1. state' = t /\ refreshes' = Without(r) /\ op' = OpWithout(r)
        BY <2>5, <3>2 DEF Concludes
      <4>2. t # "SIGNED_OUT" BY <3>2 DEF Locked
      <4> QED BY <1>2, <2>3, <4>1, <4>2 DEF WinInv, WillLook
    <3> QED BY <3>1, <3>2
  <2>6. ASSUME NEW z, z.stale = refreshes[r].stale, z.answer = "ok" => z.stale, z # NULL,
               refreshes' = [refreshes EXCEPT ![r] = z], UNCHANGED <<state, op>>
        PROVE  WinInv'
    <3>1. /\ refreshes'[r] = z /\ \A q \in Slots \ {r} : refreshes'[q] = refreshes[q]
      BY <1>3, <2>6 DEF Refreshes
    <3>2. SignOutWins' /\ AskedFirst' BY <1>1, <1>3, <2>6, <3>1, NothingLearnt
    <3>3. WillLook'
      <4>1. \A q \in Slots : refreshes[q] # NULL /\ ~refreshes[q].stale
                              => refreshes'[q] # NULL /\ ~refreshes'[q].stale
        BY <2>6, <3>1
      <4> QED BY <1>1, <1>3, <2>1, <2>6, <4>1 DEF WillLook
    <3> QED BY <1>2, <3>2, <3>3 DEF WinInv
  <2>7. /\ x.stale = refreshes[r].stale /\ x.answer = refreshes[r].answer
        /\ y.stale = refreshes[r].stale /\ y.answer = refreshes[r].answer
        /\ x # NULL /\ y # NULL
        /\ refreshes[r].answer = "ok" => refreshes[r].stale \/ refreshes[r].at = "factors"
    <3>1. Token \in Opt(Sessions) /\ level \in Opt(Levels)
      BY DEF IInv, TypeOK, Opt, Token
    <3> HIDE DEF level
    <3>2. x \in Refresh /\ y \in Refresh BY ONLY <2>2, <3>1 DEF Refresh
    <3>3. /\ x.stale = refreshes[r].stale /\ x.answer = refreshes[r].answer
          /\ y.stale = refreshes[r].stale /\ y.answer = refreshes[r].answer
      BY ONLY <2>2 DEF Refresh
    <3> QED BY <2>1, <3>2, <3>3 DEF FlowConstants, WinInv, AskedFirst
  <2>8. s # "SIGNED_OUT" BY DEF StateOf
  <2> HIDE DEF x, y, s
  <2>9. \/ Stale(r) /\ refreshes' = Without(r) /\ op' = OpWithout(r) /\ state' = state
        \/ Concludes(r, "ERROR_LOCKED", {})
        \/ sdk = NULL /\ Concludes(r, "SIGNED_OUT", {})
        \/ /\ refreshes[r].at \in {"session", "level"} /\ UNCHANGED <<state, op>>
           /\ \/ refreshes' = [refreshes EXCEPT ![r] = x]
              \/ refreshes' = [refreshes EXCEPT ![r] = y]
        \/ Concludes(r, s, refreshes[r].verified)
    BY <1>7 DEF ContinueRefresh, x, y, s
  <2> QED BY <2>4, <2>5, <2>6, <2>7, <2>8, <2>9
<1> QED BY <1>4, <1>5, <1>6, <1>7

LEMMA MovedWins ==
  ASSUME FlowConstants, IInv, WinInv, Moved, op # NULL, op.call # NULL,
         UNCHANGED <<leaving, live, left>>, scheduled => scheduled',
         sdk' = sdk \/ scheduled' \/ signingOut
  PROVE  WinInv'
<1>1. LeftIsDead' BY NobodyLeft DEF WinInv
<1>2. SignOutWins' /\ AskedFirst'
  <2>1. \A r \in Slots : refreshes'[r] # NULL =>
          \/ refreshes'[r] = refreshes[r]
          \/ refreshes'[r].stale \/ refreshes'[r].answer = NULL
    BY DEF Moved, Ignorant
  <2>2. NULL # "ok" BY DEF FlowConstants
  <2> QED BY <2>1, <2>2, NothingLearnt
<1>3. WillLook'
  <2>1. signingOut => leaving # NULL BY DEF IInv, LeavingOK
  <2>2. /\ state' = state /\ (op' # NULL => op'.outdated = op.outdated)
        /\ \/ state # "SIGNED_OUT" \/ signingOut
           \/ \E r \in Slots : refreshes'[r] # NULL /\ ~refreshes'[r].stale
           \/ refreshes' = refreshes /\ (op.outdated \/ (op' # NULL /\ op'.call # NULL))
    BY DEF Moved
  <2> QED BY <2>1, <2>2 DEF WillLook, WinInv
<1> QED BY <1>1, <1>2, <1>3 DEF WinInv

LEMMA OperationWins ==
  ASSUME FlowConstants, IInv, WinInv,
         \/ SignIn \/ BeginEnrollment \/ ConfirmEnrollment \/ \E f \in Factors : Challenge(f)
         \/ CancelEnrollment \/ OpContinues \/ OpTimesOut
  PROVE  WinInv'
<1>1. /\ leaving' = leaving /\ left' = left /\ live' = live
  BY DEF SignIn, BeginEnrollment, ConfirmEnrollment, Challenge, Begin, CancelEnrollment,
         OpContinues, OpTimesOut, server
<1>2. LeftIsDead' BY <1>1, NobodyLeft DEF WinInv
<1>3. refreshes \in Refreshes /\ (signingOut <=> leaving # NULL)
  BY DEF IInv, TypeOK, Refreshes, LeavingOK
<1>4. ASSUME NEW kind \in {"signIn", "enroll", "confirm", "challenge"}, NEW c \in Call, c # NULL,
             Begin(kind, c)
      PROVE  WinInv'
  <2>1. op' = [kind |-> kind, call |-> c, outdated |-> FALSE]
        /\ refreshes' = Superseded(refreshes) /\ sdk' = sdk
    BY <1>4 DEF Begin
  <2>2. SignOutWins' /\ AskedFirst' BY <1>1, <1>3, <2>1, SupersededFacts, NothingLearnt
  <2>3. WillLook'
    <3>1. op' \in Operation BY <2>1 DEF Operation, Opt
    <3>2. op' # NULL BY <3>1 DEF FlowConstants
    <3> QED BY <1>4, <2>1, <3>2 DEF WillLook
  <2> QED BY <1>2, <2>2, <2>3 DEF WinInv
<1>5. CASE SignIn \/ BeginEnrollment \/ ConfirmEnrollment \/ \E f \in Factors : Challenge(f)
  <2>1. /\ NULL \in Opt(Factors) /\ \A f \in Factors : f \in Opt(Factors)
        /\ pending # NULL => pending.factor \in Factors
    BY DEF Opt, IInv, TypeOK
  <2>2. \E kind \in {"signIn", "enroll", "confirm", "challenge"}, f \in Opt(Factors),
           does \in {"signIn", "verify", "enroll", "unenroll"} : Begin(kind, Ask(does, f))
    BY <1>5, <2>1 DEF SignIn, BeginEnrollment, ConfirmEnrollment, Challenge
  <2> QED BY <1>4, <2>2, AskFacts
<1>6. CASE CancelEnrollment
  <2>1. UNCHANGED <<state, scheduled, refreshes, op, sdk>> BY <1>6 DEF CancelEnrollment
  <2>2. SignOutWins' /\ AskedFirst' BY <1>1, <2>1, NothingLearnt
  <2> QED BY <1>1, <1>2, <2>1, <2>2 DEF WinInv, WillLook
<1>7. CASE OpContinues /\ op.call.does = "signOut"
  <2>1. NotifySignedOut(refreshes, NULL) /\ sdk' = NULL BY <1>7 DEF OpContinues, Saves
  <2>2. SignOutWins' /\ AskedFirst' BY <1>1, <1>3, <2>1, SignedOutStales, NothingLearnt
  <2> QED BY <1>2, <2>1, <2>2 DEF WinInv, WillLook
<1>8. CASE OpContinues /\ op.call.does # "signOut"
  <2>1. op # NULL /\ op.call # NULL /\ op.call.answer # NULL BY <1>8 DEF OpContinues
  <2>2. op.call.answer \in {"ok", "failed"} BY <2>1, OpFacts DEF Call
  <2>3. Moved
    BY <1>8, <2>1, <2>2, DroppedMoved, SucceedsMoved, FailsMoved DEF OpContinues
  <2>4. (scheduled => scheduled') /\ (sdk' = sdk \/ scheduled' \/ signingOut)
    BY <1>8, <2>1 DEF OpContinues, Notify, Saves
  <2> QED BY <1>1, <2>1, <2>3, <2>4, MovedWins
<1>9. CASE OpTimesOut
  <2>1. op # NULL /\ op.call # NULL /\ sdk' = sdk /\ scheduled' = scheduled
    BY <1>9 DEF OpTimesOut
  <2> QED BY <1>1, <1>9, <2>1, OpTimesOutMoved, MovedWins
<1> QED BY <1>5, <1>6, <1>7, <1>8, <1>9

LEMMA ServerWins ==
  ASSUME FlowConstants, ~SignOutFails, IInv, WinInv,
         \/ \E all \in BOOLEAN : SignOut(all)
         \/ SignedOut \/ ServeOp \/ ServeLeaving
         \/ \E call \in late : ServeLate(call)
  PROVE  WinInv'
<1>1. /\ refreshes \in Refreshes /\ leaving \in Opt(Call) /\ late \in SUBSET Call
      /\ live \cup left \subseteq Ids /\ LeftIsDead /\ WillLook
      /\ (signingOut <=> leaving # NULL) /\ (signingOut => state = "SIGNED_OUT")
      /\ leaving # NULL => leaving.does \in SignOuts
  BY DEF IInv, TypeOK, Refreshes, LeavingOK, KnownIds, WinInv
<1>2. ASSUME NEW all \in BOOLEAN, SignOut(all) PROVE WinInv'
  <2>1. /\ leaving' = Ask(IF all THEN "signOutAll" ELSE "signOut", NULL)
        /\ left' = left \cup ({Token} \ {NULL}) /\ live' = live /\ ~signingOut
        /\ Lock("SIGNED_OUT", refreshes, op)
    BY <1>1, <1>2 DEF SignOut, server
  <2>2. leaving' # NULL /\ leaving'.answer = NULL /\ leaving'.id = Token
    BY <2>1, AskFacts DEF SignOuts, Opt
  <2>3. LeftIsDead'
    <3>1. left \cap live = {} /\ NULL # "failed" BY <1>1, <2>1 DEF LeftIsDead, FlowConstants
    <3> QED BY <2>1, <2>2, <3>1 DEF LeftIsDead
  <2>4. \A r \in Slots : refreshes'[r] # NULL => refreshes'[r].stale BY <1>1, <2>1, LockStales
  <2> QED BY <2>2, <2>3, <2>4 DEF WinInv, WillLook, SignOutWins, AskedFirst, Stale
<1>3. CASE SignedOut
  <2>1. /\ leaving # NULL /\ leaving.answer # NULL /\ sdk' = NULL /\ leaving' = NULL
        /\ Lock("SIGNED_OUT", refreshes, op) /\ left' = left /\ live' = live
    BY <1>3 DEF SignedOut, server
  <2>2. LeftIsDead' BY <1>1, <2>1 DEF LeftIsDead
  <2>3. \A r \in Slots : refreshes'[r] # NULL => refreshes'[r].stale BY <1>1, <2>1, LockStales
  <2> QED BY <2>1, <2>2, <2>3 DEF WinInv, WillLook, SignOutWins, AskedFirst, Stale
<1>4. ASSUME NEW call \in Call, NEW done \in Answers(call), Serves(call, done),
             leaving' = leaving, left' = left, UNCHANGED <<state, scheduled, refreshes, sdk>>,
             op' = op \/ (op # NULL /\ op.call # NULL /\ op' = [op EXCEPT !.call = done])
      PROVE  WinInv'
  <2>1. live' \subseteq live \cup ((1..issued') \ Ids) /\ done \in Call /\ done # NULL
    BY <1>4, ServesFacts
  <2>2. LeftIsDead' BY <1>1, <1>4, <2>1 DEF LeftIsDead
  <2>3. SignOutWins' /\ AskedFirst' BY <1>4, NothingLearnt
  <2>4. WillLook'
    <3>1. op' = op \/ (op' # NULL /\ op'.call = done /\ op'.outdated = op.outdated)
      BY <1>4, <2>1, OpFacts DEF Opt
    <3> QED BY <1>1, <1>4, <2>1, <3>1 DEF WillLook
  <2> QED BY <2>2, <2>3, <2>4 DEF WinInv
<1>5. CASE ServeOp
  <2>1. PICK done \in Answers(op.call) :
          Serves(op.call, done) /\ op' = [op EXCEPT !.call = done]
    BY <1>5 DEF ServeOp
  <2>2. /\ op # NULL /\ op.call # NULL
        /\ UNCHANGED <<state, scheduled, refreshes, leaving, sdk, left>>
    BY <1>5 DEF ServeOp, flow
  <2>3. op.call \in Call BY <2>2, OpFacts
  <2> QED BY <1>4, <2>1, <2>2, <2>3
<1>6. ASSUME NEW call \in late, ServeLate(call) PROVE WinInv'
  <2>1. UNCHANGED <<state, scheduled, refreshes, op, leaving, sdk, left>>
    BY <1>6 DEF ServeLate, flow
  <2>2. PICK done \in Answers(call) : Serves(call, done) BY <1>6 DEF ServeLate
  <2> QED BY <1>1, <1>4, <2>1, <2>2
<1>7. CASE ServeLeaving
  <2>1. PICK done \in Answers(leaving) : Serves(leaving, done) /\ leaving' = done
    BY <1>7 DEF ServeLeaving
  <2>2. /\ leaving # NULL /\ leaving.does \in SignOuts /\ leaving \in Call
        /\ UNCHANGED <<state, scheduled, refreshes, op, sdk, left>>
    BY <1>1, <1>7 DEF ServeLeaving, flow, Opt
  <2>3. done = [leaving EXCEPT !.answer = "ok"]
    BY <2>1, <2>2 DEF Answers, SignOuts
  <2>4. done.answer = "ok" /\ done.does = leaving.does /\ done.id = leaving.id /\ done # NULL
    <3>1. done.answer = "ok" /\ done.does = leaving.does /\ done.id = leaving.id
      BY <2>2, <2>3 DEF Call
    <3> QED BY <2>1, <2>2, <3>1, ServesFacts
  <2>5. live' = live \ {leaving.id} \/ (leaving.id # NULL /\ live' = {})
        \/ (leaving.id = NULL /\ live' = live)
    BY <2>1, <2>2, <2>4 DEF Serves, Performs, SignOuts
  <2>6. leaving.answer = NULL BY <2>1 DEF Serves
  <2>7. NULL \notin live BY DEF IInv, TypeOK, FlowConstants
  <2>8. LeftIsDead'
    <3>1. left \cap live \subseteq {leaving.id} BY <1>1, <2>2, <2>6 DEF LeftIsDead
    <3>2. left' \cap live' = {} BY <2>2, <2>5, <2>7, <3>1
    <3> QED BY <2>1, <2>4, <3>2 DEF LeftIsDead
  <2>9. SignOutWins' /\ AskedFirst' BY <2>2, NothingLearnt
  <2> QED BY <2>1, <2>4, <2>8, <2>9 DEF WinInv, WillLook
<1> QED BY <1>2, <1>3, <1>5, <1>6, <1>7

LEMMA SdkWins ==
  ASSUME FlowConstants, IInv, WinInv,
         \/ \E call \in late : DeliverLate(call)
         \/ \E level \in Levels : TokenRefreshed(level)
         \/ SessionEnds
         \/ \E i \in Sessions : Revoked(i)
         \/ \E f \in Factors : FactorRemoved(f)
  PROVE  WinInv'
<1>1. leaving' = leaving /\ left' = left /\ live' \in SUBSET live
  BY DEF DeliverLate, TokenRefreshed, SessionEnds, Revoked, FactorRemoved, server
<1>2. LeftIsDead' BY <1>1, NobodyLeft DEF WinInv
<1>3. refreshes \in Refreshes /\ (signingOut => leaving # NULL)
  BY DEF IInv, TypeOK, Refreshes, LeavingOK
<1>4. CASE sdk' = NULL /\ NotifySignedOut(refreshes, op)
  <2>1. SignOutWins' /\ AskedFirst' BY <1>1, <1>3, <1>4, SignedOutStales, NothingLearnt
  <2> QED BY <1>2, <1>4, <2>1 DEF WinInv, WillLook
<1>5. CASE UNCHANGED <<state, refreshes, op>> /\ (Notify \/ UNCHANGED <<sdk, scheduled>>)
  <2>1. SignOutWins' /\ AskedFirst' BY <1>1, <1>5, NothingLearnt
  <2>2. WillLook' BY <1>1, <1>3, <1>5 DEF Notify, WillLook, WinInv
  <2> QED BY <1>2, <2>1, <2>2 DEF WinInv
<1> QED BY <1>4, <1>5 DEF DeliverLate, TokenRefreshed, SessionEnds, Revoked, FactorRemoved, flow

LEMMA InitWins == ASSUME FlowConstants, Init PROVE WinInv
BY DEF Init, WinInv, LeftIsDead, WillLook, AskedFirst, SignOutWins

LEMMA NextWins ==
  ASSUME FlowConstants, ~SignOutFails, IInv, WinInv, [Next]_vars
  PROVE  WinInv'
<1>1. CASE Next
  <2>1. \A r \in Background : r \in Slots /\ r # "nested" BY DEF Slots, FlowConstants
  <2> QED BY <1>1, <2>1, RefreshWins, OperationWins, ServerWins, SdkWins DEF Next
<1>2. CASE UNCHANGED vars
  BY <1>2 DEF vars, flow, server, WinInv, LeftIsDead, WillLook, AskedFirst, SignOutWins, Stale
<1> QED BY <1>1, <1>2

LEMMA RestFollows == ASSUME WinInv PROVE RestIsCurrent
BY DEF WinInv, WillLook, RestIsCurrent, Quiet

(* Sign-out always wins, and at rest a page that shows SIGNED_OUT keeps no *)
(* session, if the provider's sign-out does not fail; every other call may *)
(* fail, hang, or end after its timeout.                                   *)
THEOREM SignOutAlwaysWins ==
  ASSUME FlowConstants, ~SignOutFails
  PROVE  Spec => [](SignOutWins /\ RestIsCurrent)
<1>1. WinInv => SignOutWins /\ RestIsCurrent BY RestFollows DEF WinInv
<1> QED BY InitInv, NextInv, InitWins, NextWins, <1>1, PTL DEF Spec
=============================================================================
