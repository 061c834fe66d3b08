---------------------------- MODULE MCOwnerPage -----------------------------
(* The two controllers of the owner page, side by side; a behaviour        *)
(* follows one of the parts named by the run:                              *)
(*   "session"  the private session, under any flow that locks and unlocks;*)
(*   "prompt"  the MFA flow over calls that end by their timeout;          *)
(*   "flow"    its sign-ins over calls that outlive their timeout;         *)
(*   "refused" the MFA flow over a provider whose sign-out may fail;       *)
(* PrivateSession lets the flow publish anything at any time, so what      *)
(* holds of it holds beside each of the flows.                             *)
EXTENDS PrivateSession, TLC

CONSTANTS
  Parts, \* the parts this run follows
  i1, i2, a1, a2, f0, b1

VARIABLES
  part,
  state, factors, pending, signingOut, scheduled, refreshes, op, leaving,
  late, sdk, live, issued, enrolled, left   \* of OwnerMfaFlow

flowVars == <<state, factors, pending, signingOut, scheduled, refreshes, op,
              leaving, late, sdk, live, issued, enrolled, left>>
pageVars == <<vars, flowVars, part>>

Prompt == INSTANCE OwnerMfaFlow WITH
  Factors <- {f0}, Background <- {b1}, MaxAttempts <- 1, MaxSessions <- 2,
  MaxLate <- 0, CallsOutlive <- FALSE, SignOutFails <- FALSE

Flow == INSTANCE OwnerMfaFlow WITH
  Factors <- {}, Background <- {b1}, MaxAttempts <- 1, MaxSessions <- 2,
  MaxLate <- 1, CallsOutlive <- TRUE, SignOutFails <- FALSE

Refused == INSTANCE OwnerMfaFlow WITH
  Factors <- {f0}, Background <- {b1}, MaxAttempts <- 2, MaxSessions <- 1,
  MaxLate <- 0, CallsOutlive <- FALSE, SignOutFails <- TRUE

ASSUME PageAssumption ==
  Prompt!FlowConstants /\ Flow!FlowConstants /\ Refused!FlowConstants

PageSymmetry == Permutations({i1, i2}) \cup Permutations({a1, a2})

-----------------------------------------------------------------------------
SessionAtRest ==
  /\ Init /\ session = NULL /\ owners = {} /\ api = TRUE

PageInit ==
  /\ part \in Parts
  /\ \/ part = "session" /\ Init /\ Flow!Init
     \/ part = "prompt" /\ SessionAtRest /\ Prompt!Init
     \/ part = "flow" /\ SessionAtRest /\ Flow!Init
     \/ part = "refused" /\ SessionAtRest /\ Refused!Init

PageNext ==
  \/ part = "session" /\ Next /\ UNCHANGED <<flowVars, part>>
  \/ part = "prompt" /\ Prompt!Next /\ UNCHANGED <<vars, part>>
  \/ part = "flow" /\ Flow!Next /\ UNCHANGED <<vars, part>>
  \/ part = "refused" /\ Refused!Next /\ UNCHANGED <<vars, part>>

PageSpec == PageInit /\ [][PageNext]_pageVars
FairPageSpec == PageSpec /\ Fairness

-----------------------------------------------------------------------------
(* What the flow shows is true: an open state has a session in the SDK, an *)
(* unlocked one a verified factor, and no secret of an enrolment outlives  *)
(* a lock (mfa_flow.js:10-11 and :169), even where sign-outs fail.  At     *)
(* rest a page that shows SIGNED_OUT keeps no session: no event of the SDK *)
(* is lost by coalescing, superseding or a sign-out (mfa_flow.js:246).     *)
StateIsTrue ==
  /\ part = "prompt" =>
       /\ Prompt!TypeOK /\ Prompt!OpenHasSession /\ Prompt!PendingOnlyWhenOpen
       /\ Prompt!RestIsCurrent
  /\ part = "flow" => Flow!TypeOK /\ Flow!OpenHasSession /\ Flow!RestIsCurrent
  /\ part = "refused" => Refused!OpenHasSession /\ Refused!PendingOnlyWhenOpen

(* mfa_flow.js:13, sign-out always wins: nothing that may still be         *)
(* published is of a session the owner signed out of.                      *)
SignOutWins ==
  /\ part = "prompt" => Prompt!SignOutWins
  /\ part = "flow" => Flow!SignOutWins

(* The same sentence, where the provider's sign-out may fail or time out.  *)
RefusedSignOutWins == part = "refused" => Refused!SignOutWins

(* mfa_flow.js:12: a success after a lock closes its session.              *)
LateSuccessIsClosed == [][part = "flow" => Flow!ClosesLateSuccess]_pageVars
=============================================================================
