-------------------------- MODULE SchedulerRunStore --------------------------
(***************************************************************************)
(* The durable scheduler run store of                                      *)
(* supabase/migrations/024_private_scheduler_run_persistence.sql: the run  *)
(* table, the append-only transition history and the two RPCs that write   *)
(* them.  Any caller with the service role may send any arguments, NULL    *)
(* included: nothing here relies on the Python prediction.                 *)
(*                                                                         *)
(* Each RPC is one action.  apply_... takes the row lock before it reads   *)
(* and keeps it to the commit; initialize_... either inserts both rows or  *)
(* finds, after its subtransaction rolled back, the committed row that     *)
(* holds the primary key (rows are never deleted).                         *)
(***************************************************************************)
EXTENDS Integers, FiniteSets, TLAPS

CONSTANTS Runs, Admissions, RunOf, NotBefore, Instants, ClaimKeys,
          FailureCodes, Versions, NULL

VARIABLES
  runs,       \* private_scheduler_runs: for each run NULL or its row
  history     \* private_scheduler_run_transitions: the set of its rows

vars == <<runs, history>>

(* The lifecycle domain over the same run table.                           *)
Domain == INSTANCE SchedulerRunLifecycle

ASSUME StoreAssumption == Domain!ConstantsOK

HistoryRow ==
  [ run : Runs, kind : Domain!Kinds \cup {"initialize"},
    before_version : Nat \cup {NULL}, transition_at : Domain!Opt(Instants),
    after : Domain!Lifecycle ]

(* RPC arguments: every parameter but the identity and the version is      *)
(* nullable, and a lease or a failure code may come with any kind.         *)
SqlCommand ==
  [ kind : Domain!Kinds, expected_version : Versions,
    claim_key : Domain!Opt(ClaimKeys), transition_at : Domain!Opt(Instants),
    lease_expires_at : Domain!Opt(Instants), failure_code : Domain!Opt(FailureCodes) ]

(* What an RPC returns: a status and the state and version of the row.     *)
Answer(status, life) ==
  [ status |-> status, state |-> life.state, state_version |-> life.state_version ]

NotFound == [ status |-> "not_found", state |-> NULL, state_version |-> NULL ]

-----------------------------------------------------------------------------
(* initialize_private_scheduler_run                                        *)

InitializeAnswer(a) ==
  LET row == runs[RunOf[a]] IN
  IF row = NULL THEN Answer("initialized", Domain!ReadyLife)
  ELSE Answer(IF row.admission = a THEN "idempotent_duplicate" ELSE "conflict", row.life)

\* mutant: ON CONFLICT DO UPDATE
UpsertRun(a) ==
  LET r == RunOf[a] IN
  \/ /\ runs[r] = NULL
     /\ runs' = [runs EXCEPT ![r] = [admission |-> a, life |-> Domain!ReadyLife]]
     /\ history' = history \cup
          {[ run |-> r, kind |-> "initialize", before_version |-> NULL,
             transition_at |-> NULL, after |-> Domain!ReadyLife ]}
  \/ /\ runs[r] # NULL
     /\ runs' = [runs EXCEPT ![r].admission = a]
     /\ UNCHANGED history

InitializeRun(a) ==
  LET r == RunOf[a] IN
  \/ /\ runs[r] = NULL
     /\ runs' = [runs EXCEPT ![r] = [admission |-> a, life |-> Domain!ReadyLife]]
     /\ history' = history \cup
          {[ run |-> r, kind |-> "initialize", before_version |-> NULL,
             transition_at |-> NULL, after |-> Domain!ReadyLife ]}
  \/ /\ runs[r] # NULL
     /\ UNCHANGED vars

-----------------------------------------------------------------------------
(* apply_private_scheduler_run_transition                                  *)

(* The comparisons of instants the guards make, all of them half-open.     *)
NotBeforeReached(nb, at) == at >= nb

LeaseCovers(s, at) == s.claimed_at <= at /\ at < s.lease_expires_at

LeaseOver(s, at) == at >= s.lease_expires_at

(* v_ok: the guard of each kind on the locked row.  The COALESCE to FALSE  *)
(* makes a comparison with NULL fail, as the IS NOT NULL conjuncts do.     *)
GuardOk(nb, s, c) ==
  /\ c.claim_key # NULL /\ c.transition_at # NULL
  /\ \/ /\ c.kind = "claim" /\ s.state = "ready"
        /\ c.lease_expires_at # NULL /\ c.failure_code = NULL
        /\ NotBeforeReached(nb, c.transition_at) /\ c.transition_at < c.lease_expires_at
     \/ /\ c.kind = "renew_claim" /\ s.state = "claimed" /\ c.claim_key = s.claim_key
        /\ c.lease_expires_at # NULL /\ c.failure_code = NULL
        /\ LeaseCovers(s, c.transition_at)
        /\ c.lease_expires_at > s.lease_expires_at
     \/ /\ c.kind = "take_over_expired_claim" /\ s.state = "claimed"
        /\ c.claim_key # s.claim_key
        /\ c.lease_expires_at # NULL /\ c.failure_code = NULL
        /\ LeaseOver(s, c.transition_at)
        /\ c.lease_expires_at > c.transition_at
     \/ /\ c.kind \in {"succeed", "fail"} /\ s.state = "claimed"
        /\ c.claim_key = s.claim_key /\ c.lease_expires_at = NULL
        /\ c.kind = "fail" <=> c.failure_code # NULL
        /\ LeaseCovers(s, c.transition_at)

(* The SET list of the takeover.                                           *)
\* mutant: a takeover keeps the instant of the claim it ends
TakenOverSince(s, c) ==
  [ s EXCEPT !.state_version = @ + 1, !.claim_key = c.claim_key,
             !.lease_expires_at = c.lease_expires_at ]

TakenOver(s, c) ==
  [ s EXCEPT !.state_version = @ + 1, !.claim_key = c.claim_key,
             !.claimed_at = c.transition_at, !.lease_expires_at = c.lease_expires_at ]

(* The SET list of each UPDATE.                                            *)
Updated(s, c) ==
  CASE c.kind = "claim" ->
         [ s EXCEPT !.state = "claimed", !.state_version = @ + 1,
                    !.claim_key = c.claim_key, !.claimed_at = c.transition_at,
                    !.lease_expires_at = c.lease_expires_at,
                    !.terminal_at = NULL, !.failure_code = NULL ]
    [] c.kind = "renew_claim" ->
         [ s EXCEPT !.state_version = @ + 1, !.lease_expires_at = c.lease_expires_at ]
    [] c.kind = "take_over_expired_claim" -> TakenOver(s, c)
    [] c.kind = "succeed" ->
         [ s EXCEPT !.state = "succeeded", !.state_version = @ + 1,
                    !.terminal_at = c.transition_at ]
    [] c.kind = "fail" ->
         [ s EXCEPT !.state = "failed", !.state_version = @ + 1,
                    !.terminal_at = c.transition_at, !.failure_code = c.failure_code ]

(* The version check, made before any guard.                               *)
VersionMatches(s, c) == s.state_version = c.expected_version

Applies(r, c) ==
  /\ runs[r] # NULL
  /\ VersionMatches(runs[r].life, c)
  /\ GuardOk(NotBefore[r], runs[r].life, c)

ApplyAnswer(r, c) ==
  IF runs[r] = NULL THEN NotFound
  ELSE LET s == runs[r].life IN
       IF ~VersionMatches(s, c) THEN Answer("version_conflict", s)
       ELSE IF ~Applies(r, c) THEN Answer("transition_conflict", s)
       ELSE Answer("applied", Updated(s, c))

(* The history row of an applied transition, inserted in its transaction.  *)
\* mutant: history inserted before the update
RowBeforeUpdate(r, c) ==
  [ run |-> r, kind |-> c.kind, before_version |-> c.expected_version,
    transition_at |-> c.transition_at, after |-> runs[r].life ]

AppliedRow(r, c) ==
  [ run |-> r, kind |-> c.kind, before_version |-> c.expected_version,
    transition_at |-> c.transition_at, after |-> Updated(runs[r].life, c) ]

ApplyTransition(r, c) ==
  \/ /\ Applies(r, c)
     /\ runs' = [runs EXCEPT ![r].life = Updated(@, c)]
     /\ history' = history \cup {AppliedRow(r, c)}
  \/ /\ ~Applies(r, c)
     /\ UNCHANGED vars

-----------------------------------------------------------------------------

Init ==
  /\ runs = [r \in Runs |-> NULL]
  /\ history = {}

(* A refused call changes no row, so it is a stuttering step.              *)
Next ==
  \/ \E a \in Admissions : InitializeRun(a)
  \/ \E r \in Runs, c \in SqlCommand : Applies(r, c) /\ ApplyTransition(r, c)

Spec == Init /\ [][Next]_vars

-----------------------------------------------------------------------------
(* Properties                                                              *)

(* Type correctness.  Shape is what the CHECK constraints of both tables   *)
(* demand, so no RPC is ever turned back by a constraint.                  *)
TypeOK ==
  /\ Domain!TypeOK
  /\ history \in SUBSET HistoryRow
  /\ \A h \in history : Domain!Shape(h.after)

RowsOf(r) == {h \in history : h.run = r}

(* The history of a run is its versions 1 .. state_version, one row each,  *)
(* and its last row is the current row: the run table and the history of   *)
(* one run never disagree, and the history primary key is never violated.  *)
HistoryMatchesRun ==
  \A r \in Runs :
    IF runs[r] = NULL THEN RowsOf(r) = {}
    ELSE /\ \A h, g \in RowsOf(r) :
              h.after.state_version = g.after.state_version => h = g
         /\ \A v \in 1 .. runs[r].life.state_version :
              \E h \in RowsOf(r) : h.after.state_version = v
         /\ \A h \in RowsOf(r) :
              /\ h.after.state_version <= runs[r].life.state_version
              /\ h.after.state_version = runs[r].life.state_version
                   => h.after = runs[r].life

(* A history can be replayed: each row follows from the row one version    *)
(* before it by the relation the Python transition record validates.       *)
HistoryReplays ==
  \A h \in history :
    IF h.kind = "initialize" THEN h.after = Domain!ReadyLife /\ h.before_version = NULL
    ELSE \E g \in RowsOf(h.run) :
           /\ g.after.state_version = h.before_version
           /\ Domain!Relation(h.kind, NotBefore[h.run], g.after, h.after)

(* A later snapshot either belongs to the same claim, its lease at least   *)
(* as long, or was claimed when the earlier lease was over.                *)
LeaseOrder(s, t) ==
  \/ s.lease_expires_at <= t.claimed_at
  \/ /\ s.claim_key = t.claim_key /\ s.claimed_at = t.claimed_at
     /\ s.lease_expires_at <= t.lease_expires_at

(* Leases of different claims of a run never overlap, however the callers' *)
(* clocks are set: a claim starts at or after every lease granted before   *)
(* it, and a run is finished inside the lease of its last claim.           *)
LeasesDisjoint ==
  \A h, g \in history :
    /\ h.run = g.run
    /\ h.after.state_version < g.after.state_version
    /\ h.after.claim_key # NULL
    => LeaseOrder(h.after, g.after)

(* The store implements the Python lifecycle: whatever a caller sends, the *)
(* run table changes only by transitions the domain accepts.               *)
ImplementsLifecycle == Domain!Spec

-----------------------------------------------------------------------------
(* Proofs: any runs, admissions, callers and arguments.                    *)

(* The comparisons of instants are transparent in the proofs below.        *)
USE DEF NotBeforeReached, LeaseCovers, LeaseOver, TakenOver

-----------------------------------------------------------------------------
(* One lemma per transition kind: what a passing SQL guard says.  The new  *)
(* row is well shaped, it is the one the Python domain computes, and the   *)
(* domain accepts the call.                                                *)

(* What the shape says of a claimed row.                                   *)
LEMMA ClaimedShape ==
  ASSUME NEW s \in Domain!Lifecycle, Domain!Shape(s), s.state = "claimed"
  PROVE  /\ s.state_version >= 2 /\ s.terminal_at = NULL /\ s.failure_code = NULL
         /\ s.claim_key \in ClaimKeys /\ s.claimed_at \in Instants
         /\ s.lease_expires_at \in Instants /\ s.claimed_at < s.lease_expires_at
  BY DEF Domain!Shape, Domain!HasClaim, Domain!Lifecycle, Domain!Opt, Domain!Terminal

(* Versions start at 1.                                                    *)
LEMMA VersionPositive ==
  ASSUME NEW s \in Domain!Lifecycle, Domain!Shape(s)
  PROVE  s.state_version \in Nat /\ s.state_version >= 1
  BY DEF Domain!Shape, Domain!Lifecycle

LEMMA GuardClaim ==
  ASSUME NEW s \in Domain!Lifecycle, Domain!Shape(s),
         NEW nb \in Instants, NEW c \in SqlCommand,
         VersionMatches(s, c), GuardOk(nb, s, c), c.kind = "claim"
  PROVE  /\ Updated(s, c) \in Domain!Lifecycle
         /\ Domain!Shape(Updated(s, c))
         /\ Domain!Accepts(nb, s, c)
         /\ c \in Domain!Command
         /\ Updated(s, c) = Domain!After(s, c)
<1> DEFINE u == Updated(s, c)
<1>1. u = [ state |-> "claimed", state_version |-> s.state_version + 1, claim_key |-> c.claim_key,
            claimed_at |-> c.transition_at, lease_expires_at |-> c.lease_expires_at,
            terminal_at |-> NULL, failure_code |-> NULL ]
  BY DEF Updated, Domain!Lifecycle
<1> HIDE DEF u
<1>3. u = Domain!After(s, c)
  BY <1>1, StoreAssumption DEF Domain!After, Domain!Claimed, Domain!Lifecycle, GuardOk
<1>4. u \in Domain!Lifecycle /\ Domain!Relation(c.kind, nb, s, u)
  BY <1>1, StoreAssumption DEF GuardOk, Domain!Lifecycle, SqlCommand, Domain!Opt, Domain!States,
     Domain!Relation, Domain!ConstantsOK
<1>5. Domain!Shape(u)
  BY <1>1, StoreAssumption DEF GuardOk, SqlCommand, Domain!Opt, Domain!Lifecycle,
     Domain!Shape, Domain!HasClaim, Domain!Terminal, Domain!ConstantsOK
<1>6. Domain!Preconditions(s, c) /\ c \in Domain!Command
  BY StoreAssumption DEF GuardOk, VersionMatches, SqlCommand, Domain!Opt, Domain!Preconditions,
     Domain!LeaseActive, Domain!Command, Domain!LeaseCommand, Domain!FinishCommand,
     Domain!LeaseKinds, Domain!ConstantsOK
<1>7. QED
  BY <1>3, <1>4, <1>5, <1>6 DEF Domain!Accepts, u

LEMMA GuardRenew ==
  ASSUME NEW s \in Domain!Lifecycle, Domain!Shape(s),
         NEW nb \in Instants, NEW c \in SqlCommand,
         VersionMatches(s, c), GuardOk(nb, s, c), c.kind = "renew_claim"
  PROVE  /\ Updated(s, c) \in Domain!Lifecycle
         /\ Domain!Shape(Updated(s, c))
         /\ Domain!Accepts(nb, s, c)
         /\ c \in Domain!Command
         /\ Updated(s, c) = Domain!After(s, c)
<1> DEFINE u == Updated(s, c)
<1>1. u = [ state |-> s.state, state_version |-> s.state_version + 1, claim_key |-> s.claim_key,
            claimed_at |-> s.claimed_at, lease_expires_at |-> c.lease_expires_at,
            terminal_at |-> s.terminal_at, failure_code |-> s.failure_code ]
  BY DEF Updated, Domain!Lifecycle
<1>2. s.state = "claimed"
  BY DEF GuardOk
<1> HIDE DEF u
<1>3. u = Domain!After(s, c)
  BY <1>1, <1>2, ClaimedShape, StoreAssumption DEF Domain!After, Domain!Renewed, Domain!Lifecycle, GuardOk
<1>4. u \in Domain!Lifecycle /\ Domain!Relation(c.kind, nb, s, u)
  BY <1>1, <1>2, ClaimedShape, StoreAssumption DEF GuardOk, Domain!Lifecycle, SqlCommand, Domain!Opt, Domain!States,
     Domain!Relation, Domain!ConstantsOK
<1>5. Domain!Shape(u)
  <2>1. c.lease_expires_at \in Instants /\ c.lease_expires_at > s.lease_expires_at
    BY DEF GuardOk, SqlCommand, Domain!Opt
  <2>2. /\ s.state_version >= 2 /\ s.terminal_at = NULL /\ s.failure_code = NULL
        /\ s.claim_key \in ClaimKeys /\ s.claimed_at \in Int /\ s.lease_expires_at \in Int
        /\ s.claimed_at < s.lease_expires_at
    BY <1>2, ClaimedShape, StoreAssumption DEF Domain!ConstantsOK
  <2>3. s.claim_key # NULL /\ s.claimed_at # NULL /\ c.lease_expires_at # NULL
    BY <1>2, <2>1, ClaimedShape, StoreAssumption DEF Domain!ConstantsOK
  <2>4. s.claimed_at < c.lease_expires_at
    <3>1. c.lease_expires_at \in Int
      BY <2>1, StoreAssumption DEF Domain!ConstantsOK
    <3>2. \A i, j, k \in Int : i < j /\ k > j => i < k
      OBVIOUS
    <3>3. QED
      BY <2>1, <2>2, <3>1, <3>2
  <2>5. s.state_version + 1 >= 2
    BY <2>2 DEF Domain!Lifecycle
  <2>6. /\ u.state = "claimed" /\ u.state_version >= 2
        /\ u.terminal_at = NULL /\ u.failure_code = NULL
    BY <1>1, <1>2, <2>2, <2>5
  <2>7. Domain!HasClaim(u)
    BY <1>1, <2>3, <2>4 DEF Domain!HasClaim
  <2>8. QED
    BY <2>6, <2>7 DEF Domain!Shape
<1>6. Domain!Preconditions(s, c) /\ c \in Domain!Command
  BY StoreAssumption DEF GuardOk, VersionMatches, SqlCommand, Domain!Opt, Domain!Preconditions,
     Domain!LeaseActive, Domain!Command, Domain!LeaseCommand, Domain!FinishCommand,
     Domain!LeaseKinds, Domain!ConstantsOK
<1>7. QED
  BY <1>3, <1>4, <1>5, <1>6 DEF Domain!Accepts, u

LEMMA GuardTakeOver ==
  ASSUME NEW s \in Domain!Lifecycle, Domain!Shape(s),
         NEW nb \in Instants, NEW c \in SqlCommand,
         VersionMatches(s, c), GuardOk(nb, s, c), c.kind = "take_over_expired_claim"
  PROVE  /\ Updated(s, c) \in Domain!Lifecycle
         /\ Domain!Shape(Updated(s, c))
         /\ Domain!Accepts(nb, s, c)
         /\ c \in Domain!Command
         /\ Updated(s, c) = Domain!After(s, c)
<1> DEFINE u == Updated(s, c)
<1>1. u = [ state |-> s.state, state_version |-> s.state_version + 1, claim_key |-> c.claim_key,
            claimed_at |-> c.transition_at, lease_expires_at |-> c.lease_expires_at,
            terminal_at |-> s.terminal_at, failure_code |-> s.failure_code ]
  BY DEF Updated, Domain!Lifecycle
<1>2. s.state = "claimed"
  BY DEF GuardOk
<1> HIDE DEF u
<1>3. u = Domain!After(s, c)
  BY <1>1, <1>2, ClaimedShape, StoreAssumption DEF Domain!After, Domain!Claimed, Domain!Lifecycle, GuardOk
<1>4. u \in Domain!Lifecycle /\ Domain!Relation(c.kind, nb, s, u)
  BY <1>1, <1>2, ClaimedShape, StoreAssumption DEF GuardOk, Domain!Lifecycle, SqlCommand, Domain!Opt, Domain!States,
     Domain!Relation, Domain!ConstantsOK
<1>5. Domain!Shape(u)
  BY <1>1, <1>2, ClaimedShape, StoreAssumption DEF GuardOk, SqlCommand, Domain!Opt, Domain!Lifecycle,
     Domain!Shape, Domain!HasClaim, Domain!Terminal, Domain!ConstantsOK
<1>6. Domain!Preconditions(s, c) /\ c \in Domain!Command
  BY StoreAssumption DEF GuardOk, VersionMatches, SqlCommand, Domain!Opt, Domain!Preconditions,
     Domain!LeaseActive, Domain!Command, Domain!LeaseCommand, Domain!FinishCommand,
     Domain!LeaseKinds, Domain!ConstantsOK
<1>7. QED
  BY <1>3, <1>4, <1>5, <1>6 DEF Domain!Accepts, u

LEMMA GuardSucceed ==
  ASSUME NEW s \in Domain!Lifecycle, Domain!Shape(s),
         NEW nb \in Instants, NEW c \in SqlCommand,
         VersionMatches(s, c), GuardOk(nb, s, c), c.kind = "succeed"
  PROVE  /\ Updated(s, c) \in Domain!Lifecycle
         /\ Domain!Shape(Updated(s, c))
         /\ Domain!Accepts(nb, s, c)
         /\ c \in Domain!Command
         /\ Updated(s, c) = Domain!After(s, c)
<1> DEFINE u == Updated(s, c)
<1>1. u = [ state |-> "succeeded", state_version |-> s.state_version + 1, claim_key |-> s.claim_key,
            claimed_at |-> s.claimed_at, lease_expires_at |-> s.lease_expires_at,
            terminal_at |-> c.transition_at, failure_code |-> s.failure_code ]
  BY DEF Updated, Domain!Lifecycle
<1>2. s.state = "claimed"
  BY DEF GuardOk
<1> HIDE DEF u
<1>3. u = Domain!After(s, c)
  BY <1>1, <1>2, ClaimedShape, StoreAssumption DEF Domain!After, Domain!Finished, Domain!Lifecycle, GuardOk
<1>4. u \in Domain!Lifecycle /\ Domain!Relation(c.kind, nb, s, u)
  BY <1>1, <1>2, ClaimedShape, StoreAssumption DEF GuardOk, Domain!Lifecycle, SqlCommand, Domain!Opt, Domain!States,
     Domain!Relation, Domain!ConstantsOK
<1>5. Domain!Shape(u)
  BY <1>1, <1>2, ClaimedShape, StoreAssumption DEF GuardOk, SqlCommand, Domain!Opt, Domain!Lifecycle,
     Domain!Shape, Domain!HasClaim, Domain!Terminal, Domain!ConstantsOK
<1>6. Domain!Preconditions(s, c) /\ c \in Domain!Command
  BY StoreAssumption DEF GuardOk, VersionMatches, SqlCommand, Domain!Opt, Domain!Preconditions,
     Domain!LeaseActive, Domain!Command, Domain!LeaseCommand, Domain!FinishCommand,
     Domain!LeaseKinds, Domain!ConstantsOK
<1>7. QED
  BY <1>3, <1>4, <1>5, <1>6 DEF Domain!Accepts, u

LEMMA GuardFail ==
  ASSUME NEW s \in Domain!Lifecycle, Domain!Shape(s),
         NEW nb \in Instants, NEW c \in SqlCommand,
         VersionMatches(s, c), GuardOk(nb, s, c), c.kind = "fail"
  PROVE  /\ Updated(s, c) \in Domain!Lifecycle
         /\ Domain!Shape(Updated(s, c))
         /\ Domain!Accepts(nb, s, c)
         /\ c \in Domain!Command
         /\ Updated(s, c) = Domain!After(s, c)
<1> DEFINE u == Updated(s, c)
<1>1. u = [ state |-> "failed", state_version |-> s.state_version + 1, claim_key |-> s.claim_key,
            claimed_at |-> s.claimed_at, lease_expires_at |-> s.lease_expires_at,
            terminal_at |-> c.transition_at, failure_code |-> c.failure_code ]
  BY DEF Updated, Domain!Lifecycle
<1>2. s.state = "claimed"
  BY DEF GuardOk
<1> HIDE DEF u
<1>3. u = Domain!After(s, c)
  BY <1>1, <1>2, ClaimedShape, StoreAssumption DEF Domain!After, Domain!Finished, Domain!Lifecycle, GuardOk
<1>4. u \in Domain!Lifecycle /\ Domain!Relation(c.kind, nb, s, u)
  BY <1>1, <1>2, ClaimedShape, StoreAssumption DEF GuardOk, Domain!Lifecycle, SqlCommand, Domain!Opt, Domain!States,
     Domain!Relation, Domain!ConstantsOK
<1>5. Domain!Shape(u)
  BY <1>1, <1>2, ClaimedShape, StoreAssumption DEF GuardOk, SqlCommand, Domain!Opt, Domain!Lifecycle,
     Domain!Shape, Domain!HasClaim, Domain!Terminal, Domain!ConstantsOK
<1>6. Domain!Preconditions(s, c) /\ c \in Domain!Command
  BY StoreAssumption DEF GuardOk, VersionMatches, SqlCommand, Domain!Opt, Domain!Preconditions,
     Domain!LeaseActive, Domain!Command, Domain!LeaseCommand, Domain!FinishCommand,
     Domain!LeaseKinds, Domain!ConstantsOK
<1>7. QED
  BY <1>3, <1>4, <1>5, <1>6 DEF Domain!Accepts, u

(* The five lemmas together.                                               *)
LEMMA GuardFacts ==
  ASSUME NEW s \in Domain!Lifecycle, Domain!Shape(s),
         NEW nb \in Instants, NEW c \in SqlCommand,
         VersionMatches(s, c), GuardOk(nb, s, c)
  PROVE  /\ Updated(s, c) \in Domain!Lifecycle
         /\ Domain!Shape(Updated(s, c))
         /\ Domain!Accepts(nb, s, c)
         /\ c \in Domain!Command
         /\ Updated(s, c) = Domain!After(s, c)
<1>1. c.kind \in Domain!Kinds
  BY DEF SqlCommand
<1>2. QED
  BY <1>1, GuardClaim, GuardRenew, GuardTakeOver, GuardSucceed, GuardFail
     DEF Domain!Kinds, Domain!LeaseKinds

-----------------------------------------------------------------------------
(* What one applied transition does to the tables.                         *)

LEMMA AppliedStep ==
  ASSUME TypeOK, NEW r \in Runs, NEW c \in SqlCommand,
         Applies(r, c), ApplyTransition(r, c)
  PROVE  LET s == runs[r].life  u == Updated(s, c) IN
         /\ runs[r] \in Domain!Run /\ RunOf[runs[r].admission] = r
         /\ s \in Domain!Lifecycle /\ Domain!Shape(s)
         /\ u \in Domain!Lifecycle /\ Domain!Shape(u)
         /\ Domain!Accepts(NotBefore[r], s, c) /\ c \in Domain!Command
         /\ u = Domain!After(s, c)
         /\ Domain!Relation(c.kind, NotBefore[r], s, u)
         /\ c.expected_version = s.state_version
         /\ u.state_version = s.state_version + 1
         /\ runs' = [runs EXCEPT ![r].life = u]
         /\ history' = history \cup {AppliedRow(r, c)}
         /\ AppliedRow(r, c) \in HistoryRow
         /\ AppliedRow(r, c).after = u
<1> DEFINE s == runs[r].life
           u == Updated(s, c)
<1>1. runs[r] \in Domain!Run /\ RunOf[runs[r].admission] = r /\ Domain!Shape(s)
  BY DEF TypeOK, Domain!TypeOK, Domain!Opt, Applies
<1>2. s \in Domain!Lifecycle
  BY <1>1 DEF Domain!Run
<1>3. VersionMatches(s, c) /\ GuardOk(NotBefore[r], s, c) /\ NotBefore[r] \in Instants
  BY StoreAssumption DEF Applies, Domain!ConstantsOK
<1>4. /\ u \in Domain!Lifecycle /\ Domain!Shape(u)
      /\ Domain!Accepts(NotBefore[r], s, c) /\ c \in Domain!Command
      /\ u = Domain!After(s, c)
  BY <1>1, <1>2, <1>3, GuardFacts
<1>5. Domain!Relation(c.kind, NotBefore[r], s, u)
  BY <1>4 DEF Domain!Accepts
<1>6. u.state_version = s.state_version + 1
  BY <1>5 DEF Domain!Relation
<1>7. c.expected_version = s.state_version
  BY <1>3 DEF VersionMatches
<1>8. runs' = [runs EXCEPT ![r].life = u] /\ history' = history \cup {AppliedRow(r, c)}
  BY DEF ApplyTransition
<1>9. AppliedRow(r, c) \in HistoryRow /\ AppliedRow(r, c).after = u
  BY <1>2, <1>4, <1>7 DEF AppliedRow, HistoryRow, SqlCommand, Domain!Lifecycle
<1>10. QED
  BY <1>1, <1>2, <1>4, <1>5, <1>6, <1>7, <1>8, <1>9

-----------------------------------------------------------------------------
(* Type correctness.                                                       *)

LEMMA ReadyLifeOK == Domain!ReadyLife \in Domain!Lifecycle /\ Domain!Shape(Domain!ReadyLife)
  BY DEF Domain!ReadyLife, Domain!Lifecycle, Domain!Opt, Domain!States, Domain!Shape

LEMMA InitializeTypeOK ==
  ASSUME TypeOK, NEW a \in Admissions, InitializeRun(a)
  PROVE  TypeOK'
<1> DEFINE r == RunOf[a]
           row == [ run |-> r, kind |-> "initialize", before_version |-> NULL,
                    transition_at |-> NULL, after |-> Domain!ReadyLife ]
           new == [admission |-> a, life |-> Domain!ReadyLife]
<1>1. CASE UNCHANGED vars
  BY <1>1 DEF TypeOK, Domain!TypeOK, vars
<1>2. CASE runs' = [runs EXCEPT ![r] = new] /\ history' = history \cup {row}
  <2>1. r \in Runs
    BY StoreAssumption DEF Domain!ConstantsOK
  <2>2. new \in Domain!Run
    BY ReadyLifeOK DEF Domain!Run
  <2>3. row \in HistoryRow
    BY <2>1, ReadyLifeOK DEF HistoryRow, Domain!Opt
  <2>4. \A q \in Runs : runs'[q] = IF q = r THEN new ELSE runs[q]
    BY <1>2, <2>1 DEF TypeOK, Domain!TypeOK
  <2>5. runs' \in [Runs -> Domain!Opt(Domain!Run)]
    BY <1>2, <2>2 DEF TypeOK, Domain!TypeOK, Domain!Opt
  <2>6. Domain!TypeOK'
    BY <2>4, <2>5, ReadyLifeOK DEF TypeOK, Domain!TypeOK
  <2>7. QED
    BY <1>2, <2>3, <2>6, ReadyLifeOK DEF TypeOK
<1>3. QED
  BY <1>1, <1>2 DEF InitializeRun

LEMMA ApplyTypeOK ==
  ASSUME TypeOK, NEW r \in Runs, NEW c \in SqlCommand,
         Applies(r, c), ApplyTransition(r, c)
  PROVE  TypeOK'
<1> DEFINE u == Updated(runs[r].life, c)
<1>1. /\ runs[r] \in Domain!Run /\ RunOf[runs[r].admission] = r
      /\ u \in Domain!Lifecycle /\ Domain!Shape(u)
      /\ runs' = [runs EXCEPT ![r].life = u]
      /\ history' = history \cup {AppliedRow(r, c)}
      /\ AppliedRow(r, c) \in HistoryRow /\ AppliedRow(r, c).after = u
  BY AppliedStep
<1> HIDE DEF u
<1>2. [runs[r] EXCEPT !.life = u] \in Domain!Run
  BY <1>1 DEF Domain!Run
<1>3. \A q \in Runs : runs'[q] = IF q = r THEN [runs[r] EXCEPT !.life = u] ELSE runs[q]
  BY <1>1 DEF TypeOK, Domain!TypeOK
<1>4. runs' \in [Runs -> Domain!Opt(Domain!Run)]
  BY <1>1, <1>2 DEF TypeOK, Domain!TypeOK, Domain!Opt
<1>5. Domain!TypeOK'
  BY <1>1, <1>3, <1>4 DEF TypeOK, Domain!TypeOK, Domain!Run
<1>6. QED
  BY <1>1, <1>5 DEF TypeOK

LEMMA StoreInit == Init => TypeOK
  BY DEF Init, TypeOK, Domain!TypeOK, Domain!Opt

LEMMA StoreTypeStep ==
  ASSUME TypeOK, [Next]_vars
  PROVE  TypeOK'
<1>1. CASE UNCHANGED vars
  BY <1>1 DEF TypeOK, Domain!TypeOK, vars
<1>2. CASE Next
  BY <1>2, InitializeTypeOK, ApplyTypeOK DEF Next
<1>3. QED
  BY <1>1, <1>2

(* Every row of both tables stays well typed and well shaped, whatever the *)
(* RPCs are sent: the CHECK constraints of migration 024 never fire.       *)
THEOREM StoreTypeCorrect == Spec => []TypeOK
<1>1. Init => TypeOK
  BY StoreInit
<1>2. TypeOK /\ [Next]_vars => TypeOK'
  BY StoreTypeStep
<1>3. QED
  BY <1>1, <1>2, PTL DEF Spec

-----------------------------------------------------------------------------
(* The refinement: the run table changes only by lifecycle transitions.    *)

(* Whatever the RPCs are sent, the store implements the Python lifecycle,  *)
(* its admissions and its transitions being the only changes of a run.     *)
THEOREM StoreImplementsLifecycle == Spec => ImplementsLifecycle
<1>1. Init => Domain!Init
  BY DEF Init, Domain!Init
<1>2. TypeOK /\ [Next]_vars => [Domain!Next]_runs
  <2> SUFFICES ASSUME TypeOK, [Next]_vars PROVE [Domain!Next]_runs
    OBVIOUS
  <2>1. CASE UNCHANGED vars
    BY <2>1 DEF vars
  <2>2. ASSUME NEW a \in Admissions, InitializeRun(a) PROVE [Domain!Next]_runs
    BY <2>2 DEF InitializeRun, vars, Domain!Next, Domain!Initialize
  <2>3. ASSUME NEW r \in Runs, NEW c \in SqlCommand, Applies(r, c), ApplyTransition(r, c)
        PROVE  [Domain!Next]_runs
    <3>1. /\ Domain!Accepts(NotBefore[r], runs[r].life, c) /\ c \in Domain!Command
          /\ Updated(runs[r].life, c) = Domain!After(runs[r].life, c)
          /\ runs' = [runs EXCEPT ![r].life = Updated(runs[r].life, c)]
      BY <2>3, AppliedStep
    <3>2. runs[r] # NULL
      BY <2>3 DEF Applies
    <3>3. Domain!Transition(r, c)
      BY <3>1, <3>2 DEF Domain!Transition
    <3>4. QED
      BY <3>1, <3>3 DEF Domain!Next
  <2>4. QED
    BY <2>1, <2>2, <2>3 DEF Next
<1>3. QED
  BY <1>1, <1>2, StoreTypeCorrect, PTL DEF Spec, ImplementsLifecycle, Domain!Spec

-----------------------------------------------------------------------------
(* The history invariants.                                                 *)

(* The order of leases is transitive on claimed snapshots...               *)
LEMMA LeaseOrderTransitive ==
  ASSUME NEW s, NEW t, NEW u,
         s.lease_expires_at \in Int, t.lease_expires_at \in Int, u.lease_expires_at \in Int,
         t.claimed_at \in Int, u.claimed_at \in Int,
         t.claimed_at < t.lease_expires_at, LeaseOrder(s, t), LeaseOrder(t, u)
  PROVE  LeaseOrder(s, u)
  BY DEF LeaseOrder

(* ... and every transition of a claimed run respects it.                  *)
LEMMA ClaimedFields ==
  ASSUME NEW s \in Domain!Lifecycle, Domain!Shape(s), s.claim_key # NULL
  PROVE  /\ s.state # "ready" /\ s.claimed_at \in Int /\ s.lease_expires_at \in Int
         /\ s.claimed_at < s.lease_expires_at
<1>1. s.state # "ready" /\ Domain!HasClaim(s)
  BY DEF Domain!Shape, Domain!Terminal
<1>2. QED
  BY <1>1, StoreAssumption DEF Domain!HasClaim, Domain!Lifecycle, Domain!Opt, Domain!ConstantsOK

LEMMA RelationOrdersLeases ==
  ASSUME NEW s \in Domain!Lifecycle, Domain!Shape(s), s.claim_key # NULL,
         NEW u \in Domain!Lifecycle, Domain!Shape(u),
         NEW kind, NEW nb, Domain!Relation(kind, nb, s, u)
  PROVE  u.claim_key # NULL /\ LeaseOrder(s, u)
<1>1. u.claim_key # NULL
  BY ClaimedFields DEF Domain!Relation, Domain!Shape, Domain!HasClaim, Domain!Terminal
<1>2. /\ s.state # "ready" /\ s.lease_expires_at \in Int
      /\ u.claimed_at \in Int /\ u.lease_expires_at \in Int
  BY <1>1, ClaimedFields
<1>3. QED
  BY <1>1, <1>2 DEF Domain!Relation, LeaseOrder

HistoryInv == TypeOK /\ HistoryMatchesRun /\ HistoryReplays /\ LeasesDisjoint

(* The rows of a run that has a row: one per version, the last one current. *)
LEMMA CurrentRow ==
  ASSUME TypeOK, HistoryMatchesRun, NEW r \in Runs, runs[r] # NULL
  PROVE  \E g \in RowsOf(r) : g.after = runs[r].life
<1>1. runs[r].life \in Domain!Lifecycle /\ Domain!Shape(runs[r].life)
  BY DEF TypeOK, Domain!TypeOK, Domain!Opt, Domain!Run
<1>2. runs[r].life.state_version \in 1 .. runs[r].life.state_version
  BY <1>1 DEF Domain!Lifecycle, Domain!Shape
<1>3. QED
  BY <1>2 DEF HistoryMatchesRun

(* A first row: the run had none, so it is alone in the run's history.     *)
LEMMA InitializeHistory ==
  ASSUME HistoryInv, NEW a \in Admissions, InitializeRun(a)
  PROVE  HistoryMatchesRun' /\ HistoryReplays' /\ LeasesDisjoint'
<1> DEFINE r == RunOf[a]
           row == [ run |-> r, kind |-> "initialize", before_version |-> NULL,
                    transition_at |-> NULL, after |-> Domain!ReadyLife ]
           new == [admission |-> a, life |-> Domain!ReadyLife]
<1>1. CASE UNCHANGED vars
  BY <1>1 DEF HistoryInv, HistoryMatchesRun, HistoryReplays, LeasesDisjoint, RowsOf, vars
<1>2. CASE runs[r] = NULL /\ runs' = [runs EXCEPT ![r] = new] /\ history' = history \cup {row}
  <2>1. r \in Runs /\ RowsOf(r) = {}
    BY <1>2, StoreAssumption DEF HistoryInv, HistoryMatchesRun, Domain!ConstantsOK
  <2>2. \A q \in Runs : runs'[q] = IF q = r THEN new ELSE runs[q]
    BY <1>2, <2>1 DEF HistoryInv, TypeOK, Domain!TypeOK
  <2>3. new # NULL
    <3>1. new \in Domain!Run
      BY ReadyLifeOK DEF Domain!Run
    <3>2. QED
      BY <3>1, StoreAssumption DEF Domain!ConstantsOK
  <2>4. \A q \in Runs : RowsOf(q)' = IF q = r THEN {row} ELSE RowsOf(q)
    BY <1>2, <2>1 DEF RowsOf
  <2>5. Domain!ReadyLife.state_version = 1 /\ Domain!ReadyLife.claim_key = NULL
    BY DEF Domain!ReadyLife
  <2>6. HistoryMatchesRun'
    <3> SUFFICES ASSUME NEW q \in Runs
                 PROVE  IF runs'[q] = NULL THEN RowsOf(q)' = {}
                        ELSE /\ \A h, g \in RowsOf(q)' :
                                  h.after.state_version = g.after.state_version => h = g
                             /\ \A v \in 1 .. runs'[q].life.state_version :
                                  \E h \in RowsOf(q)' : h.after.state_version = v
                             /\ \A h \in RowsOf(q)' :
                                  /\ h.after.state_version <= runs'[q].life.state_version
                                  /\ h.after.state_version = runs'[q].life.state_version
                                       => h.after = runs'[q].life
      BY DEF HistoryMatchesRun
    <3>1. CASE q = r
      <4>1. runs'[q] # NULL /\ RowsOf(q)' = {row} /\ runs'[q].life = row.after
        BY <3>1, <2>1, <2>2, <2>3, <2>4
      <4>2. row.after.state_version = 1
        BY <2>5
      <4> HIDE DEF row, new
      <4>3. \A v \in 1 .. 1 : v = 1
        OBVIOUS
      <4>4. QED
        BY <4>1, <4>2, <4>3
    <3>2. CASE q # r
      BY <3>2, <2>2, <2>4 DEF HistoryInv, HistoryMatchesRun
    <3>3. QED
      BY <3>1, <3>2
  <2>7. HistoryReplays'
    BY <1>2 DEF HistoryInv, HistoryReplays, RowsOf
  <2>8. LeasesDisjoint'
    BY <1>2, <2>1, <2>5 DEF HistoryInv, LeasesDisjoint, RowsOf
  <2>9. QED
    BY <2>6, <2>7, <2>8
<1>3. QED
  BY <1>1, <1>2 DEF InitializeRun

(* An applied transition appends one version: the new row follows the      *)
(* current one, hence, by transitivity, every row before it.               *)
LEMMA ApplyHistory ==
  ASSUME HistoryInv, NEW r \in Runs, NEW c \in SqlCommand,
         Applies(r, c), ApplyTransition(r, c)
  PROVE  HistoryMatchesRun' /\ HistoryReplays' /\ LeasesDisjoint'
<1> DEFINE s == runs[r].life
           u == Updated(s, c)
           row == AppliedRow(r, c)
<1>1. /\ runs[r] \in Domain!Run
      /\ s \in Domain!Lifecycle /\ Domain!Shape(s)
      /\ u \in Domain!Lifecycle /\ Domain!Shape(u)
      /\ Domain!Relation(c.kind, NotBefore[r], s, u)
      /\ u.state_version = s.state_version + 1
      /\ runs' = [runs EXCEPT ![r].life = u]
      /\ history' = history \cup {row}
      /\ row.after = u
  BY AppliedStep DEF HistoryInv
<1>2. /\ row.run = r /\ row.kind = c.kind /\ c.kind # "initialize"
      /\ row.before_version = s.state_version
  BY AppliedStep DEF HistoryInv, AppliedRow, SqlCommand, Domain!Kinds, Domain!LeaseKinds
<1>3. runs[r] # NULL /\ s.state_version \in Nat /\ s.state_version >= 1
  BY <1>1 DEF Applies, Domain!Lifecycle, Domain!Shape
<1>4. PICK g \in RowsOf(r) : g.after = s
  BY <1>3, CurrentRow DEF HistoryInv
<1>5. \A h \in history : h.after \in Domain!Lifecycle /\ Domain!Shape(h.after)
  BY DEF HistoryInv, TypeOK, HistoryRow
<1>6. \A h \in RowsOf(r) :
        /\ h.after.state_version \in Nat
        /\ h.after.state_version <= s.state_version
        /\ h.after.state_version = s.state_version => h.after = s
  BY <1>3, <1>5 DEF HistoryInv, HistoryMatchesRun, RowsOf, Domain!Lifecycle
<1>7. \A q \in Runs : RowsOf(q)' = IF q = r THEN RowsOf(q) \cup {row} ELSE RowsOf(q)
  BY <1>1, <1>2 DEF RowsOf
<1>8. /\ runs'[r] # NULL /\ runs'[r].life = u
      /\ \A q \in Runs : q # r => runs'[q] = runs[q]
  <2>1. [runs[r] EXCEPT !.life = u] \in Domain!Run
    BY <1>1 DEF Domain!Run
  <2>2. \A q \in Runs : runs'[q] = IF q = r THEN [runs[r] EXCEPT !.life = u] ELSE runs[q]
    BY <1>1 DEF HistoryInv, TypeOK, Domain!TypeOK
  <2>3. QED
    BY <1>1, <2>1, <2>2, StoreAssumption DEF Domain!ConstantsOK, Domain!Run
<1> HIDE DEF s, u, row
<1>9. HistoryMatchesRun'
  <2> SUFFICES ASSUME NEW q \in Runs
               PROVE  IF runs'[q] = NULL THEN RowsOf(q)' = {}
                      ELSE /\ \A h, k \in RowsOf(q)' :
                                h.after.state_version = k.after.state_version => h = k
                           /\ \A v \in 1 .. runs'[q].life.state_version :
                                \E h \in RowsOf(q)' : h.after.state_version = v
                           /\ \A h \in RowsOf(q)' :
                                /\ h.after.state_version <= runs'[q].life.state_version
                                /\ h.after.state_version = runs'[q].life.state_version
                                     => h.after = runs'[q].life
    BY DEF HistoryMatchesRun
  <2>1. CASE q = r
    <3>1. \A h, k \in RowsOf(r) \cup {row} :
            h.after.state_version = k.after.state_version => h = k
      BY <1>1, <1>3, <1>6 DEF HistoryInv, HistoryMatchesRun, s
    <3>2. ASSUME NEW v \in 1 .. u.state_version
          PROVE  \E h \in RowsOf(r) \cup {row} : h.after.state_version = v
      <4>1. v \in 1 .. s.state_version \/ v = row.after.state_version
        BY <1>1, <1>3
      <4>2. QED
        BY <4>1, <1>3 DEF HistoryInv, HistoryMatchesRun, s
    <3>3. \A h \in RowsOf(r) \cup {row} :
            /\ h.after.state_version <= u.state_version
            /\ h.after.state_version = u.state_version => h.after = u
      BY <1>1, <1>3, <1>6
    <3>4. QED
      BY <2>1, <3>1, <3>2, <3>3, <1>7, <1>8
  <2>2. CASE q # r
    BY <2>2, <1>7, <1>8 DEF HistoryInv, HistoryMatchesRun
  <2>3. QED
    BY <2>1, <2>2
<1>10. HistoryReplays'
  <2>1. \A h \in history : h.run \in Runs
    BY DEF HistoryInv, TypeOK, HistoryRow
  <2>2. \A h \in history : RowsOf(h.run) \subseteq RowsOf(h.run)'
    BY <1>7, <2>1
  <2>3. \E k \in RowsOf(r)' :
          /\ k.after.state_version = row.before_version
          /\ Domain!Relation(row.kind, NotBefore[row.run], k.after, row.after)
    BY <1>1, <1>2, <1>4, <1>7
  <2>4. QED
    BY <1>1, <1>2, <2>2, <2>3 DEF HistoryInv, HistoryReplays
<1>11. LeasesDisjoint'
  <2>1. ASSUME NEW h \in RowsOf(r), h.after.claim_key # NULL
        PROVE  LeaseOrder(h.after, u)
    <3>1. h \in history /\ h.run = r /\ g \in history /\ g.run = r
      BY DEF RowsOf
    <3>2. CASE h.after = s
      BY <2>1, <3>2, <1>1, RelationOrdersLeases
    <3>3. CASE h.after.state_version < s.state_version
      <4>1. LeaseOrder(h.after, s)
        BY <2>1, <3>1, <3>3, <1>4 DEF HistoryInv, LeasesDisjoint
      <4>2. s.claim_key # NULL
        <5>1. h.after.state_version >= 1
          BY <1>5, <3>1, VersionPositive
        <5>2. s.state_version # 1
          BY <1>3, <1>6, <5>1, <3>3
        <5>3. QED
          BY <1>1, <5>2 DEF Domain!Shape, Domain!HasClaim
      <4>3. u.claim_key # NULL /\ LeaseOrder(s, u)
        BY <4>2, <1>1, RelationOrdersLeases
      <4>4. /\ h.after.lease_expires_at \in Int
            /\ s.claimed_at \in Int /\ s.lease_expires_at \in Int
            /\ s.claimed_at < s.lease_expires_at
            /\ u.claimed_at \in Int /\ u.lease_expires_at \in Int
        BY <1>1, <1>5, <2>1, <3>1, <4>2, <4>3, ClaimedFields
      <4>5. QED
        BY <4>1, <4>3, <4>4, LeaseOrderTransitive
    <3>4. QED
      BY <3>2, <3>3, <1>3, <1>6
  <2>2. \A h \in RowsOf(r) : ~ (row.after.state_version < h.after.state_version)
    BY <1>1, <1>3, <1>6
  <2>3. ~ (row.after.state_version < row.after.state_version)
    BY <1>1, <1>3
  <2>4. QED
    BY <1>1, <1>2, <2>1, <2>2, <2>3 DEF HistoryInv, LeasesDisjoint, RowsOf
<1>12. QED
  BY <1>9, <1>10, <1>11

(* The history is a complete and replayable record of each run, and no two *)
(* claims of a run ever hold overlapping leases.                           *)
THEOREM StoreHistoryCorrect == Spec => [](HistoryMatchesRun /\ HistoryReplays /\ LeasesDisjoint)
<1>1. Init => HistoryInv
  BY DEF Init, HistoryInv, TypeOK, Domain!TypeOK, Domain!Opt, HistoryMatchesRun,
     HistoryReplays, LeasesDisjoint, RowsOf
<1>2. HistoryInv /\ [Next]_vars => HistoryInv'
  <2> SUFFICES ASSUME HistoryInv, [Next]_vars PROVE HistoryInv'
    OBVIOUS
  <2>1. CASE UNCHANGED vars
    BY <2>1 DEF HistoryInv, TypeOK, Domain!TypeOK, HistoryMatchesRun, HistoryReplays,
       LeasesDisjoint, RowsOf, vars
  <2>2. CASE Next
    BY <2>2, InitializeTypeOK, ApplyTypeOK, InitializeHistory, ApplyHistory DEF Next, HistoryInv
  <2>3. QED
    BY <2>1, <2>2
<1>3. HistoryInv => HistoryMatchesRun /\ HistoryReplays /\ LeasesDisjoint
  BY DEF HistoryInv
<1>4. QED
  BY <1>1, <1>2, <1>3, PTL DEF Spec
=============================================================================
