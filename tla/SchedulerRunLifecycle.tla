------------------------ MODULE SchedulerRunLifecycle ------------------------
(***************************************************************************)
(* The run lifecycle of backend/engine/private/scheduler_run_lifecycle.py: *)
(* what the pure Python domain lets happen to an admitted scheduler run.   *)
(*                                                                         *)
(* It is the abstract specification of the scheduler: each step applies    *)
(* one domain transition atomically to one run.  SchedulerRunStore (the    *)
(* SQL functions of migration 024) is shown to implement it.               *)
(*                                                                         *)
(* An instant is an integer (the code compares canonical UTC datetimes);   *)
(* claim keys and failure codes are opaque values; NULL is Python's None.  *)
(***************************************************************************)
EXTENDS Integers

CONSTANTS
  Runs,          \* run identities (run_idempotency_sha256)
  Admissions,    \* admissions: a trigger together with its provenance
  RunOf,         \* the run an admission admits: the hash of its trigger
  NotBefore,     \* the not-before instant of a run, part of its trigger
  Instants,      \* the instants callers and clocks produce
  ClaimKeys,     \* claim keys callers choose
  FailureCodes,  \* failure codes of the failure-code grammar
  Versions,      \* expected_version values a caller may send
  NULL           \* None / SQL NULL

VARIABLE runs    \* for each run, NULL or its admission and its lifecycle snapshot

-----------------------------------------------------------------------------

States == {"ready", "claimed", "succeeded", "failed"}
Terminal == {"succeeded", "failed"}
LeaseKinds == {"claim", "renew_claim", "take_over_expired_claim"}
Kinds == LeaseKinds \cup {"succeed", "fail"}

Opt(S) == S \cup {NULL}

(* The stored fields of a snapshot, the admission kept apart.              *)
Lifecycle ==
  [ state : States, state_version : Nat, claim_key : Opt(ClaimKeys),
    claimed_at : Opt(Instants), lease_expires_at : Opt(Instants),
    terminal_at : Opt(Instants), failure_code : Opt(FailureCodes) ]

Run == [ admission : Admissions, life : Lifecycle ]

(* The arguments of one transition call, NULL where the function takes     *)
(* none: a lease for three kinds, a failure code for "fail".               *)
LeaseCommand ==
  [ kind : LeaseKinds, expected_version : Versions, claim_key : ClaimKeys,
    transition_at : Instants, lease_expires_at : Instants, failure_code : {NULL} ]

FinishCommand ==
  [ kind : {"succeed"}, expected_version : Versions, claim_key : ClaimKeys,
    transition_at : Instants, lease_expires_at : {NULL}, failure_code : {NULL} ]
  \cup
  [ kind : {"fail"}, expected_version : Versions, claim_key : ClaimKeys,
    transition_at : Instants, lease_expires_at : {NULL}, failure_code : FailureCodes ]

Command == LeaseCommand \cup FinishCommand

(* What an instance of this module assumes of its constants.               *)
ConstantsOK ==
  /\ RunOf \in [Admissions -> Runs]
  /\ NotBefore \in [Runs -> Instants]
  /\ Instants \subseteq Int
  /\ Versions \subseteq Nat
  /\ NULL \notin Nat \cup Instants \cup ClaimKeys \cup FailureCodes
  /\ NULL \notin Run \cup Command

(* The shapes the snapshot constructor accepts.                            *)
HasClaim(s) ==
  /\ s.claim_key # NULL /\ s.claimed_at # NULL /\ s.lease_expires_at # NULL
  /\ s.claimed_at < s.lease_expires_at

Shape(s) ==
  \/ /\ s.state = "ready" /\ s.state_version = 1
     /\ s.claim_key = NULL /\ s.claimed_at = NULL /\ s.lease_expires_at = NULL
     /\ s.terminal_at = NULL /\ s.failure_code = NULL
  \/ /\ s.state = "claimed" /\ s.state_version >= 2 /\ HasClaim(s)
     /\ s.terminal_at = NULL /\ s.failure_code = NULL
  \/ /\ s.state \in Terminal /\ s.state_version >= 3 /\ HasClaim(s)
     /\ s.terminal_at # NULL
     /\ s.claimed_at <= s.terminal_at /\ s.terminal_at < s.lease_expires_at
     /\ s.state = "failed" <=> s.failure_code # NULL

(* The relation the transition record demands between two snapshots.       *)
Relation(kind, nb, s, t) ==
  /\ t.state_version = s.state_version + 1
  /\ \/ /\ kind = "claim" /\ s.state = "ready" /\ t.state = "claimed"
        /\ t.claimed_at >= nb
     \/ /\ kind = "renew_claim" /\ s.state = "claimed" /\ t.state = "claimed"
        /\ t.claim_key = s.claim_key /\ t.claimed_at = s.claimed_at
        /\ t.lease_expires_at > s.lease_expires_at
     \/ /\ kind = "take_over_expired_claim" /\ s.state = "claimed" /\ t.state = "claimed"
        /\ t.claim_key # s.claim_key /\ t.claimed_at >= s.lease_expires_at
     \/ /\ kind \in {"succeed", "fail"} /\ s.state = "claimed"
        /\ t.state = IF kind = "succeed" THEN "succeeded" ELSE "failed"
        /\ t.claim_key = s.claim_key /\ t.claimed_at = s.claimed_at
        /\ t.lease_expires_at = s.lease_expires_at

ReadyLife ==
  [ state |-> "ready", state_version |-> 1, claim_key |-> NULL, claimed_at |-> NULL,
    lease_expires_at |-> NULL, terminal_at |-> NULL, failure_code |-> NULL ]

(* The snapshot each transition function builds (_next and its callers).   *)
Claimed(s, c) ==
  [ state |-> "claimed", state_version |-> s.state_version + 1, claim_key |-> c.claim_key,
    claimed_at |-> c.transition_at, lease_expires_at |-> c.lease_expires_at,
    terminal_at |-> NULL, failure_code |-> NULL ]

Renewed(s, c) ==
  [ s EXCEPT !.state_version = @ + 1, !.lease_expires_at = c.lease_expires_at ]

Finished(s, c) ==
  [ s EXCEPT !.state = IF c.kind = "succeed" THEN "succeeded" ELSE "failed",
             !.state_version = @ + 1, !.terminal_at = c.transition_at,
             !.failure_code = c.failure_code ]

After(s, c) ==
  IF c.kind \in {"claim", "take_over_expired_claim"} THEN Claimed(s, c)
  ELSE IF c.kind = "renew_claim" THEN Renewed(s, c) ELSE Finished(s, c)

LeaseActive(s, at) == s.claimed_at <= at /\ at < s.lease_expires_at

(* The checks each transition function makes before it builds a snapshot.  *)
Preconditions(s, c) ==
  /\ c.expected_version = s.state_version
  /\ s.state = IF c.kind = "claim" THEN "ready" ELSE "claimed"
  /\ c.kind = "renew_claim" =>
       /\ c.claim_key = s.claim_key /\ LeaseActive(s, c.transition_at)
       /\ c.lease_expires_at > s.lease_expires_at
  /\ c.kind = "take_over_expired_claim" =>
       c.claim_key # s.claim_key /\ c.transition_at >= s.lease_expires_at
  /\ c.kind \in {"succeed", "fail"} =>
       c.claim_key = s.claim_key /\ LeaseActive(s, c.transition_at)

(* A call returns a transition (it raises in every other case).            *)
Accepts(nb, s, c) ==
  /\ Preconditions(s, c)
  /\ Shape(After(s, c))
  /\ Relation(c.kind, nb, s, After(s, c))

-----------------------------------------------------------------------------

Init == runs = [r \in Runs |-> NULL]

Initialize(a) ==
  /\ runs[RunOf[a]] = NULL
  /\ runs' = [runs EXCEPT ![RunOf[a]] = [admission |-> a, life |-> ReadyLife]]

Transition(r, c) ==
  /\ runs[r] # NULL
  /\ Accepts(NotBefore[r], runs[r].life, c)
  /\ runs' = [runs EXCEPT ![r].life = After(@, c)]

Next ==
  \/ \E a \in Admissions : Initialize(a)
  \/ \E r \in Runs, c \in Command : Transition(r, c)

Spec == Init /\ [][Next]_runs

-----------------------------------------------------------------------------

(* Type correctness: every stored run is a well-shaped snapshot admitted   *)
(* under its own hash.                                                     *)
TypeOK ==
  /\ runs \in [Runs -> Opt(Run)]
  /\ \A r \in Runs : runs[r] # NULL =>
       RunOf[runs[r].admission] = r /\ Shape(runs[r].life)

=============================================================================
