----------------------------- MODULE MCProgress -----------------------------
(* What must eventually happen, under the fairness each component states;  *)
(* a behaviour follows one of four parts:                                  *)
(*   "session"       the private view of an owner whose access is revoked; *)
(*   "imports"       importers of overlapping files at the claims' locks;  *)
(*   "attributions"  workers at the row locks of fees and allocations;     *)
(*   "breaker"       threads that share the fields of a circuit breaker.   *)
(* A component is at rest in the parts of the others.                      *)
EXTENDS PrivateSession, Sequences, TLC

CONSTANTS i1, a1, a2, c1, c2, w1, w2, fee, buy, other, t1, t2

VARIABLES
  part,
  transactions, bindings, importPc, batch, next, rows, importStatus,
  importResult, importCall, importCalls,                \* of ImportCommit
  clock, booked, reversed, events, workPc, command, stamp, active, want,
  held, open, answer, answers, calls,                   \* of FeeTaxAttribution
  state, failures, elapsed, threadPc, making, seen           \* of CircuitBreaker

importVars == <<transactions, bindings, importPc, batch, next, rows, importStatus,
                importResult, importCall, importCalls>>
workVars == <<clock, booked, reversed, events, workPc, command, stamp, active, want,
              held, open, answer, answers, calls>>
breakerVars == <<state, failures, elapsed, threadPc, making, seen>>
allVars == <<part, vars, importVars, workVars, breakerVars>>

Record(claim) == [claim |-> claim, account |-> "known", plan |-> 1, economics |-> 1]

Imports == INSTANCE ImportCommit WITH
  Clients <- {c1, c2}, Accounts <- {"known"}, MaxCalls <- 3,
  Batches <- {{Record(1), Record(2)}, {Record(2), Record(3)}, {Record(1)}},
  pc <- importPc, status <- importStatus, result <- importResult,
  call <- importCall, calls <- importCalls

(* A fee of 2 and the purchase it is allocated to; its allocation and the  *)
(* purchase may be reversed.                                               *)
Work == INSTANCE FeeTaxAttribution WITH
  Workers <- {w1, w2}, Charges <- {fee}, Targets <- {buy, other},
  Cash <- (fee :> 2), AccountOf <- (fee :> 1) @@ (buy :> 1) @@ (other :> 2),
  MaxTime <- 2, Never <- 3, Booked <- {fee, buy, other}, MaxCalls <- 3,
  Commands <- {[id |-> "a", kind |-> "allocate", charge |-> fee, target |-> buy, amount |-> 2],
               [id |-> "r", kind |-> "reverse", reverses |-> "a"],
               [id |-> "undo", kind |-> "undo", tx |-> buy]},
  pc <- workPc, seen <- active, result <- answer

Breaker == INSTANCE CircuitBreaker WITH
  Threads <- {t1, t2}, Threshold <- 2, MaxFailures <- 3, pc <- threadPc

-----------------------------------------------------------------------------
ProgressInit ==
  /\ Imports!Init /\ Work!Init /\ Breaker!Init /\ Init
  /\ part \in {"session", "imports", "attributions", "breaker"}
  /\ part # "session" => session = NULL /\ owners = {} /\ api = TRUE

ProgressNext ==
  \/ part = "session" /\ Next /\ UNCHANGED <<part, importVars, workVars, breakerVars>>
  \/ part = "imports" /\ Imports!Next /\ UNCHANGED <<part, vars, workVars, breakerVars>>
  \/ part = "attributions" /\ Work!Next /\ UNCHANGED <<part, vars, importVars, breakerVars>>
  \/ part = "breaker" /\ Breaker!Next /\ UNCHANGED <<part, vars, importVars, workVars>>

(* Each component's own fairness, which its part takes over: the answers   *)
(* of the server and the page's clock; PostgreSQL's scheduler runs every   *)
(* session that is not blocked; threads run and the timeout elapses.       *)
FairProgress ==
  /\ ProgressInit /\ [][ProgressNext]_allVars
  /\ Fairness
  /\ \A c \in {c1, c2} : WF_importVars(part = "imports" /\ Imports!Step(c))
  /\ \A w \in {w1, w2} : WF_workVars(part = "attributions" /\ Work!Work(w))
  /\ WF_breakerVars(part = "breaker" /\ Breaker!Elapse)
  /\ \A t \in {t1, t2} : WF_breakerVars(part = "breaker" /\ Breaker!Works(t))

-----------------------------------------------------------------------------
(* Calls that lock rows in the database all end: no importer and no worker *)
(* waits for ever, in whatever order their files and commands name rows    *)
(* (017_portfolio_import_atomic_batch_commit.sql:24,                       *)
(* 021_fee_tax_attribution_cross_stream_pit_hardening.sql, the trigger).   *)
LockersAreAnswered ==
  /\ part = "imports" => Imports!EveryBatchIsAnswered
  /\ part = "attributions" => Work!EveryCallEnds

(* An open circuit is tested and closes again, even where two threads      *)
(* write its fields at once (utils/circuit_breaker.py:29-60).              *)
CircuitRecovers == part = "breaker" => Breaker!Recovers
=============================================================================
