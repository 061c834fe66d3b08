--------------------------- MODULE SchedulerRuntime ---------------------------
(***************************************************************************)
(* Processes driving scheduler runs over the store:                        *)
(*   - workers, which call PrivateSchedulerRuntime.execute_ready_run       *)
(*     (backend/engine/private/scheduler_runtime.py): claim, dispatch,     *)
(*     one terminal transition;                                            *)
(*   - operators, which call the methods of PrivateSchedulerRunRepository  *)
(*     (scheduler_run_repository.py) in any order the domain accepts.      *)
(* The repository predicts through the lifecycle domain, makes one RPC and *)
(* reconciles the answer with the durable history row.                     *)
(*                                                                         *)
(* An RPC in flight, its execution and its answer are separate steps.  A   *)
(* client may raise or crash in between: its request may then still be     *)
(* executed later, or never.  Clock readings are arbitrary instants, so    *)
(* clients' clocks may be skewed or run backwards.                         *)
(***************************************************************************)
EXTENDS SchedulerRunStore

CONSTANTS
  Workers,      \* callers of execute_ready_run
  Operators,    \* direct callers of the repository
  MaxOrphans    \* bound: abandoned requests that may still be executed

ASSUME RuntimeAssumption ==
  /\ Workers \cap Operators = {}
  /\ MaxOrphans \in Nat

VARIABLES
  pc,           \* where each client stands
  held,         \* the persisted run each client passes on (NULL: none)
  call,         \* the RPC each client waits for (NULL: none)
  answer,       \* its answer, once executed (NULL: none)
  outcome,      \* what the dispatcher reported to a worker (NULL: nothing)
  orphans,      \* requests in flight whose client has stopped waiting
  dispatches,   \* how often the work of each run was dispatched
  acknowledged  \* admissions initialize_run reported as present in the store

Clients == Workers \cup Operators
rtVars == <<runs, history, pc, held, call, answer, outcome, orphans, dispatches, acknowledged>>

PCs == {"idle", "holding", "waiting", "claimed", "worked", "returned", "inconsistent"}

(* A request: an initialization (no command) or a transition.              *)
Call == [admission : Admissions, command : Domain!Opt(Domain!Command)]

Run(k) == RunOf[k.admission]

(* What the server does with a request, and what it answers.               *)
Execute(k) ==
  IF k.command = NULL THEN InitializeRun(k.admission)
  ELSE ApplyTransition(Run(k), k.command)

Reply(k) ==
  IF k.command = NULL THEN InitializeAnswer(k.admission)
  ELSE ApplyAnswer(Run(k), k.command)

Goto(c, to) == pc' = [pc EXCEPT ![c] = to]

Forget(c) ==
  /\ call' = [call EXCEPT ![c] = NULL]
  /\ answer' = [answer EXCEPT ![c] = NULL]

(* The client forgets its invocation.                                      *)
Reset(c) ==
  /\ Goto(c, "idle")
  /\ held' = [held EXCEPT ![c] = NULL]
  /\ Forget(c)
  /\ outcome' = [outcome EXCEPT ![c] = NULL]

Send(c, a, command) ==
  /\ Goto(c, "waiting")
  /\ call' = [call EXCEPT ![c] = [admission |-> a, command |-> command]]
  /\ answer' = [answer EXCEPT ![c] = NULL]

(* Prediction: the repository sends only what the domain accepts on the    *)
(* lifecycle the client passes, with that lifecycle's own version.         *)
Predicts(c, command) ==
  Domain!Accepts(NotBefore[RunOf[held[c].admission]], held[c].life, command)

-----------------------------------------------------------------------------
(* Reading the rows of the store back into the domain                      *)
(* (scheduler_run_persistence_transport.py).  Its constructors re-check    *)
(* every row: a row the SQL functions may write and the reader refuses     *)
(* would make its run unreadable for good.                                 *)

(* The state each kind of transition leaves (_AFTER_STATE).                *)
AfterState ==
  [ initialize |-> "ready", claim |-> "claimed", renew_claim |-> "claimed",
    take_over_expired_claim |-> "claimed", succeed |-> "succeeded", fail |-> "failed" ]

(* The instant of a transition against the snapshot it left.               *)

DatedBySnapshot(h) ==
  CASE h.kind \in {"claim", "take_over_expired_claim"} ->
         h.transition_at = h.after.claimed_at
    [] h.kind = "renew_claim" -> LeaseCovers(h.after, h.transition_at)
    [] OTHER -> h.transition_at = h.after.terminal_at

(* PrivateSchedulerPersistedTransition.                                    *)
TransitionRowOk(h) ==
  /\ h.after.state = AfterState[h.kind]
  /\ IF h.kind = "initialize"
     THEN h.before_version = NULL /\ h.transition_at = NULL /\ h.after.state_version = 1
     ELSE /\ h.before_version # NULL /\ h.transition_at # NULL
          /\ h.after.state_version = h.before_version + 1
          /\ IF h.kind = "claim" THEN h.before_version = 1 ELSE h.before_version >= 2
          /\ DatedBySnapshot(h)

(* hydrate_private_scheduler_persisted_transition.                         *)
TransitionHydrates(h) == Domain!Shape(h.after) /\ TransitionRowOk(h)

(* hydrate_private_scheduler_persisted_run: the payload names the run.     *)
RunHydrates(r) ==
  runs[r] # NULL => Domain!Shape(runs[r].life) /\ RunOf[runs[r].admission] = r

-----------------------------------------------------------------------------
(* Client steps                                                            *)

(* initialize_run: the RPC is sent.                                        *)
CallInitialize(c, a) ==
  /\ pc[c] = "idle"
  /\ Send(c, a, NULL)
  /\ UNCHANGED <<runs, history, held, outcome, orphans, dispatches, acknowledged>>

(* get_run.  execute_ready_run turns back a run that is not READY before   *)
(* it does anything, so a worker keeps only a READY one.                   *)
GetRun(c, r) ==
  /\ pc[c] = "idle" /\ runs[r] # NULL
  /\ c \in Workers => runs[r].life.state = "ready"
  /\ held' = [held EXCEPT ![c] = runs[r]]
  /\ Goto(c, "holding")
  /\ UNCHANGED <<runs, history, call, answer, outcome, orphans, dispatches, acknowledged>>

(* What a worker sends: a claim, then the terminal transition its          *)
(* dispatcher's outcome calls for.                                         *)

\* mutant: a terminal transition before the dispatch
FinishUnworked(c, command) ==
  \/ pc[c] = "holding" /\ command.kind = "claim"
  \/ /\ pc[c] \in {"claimed", "worked"}
     /\ command.kind = IF outcome[c] = "succeeded" THEN "succeed" ELSE "fail"

\* mutant: the dispatcher's failure is dropped
SucceedAlways(c, command) ==
  \/ pc[c] = "holding" /\ command.kind = "claim"
  \/ pc[c] = "worked" /\ command.kind = "succeed"

WorkerSends(c, command) ==
  \/ pc[c] = "holding" /\ command.kind = "claim"
  \/ /\ pc[c] = "worked"
     /\ command.kind = IF outcome[c] = "succeeded" THEN "succeed" ELSE "fail"

(* One repository transition call; an operator may call any method.        *)
CallTransition(c, command) ==
  /\ IF c \in Workers THEN WorkerSends(c, command) ELSE pc[c] = "holding"
  /\ Predicts(c, command)
  /\ Send(c, held[c].admission, command)
  /\ UNCHANGED <<runs, history, held, outcome, orphans, dispatches, acknowledged>>

(* The exact-version history row equals the prediction.                    *)
\* mutant: reconciled with the current run, not with the history
ReconcilesWithRun(r, before, command) ==
  runs[r].life = Domain!After(before, command)

Reconciles(r, before, command) ==
  \E h \in RowsOf(r) :
    /\ h.kind = command.kind /\ h.before_version = before.state_version
    /\ h.transition_at = command.transition_at
    /\ h.after = Domain!After(before, command)

(* initialize_run returns: a conflict adopts nothing, otherwise the durable *)
(* INITIALIZE row is verified.                                             *)
ReturnInitialize(c) ==
  LET a == call[c].admission IN
  /\ pc[c] = "waiting" /\ answer[c] # NULL /\ call[c].command = NULL
  /\ IF answer[c].status = "conflict"
     THEN Reset(c) /\ UNCHANGED acknowledged
     ELSE IF /\ answer[c].status = "initialized" => answer[c].state_version = 1
             /\ \E h \in RowsOf(RunOf[a]) :
                  /\ h.kind = "initialize" /\ h.after = Domain!ReadyLife
                  /\ h.before_version = NULL /\ h.transition_at = NULL
     THEN Reset(c) /\ acknowledged' = acknowledged \cup {a}
     ELSE /\ Goto(c, "inconsistent")
          /\ UNCHANGED <<held, call, answer, outcome, acknowledged>>
  /\ UNCHANGED <<runs, history, orphans, dispatches>>

\* mutant: a conflict is not told from applied
TakenAsApplied(status) == status # "not_found"

Applied(status) == status = "applied"

(* Where an applied transition leads: an operator keeps the new snapshot,  *)
(* a worker's claim goes on to dispatch, its terminal transition returns.  *)

AfterApplied(c, command) ==
  IF c \notin Workers THEN "holding"
  ELSE IF command.kind = "claim" THEN "claimed" ELSE "returned"

(* The version a refusal names must tell the two kinds of conflict apart.  *)
CoherentRefusal(ans, command) ==
  \/ ans.status = "not_found"
  \/ ans.status = "transition_conflict" <=> ans.state_version = command.expected_version

(* A transition call returns: not applied ends the invocation, applied is  *)
(* reconciled with the history and adopted.                                *)
ReturnTransition(c) ==
  LET command == call[c].command
      after == Domain!After(held[c].life, command) IN
  /\ pc[c] = "waiting" /\ answer[c] # NULL /\ command # NULL
  /\ IF ~Applied(answer[c].status)
     THEN /\ Goto(c, IF CoherentRefusal(answer[c], command) THEN "returned" ELSE "inconsistent")
          /\ UNCHANGED held
     ELSE IF /\ answer[c].state = after.state
             /\ answer[c].state_version = after.state_version
             /\ Reconciles(Run(call[c]), held[c].life, command)
     THEN Goto(c, AfterApplied(c, command)) /\ held' = [held EXCEPT ![c].life = after]
     ELSE Goto(c, "inconsistent") /\ UNCHANGED held
  /\ IF pc'[c] \in {"claimed", "holding"} THEN Forget(c) ELSE UNCHANGED <<call, answer>>
  /\ UNCHANGED <<runs, history, outcome, orphans, dispatches, acknowledged>>

(* What is made of the dispatcher's result: an exception, a wrong result   *)
(* or a wrong identity is a failure with its own code.                     *)
\* mutant: an exception is not mapped to a failure
RaisingOutcomes == {"succeeded", "failed", "raised"}

Outcomes == {"succeeded", "failed"}

(* The dispatcher runs the work.                                           *)
Dispatch(c) ==
  /\ pc[c] = "claimed"
  /\ dispatches' = [dispatches EXCEPT ![RunOf[held[c].admission]] = @ + 1]
  /\ \E o \in Outcomes : outcome' = [outcome EXCEPT ![c] = o]
  /\ Goto(c, "worked")
  /\ UNCHANGED <<runs, history, held, call, answer, orphans, acknowledged>>

(* The result is handed to the caller.                                     *)
Return(c) ==
  /\ pc[c] = "returned"
  /\ Reset(c)
  /\ UNCHANGED <<runs, history, orphans, dispatches, acknowledged>>

(* The invocation ends with an exception or with its process: the domain   *)
(* rejects locally, the transport fails, the dispatcher exits.  A request  *)
(* not yet executed may remain in flight.                                  *)
Raise(c) ==
  /\ pc[c] \in {"holding", "waiting", "claimed", "worked"}
  /\ Reset(c)
  /\ orphans' = IF /\ pc[c] = "waiting" /\ answer[c] = NULL
                   /\ Cardinality(orphans) < MaxOrphans
                THEN orphans \cup {call[c]} ELSE orphans
  /\ UNCHANGED <<runs, history, dispatches, acknowledged>>

-----------------------------------------------------------------------------
(* Server steps                                                            *)

Serve(c) ==
  /\ pc[c] = "waiting" /\ answer[c] = NULL
  /\ Execute(call[c])
  /\ answer' = [answer EXCEPT ![c] = Reply(call[c])]
  /\ UNCHANGED <<pc, held, call, outcome, orphans, dispatches, acknowledged>>

ServeOrphan(k) ==
  /\ k \in orphans
  /\ Execute(k)
  /\ orphans' = orphans \ {k}
  /\ UNCHANGED <<pc, held, call, answer, outcome, dispatches, acknowledged>>

-----------------------------------------------------------------------------

RtInit ==
  /\ Init
  /\ pc = [c \in Clients |-> "idle"]
  /\ held = [c \in Clients |-> NULL]
  /\ call = [c \in Clients |-> NULL]
  /\ answer = [c \in Clients |-> NULL]
  /\ outcome = [c \in Clients |-> NULL]
  /\ orphans = {}
  /\ dispatches = [r \in Runs |-> 0]
  /\ acknowledged = {}

(* Who may be about to call a transition (a bound for TLC's enumeration).  *)
Busy == {c \in Clients : pc[c] \notin {"idle", "waiting"}}

RtNext ==
  \/ \E c \in Clients, a \in Admissions : CallInitialize(c, a)
  \/ \E c \in Clients, r \in Runs : GetRun(c, r)
  \/ \E c \in Busy : \E command \in Domain!Command : CallTransition(c, command)
  \/ \E c \in Clients :
       \/ ReturnInitialize(c) \/ ReturnTransition(c) \/ Dispatch(c)
       \/ Return(c) \/ Raise(c) \/ Serve(c)
  \/ \E k \in orphans : ServeOrphan(k)

RtSpec == RtInit /\ [][RtNext]_rtVars

-----------------------------------------------------------------------------
(* Properties                                                              *)

Replies ==
  [ status : {"initialized", "idempotent_duplicate", "conflict", "applied",
              "not_found", "version_conflict", "transition_conflict"},
    state : Domain!Opt(Domain!States), state_version : Nat \cup {NULL} ]

(* An answer is never None.                                                *)
ASSUME AnswerAssumption == NULL \notin Replies

(* Type correctness of the tables and of what the clients hold.            *)
RtTypeOK ==
  /\ TypeOK
  /\ pc \in [Clients -> PCs]
  /\ held \in [Clients -> Domain!Opt(Domain!Run)]
  /\ call \in [Clients -> Domain!Opt(Call)]
  /\ answer \in [Clients -> Domain!Opt(Replies)]
  /\ outcome \in [Clients -> Domain!Opt({"succeeded", "failed"})]
  /\ orphans \in SUBSET Call
  /\ dispatches \in [Runs -> Nat]
  /\ acknowledged \in SUBSET Admissions

(* The work of a run is dispatched at most once, ever: over all workers,   *)
(* lost answers, crashes, renewals and takeovers.  The code states it per  *)
(* invocation; it holds of the run since only a claim of READY dispatches. *)
AtMostOneDispatch == \A r \in Runs : dispatches[r] <= 1

(* The Python domain and the SQL guards agree: a call predicted on a       *)
(* persisted snapshot is applied or loses a version race, and is never     *)
(* answered transition_conflict or not_found.                              *)
DomainAndStoreAgree ==
  \A c \in Clients :
    answer[c] # NULL /\ call[c].command # NULL
      => answer[c].status \in {"applied", "version_conflict"}

(* Reconciling an answer never fails, though the run may have been changed *)
(* again, by others, between the RPC and the read of its history row.      *)
ReconciliationNeverFails == \A c \in Clients : pc[c] # "inconsistent"

(* No call of either SQL function, whatever its arguments, leaves a row    *)
(* the reader refuses.                                                     *)
EveryRowHydrates ==
  /\ \A r \in Runs : RunHydrates(r)
  /\ \A h \in history : TransitionHydrates(h)

(* The repository's prediction, the SQL guards, the history and the reader *)
(* of its rows never contradict each other: no answer, applied or refused, *)
(* raises a consistency error, and every row can be read back.             *)
StoreAndReaderAgree ==
  /\ DomainAndStoreAgree /\ ReconciliationNeverFails /\ EveryRowHydrates

(* A worker that reports SUCCEEDED or FAILED reports what the store holds, *)
(* for good, of work that was dispatched.                                  *)
ReportedOutcomeIsDurable ==
  \A c \in Workers :
    pc[c] = "returned" /\ answer[c].status = "applied"
      => /\ runs[RunOf[held[c].admission]] = held[c]
         /\ held[c].life.state = outcome[c]
         /\ dispatches[RunOf[held[c].admission]] = 1

(* The work of a worker whose terminal call conflicts was overtaken by     *)
(* somebody else's transition of its claim, which the history names.       *)
ConflictHasCause ==
  \A c \in Workers :
    pc[c] = "returned" /\ outcome[c] # NULL /\ answer[c].status # "applied"
      => \E h \in RowsOf(RunOf[held[c].admission]) :
           /\ h.before_version = held[c].life.state_version
           /\ h.kind # "claim"

(* Of several admissions of one run at most one is ever acknowledged, and  *)
(* it is the one the store keeps.                                          *)
InitializationAgreement ==
  \A a \in acknowledged :
    runs[RunOf[a]] # NULL /\ runs[RunOf[a]].admission = a

(* What a caller is told of a run is so for good: the outcome of the work, *)
(* the cause of a conflict, and which provenance the run was taken for.    *)
AnswersAreDurable ==
  ReportedOutcomeIsDurable /\ ConflictHasCause /\ InitializationAgreement

(* Where nobody but workers touches the store, a run is finished only      *)
(* after its work was dispatched, and no terminal call is ever refused.    *)
FinishedAfterDispatch ==
  /\ \A r \in Runs : runs[r] # NULL /\ runs[r].life.state \in Domain!Terminal
       => dispatches[r] = 1
  /\ \A c \in Workers : outcome[c] # NULL /\ answer[c] # NULL
       => answer[c].status = "applied"

(* Clients reach the store only through its RPCs.                          *)
ImplementsStore == Spec

=============================================================================
