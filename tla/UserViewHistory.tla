-------------------------- MODULE UserViewHistory ---------------------------
(* The owner's return views as an append-only history of revisions, read   *)
(* back at the knowledge cutoff of a replay point                          *)
(* (backtest_user_view_history.py, backtest_user_view_resolution.py,       *)
(* backtest_replay_point.py, backtest_replay_plan.py).                     *)
(* The histories themselves are kept outside the source: a reader is handed*)
(* some of the revisions together with a claim that they are all of them.  *)
EXTENDS Integers, Sequences, FiniteSets, TLC

CONSTANTS
  Views,        \* view_id
  Stances,      \* what a view says
  MaxClock,     \* bound on instants
  MaxRevisions, \* bound on revisions of a behaviour
  None

VARIABLES
  clock,
  history,      \* set of revisions: [view, revision, action, stance, at]
  held,         \* held[t][v]: the stance the owner had at the end of instant t
  reading       \* the last resolution, or None

vars == <<clock, history, held, reading>>

Instants == 1 .. MaxClock
Coverages == {"complete", "incomplete"}

\* PrivateBacktestUserViewRevision: a stance exactly when it is an upsert.
Revision(v, n, stance, at) ==
  [view |-> v, revision |-> n, stance |-> stance, at |-> at,
   action |-> IF stance = None THEN "withdraw" ELSE "upsert"]

Family(revisions, v) == {r \in revisions : r.view = v}
Newest(family) == CHOOSE r \in family : \A q \in family : q.revision <= r.revision

\* Known at the cutoff, the cutoff's own instant included.
Eligible(revisions, cutoff) == {r \in revisions : r.at <= cutoff}

\* A complete family starts at 1 with an upsert, has no gap, and its instants
\* follow its numbers.
Whole(family) ==
  /\ {r.revision : r \in family} = 1 .. Cardinality(family)
  /\ \A r \in family : r.revision = 1 => r.action = "upsert"
  /\ \A q, r \in family : q.revision < r.revision => q.at <= r.at

\* The terminal revision is the one with the highest number.
Terminal(family) == Newest(family)

\* Withdrawn views are terminal but not active.
Active(terminal, eligible) == {r \in terminal : r.action = "upsert"}

\* _derive.
Derived(eligible, coverage) ==
  LET families == {Family(eligible, v) : v \in {r.view : r \in eligible}}
      terminal == {Terminal(f) : f \in families}
  IN  IF coverage = "incomplete"
      THEN [status |-> "incomplete_coverage", terminal |-> {}, active |-> {}]
      ELSE IF \A f \in families : Whole(f)
           THEN [status |-> "resolved", terminal |-> terminal,
                 active |-> Active(terminal, eligible)]
           ELSE [status |-> "refused", terminal |-> {}, active |-> {}]

\* resolve_private_backtest_user_views.
Resolve(revisions, cutoff, coverage) ==
  LET eligible == Eligible(revisions, cutoff)
  IN  Derived(eligible, coverage) @@ [cutoff |-> cutoff, eligible |-> eligible]

\* PrivateBacktestReplayPoint; both modes read the same instants, since what
\* the owner thinks is the system's own knowledge.
Point(cutoff) == [cutoff |-> cutoff]

\* PrivateBacktestReplayPlan: one point or more, each later than the last.
PlanOk(plan) ==
  /\ Len(plan) > 0
  /\ \A i \in 2 .. Len(plan) : plan[i - 1].cutoff < plan[i].cutoff

Replay(plan, revisions, coverage) ==
  IF PlanOk(plan) THEN [i \in DOMAIN plan |-> Resolve(revisions, plan[i].cutoff, coverage)]
  ELSE <<>>

-----------------------------------------------------------------------------
Nothing == [v \in Views |-> None]

Init ==
  /\ clock = 1
  /\ history = {}
  /\ held = 1 :> Nothing
  /\ reading = None

Tick ==
  /\ clock < MaxClock
  /\ clock' = clock + 1
  /\ held' = held @@ ((clock + 1) :> held[clock])
  /\ reading' = None
  /\ UNCHANGED history

\* The owner states, restates or withdraws a view.
Revise ==
  \E v \in Views, stance \in Stances \cup {None} :
    LET family == Family(history, v)
    IN  /\ Cardinality(history) < MaxRevisions
        /\ family = {} => stance # None
        /\ history' = history \cup {Revision(v, Cardinality(family) + 1, stance, clock)}
        /\ held' = [held EXCEPT ![clock][v] = stance]
        /\ reading' = None
        /\ UNCHANGED clock

\* A reader walks a plan over the revisions it was handed: all of them, or
\* some of them with either claim.
Read ==
  \E given \in SUBSET history, coverage \in Coverages,
     plan \in {<<>>} \cup {<<Point(c)>> : c \in Instants}
              \cup {<<Point(c), Point(d)>> : c, d \in Instants} :
    /\ reading = None
    /\ plan # <<>> => plan[Len(plan)].cutoff <= clock
    /\ coverage = "incomplete" => given = history
    /\ reading' = [plan |-> plan, given |-> given, all |-> given = history,
                   results |-> Replay(plan, given, coverage)]
    /\ UNCHANGED <<clock, history, held>>

Next == Tick \/ Revise \/ Read

Spec == Init /\ [][Next]_vars

-----------------------------------------------------------------------------
TypeOK ==
  /\ clock \in Instants
  /\ DOMAIN held = 1 .. clock
  /\ \A r \in history : r.at <= clock /\ (r.stance = None) = (r.action = "withdraw")

Results == IF reading = None THEN {} ELSE {reading.results[i] : i \in DOMAIN reading.results}

Said(result) ==
  [v \in Views |->
     LET mine == Family(result.active, v)
     IN  IF mine = {} THEN None ELSE (CHOOSE r \in mine : TRUE).stance]

\* What a whole history resolves to at a cutoff is what the owner held at the
\* end of that instant, withdrawn and restated views included, whatever was
\* revised afterwards (backtest_user_view_resolution.py:78, :167).
ResolvesToWhatWasHeld ==
  reading # None /\ reading.all =>
    \A result \in Results :
      /\ result.status # "refused"
      /\ result.status = "resolved" => Said(result) = held[result.cutoff]

\* Revisions that were lost on the way never make up a view the owner did not
\* have: whatever a claim of completeness resolves to, each view stands as
\* it stood at some instant, or between two revisions of one, up to the
\* cutoff (the start, gap and order rules, resolution.py:91-102).
LossesInventNothing ==
  \A result \in Results :
    result.status = "resolved" =>
      \A r \in result.terminal :
        /\ r \in history /\ r.at <= result.cutoff
        /\ \A n \in 1 .. r.revision : \E q \in result.eligible : q.view = r.view /\ q.revision = n
        /\ r.stance # None => Said(result)[r.view] = r.stance
        /\ r.stance = None => Said(result)[r.view] = None

\* A replay walks forward: a view whose stance differs between two points of a
\* plan was revised between them (backtest_replay_plan.py:46).
ReplaysWalkForward ==
  reading # None =>
    \A i, j \in DOMAIN reading.results :
      i < j =>
        \A v \in Views :
          reading.results[i].status = "resolved" /\ reading.results[j].status = "resolved"
            /\ Said(reading.results[i])[v] # Said(reading.results[j])[v]
          => \E r \in history : /\ r.view = v /\ r.at > reading.results[i].cutoff
                                /\ r.at <= reading.results[j].cutoff

=============================================================================
