--------------------------- MODULE UniverseHistory ---------------------------
(***************************************************************************)
(* Candidate universes as of a point in time                               *)
(* (backend/engine/private/allocation_candidate_universe.py).              *)
(*                                                                         *)
(* A source announces lists of instruments, each in force from one date    *)
(* until another, and corrects them.  What the engine holds is a set of    *)
(* snapshots, each dated by its observation and, when the source says so,  *)
(* by its publication.  A query asks, for an evaluation date and with the  *)
(* knowledge of a cutoff, which instruments may be candidates; the answer  *)
(* is a function of the snapshots held when it is asked.                   *)
(*                                                                         *)
(* Dates and instants are numbers of the same clock.  An announcement is   *)
(* published about when it is made; `dated` says whether its publication   *)
(* time comes with it.                                                     *)
(***************************************************************************)
EXTENDS Integers, FiniteSets, FiniteSetsExt, Functions

CONSTANTS
  Announcements, \* [list, from, to, members, dated], what a source may announce
  Lists,         \* declared universes: source, key and asset class
  Dates,         \* evaluation dates
  NoDate,        \* the end of a list that is still in force
  None,          \* no publication time, or no snapshot
  MaxTime,       \* bound on the clock
  MaxAnnounced,  \* bound on the announcements made
  MaxSnapshots   \* bound on the snapshots held

VARIABLES
  now,           \* the clock
  announced,     \* the announcements made, with their publication times
  snapshots      \* the snapshots held

vars == <<now, announced, snapshots>>

Modes == {"SOURCE_AS_OF", "SYSTEM_AS_OF"}

SnapshotOk(s) ==
  /\ s.to # NoDate => s.from < s.to
  /\ s.published # None => s.published <= s.observed

Snapshot(a, time) ==
  [list |-> a.list, from |-> a.from, to |-> a.to, members |-> a.members,
   published |-> IF a.dated THEN a.published ELSE None, observed |-> time]

-----------------------------------------------------------------------------
(* _resolve.                                                               *)

Availability(s, mode) ==
  IF mode = "SOURCE_AS_OF" /\ s.published # None THEN s.published ELSE s.observed

Admissible(s, mode, cutoff) ==
  /\ Availability(s, mode) <= cutoff
  /\ s.published # None => s.published <= cutoff

InForce(s, date) == s.from <= date /\ (s.to = NoDate \/ date < s.to)

(* What two snapshots of one announcement share.                           *)
Economic(s) == [s EXCEPT !.observed = None]

MaxBy(S, f) == {s \in S : \A t \in S : f[t] <= f[s]}

\* mutant: the first that was known of a regime is kept
FrontierKept(S, mode) ==
  LET start == [s \in S |-> s.from]
      age == [s \in S |-> -Availability(s, mode)]
  IN  MaxBy(MaxBy(S, start), age)

Frontier(S, mode) ==
  LET start == [s \in S |-> s.from]
      availability == [s \in S |-> Availability(s, mode)]
  IN  MaxBy(MaxBy(S, start), availability)

Known(q, S) == {s \in S : InForce(s, q.date) /\ Admissible(s, q.mode, q.cutoff)}

Answer(status, selected) == [status |-> status, selected |-> selected]

Resolve(q, S) ==
  LET matching == {s \in S : s.list = q.list}
      frontier == Frontier(Known(q, matching), q.mode)
  IN  CASE matching = {} -> Answer("NO_SOURCE_SNAPSHOT", None)
        [] ~\E s \in matching : InForce(s, q.date) -> Answer("NO_EFFECTIVE_SNAPSHOT", None)
        [] Known(q, matching) = {} -> Answer("NO_SNAPSHOT_AS_OF", None)
        [] Cardinality({Economic(s) : s \in frontier}) # 1 -> Answer("FRONTIER_CONFLICT", None)
        [] OTHER -> Answer("SELECTED",
             CHOOSE s \in frontier : \A t \in frontier : s.observed <= t.observed)

Resolution(q) == Resolve(q, snapshots)

-----------------------------------------------------------------------------
(* The sources and the collection of snapshots.                            *)

Init ==
  /\ now = 0
  /\ announced = {}
  /\ snapshots = {}

Tick ==
  /\ now < MaxTime
  /\ now' = now + 1
  /\ UNCHANGED <<announced, snapshots>>

(* The time a source gives may be a little ahead of the clock.             *)
Announce(a, lead) ==
  /\ lead # 0 => a.dated
  /\ Cardinality(announced) < MaxAnnounced
  /\ a \notin {[b EXCEPT !.published = None] : b \in announced}
  /\ announced' = announced \cup {[a EXCEPT !.published = now + lead]}
  /\ UNCHANGED <<now, snapshots>>

(* A snapshot of an announcement, early or late, once or again.            *)
Observe(a) ==
  /\ Cardinality(snapshots) < MaxSnapshots
  /\ SnapshotOk(Snapshot(a, now))
  /\ snapshots' = snapshots \cup {Snapshot(a, now)}
  /\ UNCHANGED <<now, announced>>

Next ==
  \/ Tick
  \/ \E a \in Announcements, lead \in {0, 1} : Announce(a, lead)
  \/ \E a \in announced : Observe(a)

Spec == Init /\ [][Next]_vars

-----------------------------------------------------------------------------
(* Properties                                                              *)

Queries == [list : Lists, date : Dates, mode : Modes, cutoff : 0 .. now]

TypeOK ==
  /\ now \in 0 .. MaxTime
  /\ \A a \in announced : a.published \in 0 .. now + 1
  /\ \A s \in snapshots :
       s.observed \in 0 .. now /\ (s.published # None => s.published \in 0 .. s.observed)

(* What an announcement is worth for a query: the announcements of its     *)
(* list in force on the date, the latest regime first and within it the    *)
(* latest publication.                                                     *)
InForceBy(q) == {a \in announced : a.list = q.list /\ InForce(a, q.date) /\ a.published <= q.cutoff}
Truth(q) ==
  LET start == [a \in announced |-> a.from]
      time == [a \in announced |-> a.published]
  IN  MaxBy(MaxBy(InForceBy(q), start), time)

SnapshotOf(s, a) ==
  /\ s.list = a.list /\ s.from = a.from /\ s.to = a.to /\ s.members = a.members
  /\ s.published = (IF a.dated THEN a.published ELSE None)
Seen(a, by) == \E s \in snapshots : SnapshotOf(s, a) /\ s.observed <= by

(* What the source had said is found: if every announcement made by the    *)
(* cutoff carries its date and has been observed since, a SOURCE_AS_OF     *)
(* query answers with the one in force, and with a conflict only when two  *)
(* were published at once.                                                 *)
SourceTruthIsFound ==
  \A q \in Queries :
    /\ q.mode = "SOURCE_AS_OF"
    /\ \A a \in announced : a.list = q.list /\ a.published <= q.cutoff => a.dated /\ Seen(a, now)
    => LET truth == Truth(q)
           answer == Resolution(q)
       IN  IF truth = {} THEN answer.selected = None
           ELSE IF Cardinality(truth) = 1
           THEN answer.status = "SELECTED" /\ \A a \in truth : SnapshotOf(answer.selected, a)
           ELSE answer.status = "FRONTIER_CONFLICT"

(* A correction cannot be undone by the list it corrects, unless that list *)
(* was observed again after it: snapshots that keep the order of the       *)
(* announcements of a list give the latest one in either mode.             *)
InOrder(q) ==
  \A s, t \in snapshots : s.list = q.list /\ t.list = q.list /\ s.from = t.from
    /\ s.published # None /\ t.published # None
    /\ s.published < t.published => s.observed < t.observed
CorrectionsHold ==
  \A q \in Queries : LET answer == Resolution(q) IN
    answer.status = "SELECTED" /\ answer.selected.published # None /\ InOrder(q) =>
      ~\E s \in Known(q, snapshots) :
         /\ s.list = q.list /\ s.from = answer.selected.from /\ s.published # None
         /\ s.published > answer.selected.published

(* No answer looks ahead: a selected list had been announced by the        *)
(* cutoff of the query, and is in force on its date.                       *)
NoLookAhead ==
  \A q \in Queries : LET answer == Resolution(q) IN
    answer.status = "SELECTED" =>
      /\ \E a \in announced : SnapshotOf(answer.selected, a) /\ a.published <= q.cutoff
      /\ InForce(answer.selected, q.date)
      /\ q.mode = "SYSTEM_AS_OF" => answer.selected.observed <= q.cutoff

(* What a decision was based on stays what it was: no step after the       *)
(* cutoff of a SYSTEM_AS_OF query changes its list or its conflict, and    *)
(* none changes that of a SOURCE_AS_OF query for which everything dated    *)
(* has been observed.                                                      *)
Settled(q) ==
  /\ Resolution(q).status \in {"SELECTED", "FRONTIER_CONFLICT"}
  /\ q.mode = "SYSTEM_AS_OF"
     \/ \A a \in announced : a.list = q.list /\ a.dated /\ a.published <= q.cutoff => Seen(a, now)
CutoffsAreStable ==
  \A q \in Queries : q.cutoff < now /\ Settled(q) => Resolution(q)' = Resolution(q)
=============================================================================
