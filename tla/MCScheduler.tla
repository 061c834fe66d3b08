---------------------------- MODULE MCScheduler -----------------------------
(* The scheduler, part by part; a behaviour follows one of three parts:    *)
(*   "clients"  a team drives one run over the store (in the configuration *)
(*              a worker and an operator, or two workers of two            *)
(*              provenances);                                              *)
(*   "table"    the two SQL functions called with any arguments, on the    *)
(*              runs of a trigger with two provenances and of an event;    *)
(*   "slots"    schedules, calendars and events become admissions.         *)
(* The parts meet in the store: what "slots" admits is what InitializeRun  *)
(* takes, and SchedulerRuntime is the composition of clients and store.    *)
EXTENDS SchedulerRuntime, TLC

CONSTANTS run, direct, calendar, w1, w2, o1, k1, k2, code

CONSTANT Teams   \* of "clients": the workers and operators that may act together

CONSTANTS Hours, DayLen, Dates, WeekdayOf, DayOfMonth, RuleSets, Recurrences,
          Evidence, Constraints, Events, Cutoffs, MaxStored   \* of "slots"

VARIABLES
  part, team,
  tableRuns, tableHistory,   \* of SchedulerRunStore in "table"
  rules, stored              \* of SchedulerOccurrences

mcVars == <<rtVars, part, team, tableRuns, tableHistory, rules, stored>>

MCRunOf == direct :> run @@ calendar :> run
MCNotBefore == run :> 0
TwoClients == {{w1, o1}, {w2, o1}, {w1, w2}}
Symmetry == Permutations({k1, k2}) \cup Permutations({w1, w2})

-----------------------------------------------------------------------------
Table == INSTANCE SchedulerRunStore WITH
  Runs <- {"triggered", "event"}, Admissions <- {"direct", "calendar", "event"},
  RunOf <- [direct |-> "triggered", calendar |-> "triggered", event |-> "event"],
  NotBefore <- [triggered |-> 0, event |-> 2], Instants <- 0 .. 3, Versions <- 1 .. 5,
  runs <- tableRuns, history <- tableHistory

ASSUME TableAssumption == Table!Domain!ConstantsOK

-----------------------------------------------------------------------------
(* Two zones of a four-hour day.  In the first the clock loses an hour on  *)
(* the first day and gains it back on the third; a second version of the   *)
(* database moves that change by an hour.  The second zone crosses the     *)
(* date line: most of its second day does not exist.                       *)

SixteenHours == 0 .. 15
ThreeDates == 1 .. 3
Alternate == [d \in ThreeDates |-> d % 2]
ShortMonth == [d \in ThreeDates |-> IF d = 3 THEN 1 ELSE d + 1]

Shift(spring, autumn) ==
  [ city |-> [i \in SixteenHours |-> IF i >= spring /\ i < autumn THEN 2 ELSE 1],
    line |-> [i \in SixteenHours |-> IF i >= 6 THEN 5 ELSE 1] ]
ZoneRules == {Shift(4, 11), Shift(4, 12)}

Owned == [work |-> "portfolio_health_check", scope |-> "portfolio", owner |-> "o1", revision |-> 1]
Wide == [work |-> "source_data_refresh", scope |-> "system", owner |-> NULL, revision |-> 1]
Mixed == [work |-> "source_data_refresh", scope |-> "portfolio", owner |-> "o1", revision |-> 1]

Recurrence(key, zone, time, policy, kind, weekdays, day, auth) ==
  [ key |-> key, revision |-> 1, zone |-> zone, time |-> time, policy |-> policy,
    kind |-> kind, weekdays |-> weekdays, day |-> day, auth |-> auth ]

Configured ==
  {Recurrence("daily", "city", 1, "REJECT", "daily", {}, NULL, Owned),
   Recurrence("repeated", "city", 1, "EARLIER", "daily", {}, NULL, Wide),
   Recurrence("dateline", "line", 1, "LATER", "daily", {}, NULL, Wide),
   Recurrence("odd", "city", 0, "LATER", "weekly", {1}, NULL, Owned),
   Recurrence("month", "line", 3, "REJECT", "monthly", {}, 3, Owned),
   Recurrence("day31", "city", 3, "REJECT", "monthly", {}, 31, Owned),
   Recurrence("bad", "city", 0, "REJECT", "weekly", {}, NULL, Owned),
   Recurrence("mixed", "city", 0, "REJECT", "daily", {}, NULL, Mixed)}

Calendar(kind, date, coverage, sessions, releases, published, observed) ==
  [ calendar |-> "cal", revision |-> 1, kind |-> kind, zone |-> "city", date |-> date,
    coverage |-> coverage, sessions |-> sessions, releases |-> releases,
    published |-> published, observed |-> observed ]

Calendars ==
  {Calendar("session", 3, "complete", {[opens |-> 10, closes |-> 12]}, {}, NULL, 9),
   Calendar("session", 3, "complete", {}, {}, 8, 9),
   Calendar("session", 1, "unavailable", {}, {}, NULL, 2),
   Calendar("session", 3, "complete", {[opens |-> 10, closes |-> 12]}, {}, NULL, 13),
   Calendar("release", 3, "complete", {}, {[key |-> "CPI", planned |-> 12]}, NULL, 8),
   Calendar("release", 3, "complete", {}, {[key |-> "CPI", planned |-> 9]}, 7, 7),
   Calendar("release", 3, "complete", {}, {[key |-> "CPI", planned |-> NULL]}, 7, 8),
   Calendar("release", 2, "complete", {}, {[key |-> "CPI", planned |-> 7]}, NULL, 3)}

Constraint(kind, mode, release) ==
  [calendar |-> "cal", revision |-> 1, kind |-> kind, mode |-> mode, release |-> release]

CalendarConstraints ==
  {Constraint("session", "session_exists", NULL),
   Constraint("release", "release_exists", "CPI"),
   Constraint("release", "release_not_before", "CPI"),
   Constraint("session", "release_exists", "CPI")}

Event(available, offset, auth) ==
  [cause |-> "macro_release", key |-> "CPI", available |-> [at |-> available, offset |-> offset], auth |-> auth]

Causes == {Event(5, 0, Owned), Event(5, 3, Owned), Event(6, 0, Owned), Event(5, 0, Mixed)}

Slots == INSTANCE SchedulerOccurrences WITH Instants <- Hours, None <- NULL

ASSUME SlotAssumption == Slots!SlotConstants

-----------------------------------------------------------------------------
MCInit ==
  /\ RtInit /\ Table!Init
  /\ \/ /\ part = "clients" /\ team \in Teams
        /\ rules = Shift(4, 11) /\ stored = {}
     \/ part = "table" /\ team = {} /\ rules = Shift(4, 11) /\ stored = {}
     \/ part = "slots" /\ team = {} /\ Slots!Init

(* Only the team acts; workers race with both provenances, a worker and an *)
(* operator with one.                                                      *)
TeamActs ==
  /\ \A c \in Clients \ team : pc'[c] = "idle"
  /\ team \cap Operators # {} => \A c \in team : call'[c] # NULL => call'[c].admission = direct

MCNext ==
  \/ /\ part = "clients" /\ RtNext /\ TeamActs
     /\ UNCHANGED <<part, team, tableRuns, tableHistory, rules, stored>>
  \/ /\ part = "table" /\ Table!Next
     /\ UNCHANGED <<rtVars, part, team, rules, stored>>
  \/ /\ part = "slots" /\ Slots!Next
     /\ UNCHANGED <<rtVars, part, team, tableRuns, tableHistory>>

MCSpec == MCInit /\ [][MCNext]_mcVars

-----------------------------------------------------------------------------
(* The history of a run is complete, ends in the current row, can be       *)
(* replayed by the domain's relation and has disjoint leases, whatever the *)
(* RPCs are called with (024_private_scheduler_run_persistence.sql:435).   *)
HistoryIsTheRun ==
  part = "table" =>
    /\ Table!TypeOK /\ Table!HistoryMatchesRun
    /\ Table!HistoryReplays /\ Table!LeasesDisjoint

(* The table changes only as the Python lifecycle allows, whatever is sent *)
(* to the RPCs (scheduler_run_lifecycle.py:180-224).                       *)
TableImplementsLifecycle ==
  Table!Domain!Init /\ [][part = "table" => Table!Domain!Next]_tableRuns

(* Where only workers race, every finished run was dispatched and no       *)
(* terminal call is refused (scheduler_runtime.py:205-250).                *)
WorkersFinishTheirWork == team \cap Operators = {} => FinishedAfterDispatch

(* A schedule runs at the times its zone's clock shows, on the dates it is *)
(* configured for and in their order; a slot and a cause are one run each, *)
(* admitted on what the calendar said in time, and read back from the      *)
(* store as they were admitted.                                            *)
SlotsBecomeRuns ==
  part = "slots" =>
    /\ Slots!TypeOK /\ Slots!OccursWhenTheClockShows
    /\ Slots!DatesStayInOrder /\ Slots!RunsOnConfiguredDates
    /\ Slots!SlotIsOneRun /\ Slots!CauseIsOneRun
    /\ Slots!CalendarAllowedIt /\ Slots!HydratesAsAdmitted
=============================================================================
