------------------------ MODULE SchedulerOccurrences ------------------------
(***************************************************************************)
(* From a schedule to a stored run admission: the pure modules             *)
(* scheduler_trigger, scheduler_scheduled_occurrence,                      *)
(* scheduler_event_occurrence, scheduler_recurrence,                       *)
(* scheduler_calendar_evidence, scheduler_calendar_applicability,          *)
(* scheduler_run_admission and scheduler_run_persistence_codec of          *)
(* backend/engine/private.                                                 *)
(*                                                                         *)
(* Instants are integers in UTC; a day has DayLen of them, and the rules   *)
(* of a time zone give the offset of each instant, so a day may repeat or  *)
(* skip part of its clock.  The SHA-256 identities are the tuples that are *)
(* hashed.  An operator whose code may raise returns a set: empty when it  *)
(* raises, otherwise the one value it returns.                             *)
(*                                                                         *)
(* The state is the time-zone database in use, which a deployment may      *)
(* replace, and the admissions that were serialised and stored.            *)
(***************************************************************************)
EXTENDS Integers, FiniteSets, FiniteSetsExt

CONSTANTS
  Instants,       \* the UTC instants, an interval
  DayLen,         \* clock ticks of a local day
  Dates,          \* local calendar dates, numbered
  WeekdayOf,      \* the weekday of each date
  DayOfMonth,     \* the day of the month of each date
  RuleSets,       \* versions of the zone database: zone -> instant -> offset
  Recurrences,    \* recurrences a configuration may try to build
  Evidence,       \* calendar evidence a publisher may supply
  Constraints,    \* calendar constraints a configuration may try to build
  Events,         \* event occurrences callers may ask for
  Cutoffs,        \* knowledge cutoffs callers bind calendars at
  MaxStored,      \* bound on the stored admissions
  None            \* Python's None

VARIABLES
  rules,      \* the time-zone database in use
  stored      \* the runs: payload, and what was admitted under which rules

vars == <<rules, stored>>

-----------------------------------------------------------------------------
(* The clock of a zone (zoneinfo).                                         *)

Local(tz, z, i) == i + tz[z][i]
DateOf(tz, z, i) == Local(tz, z, i) \div DayLen
Showing(tz, z, wall) == {i \in Instants : Local(tz, z, i) = wall}

(* A wall time attached to a zone: in a repeated hour the fold chooses; in *)
(* a skipped one fold 0 keeps the offset of before, fold 1 that of after.  *)
FoldInstant(tz, z, wall, fold) ==
  LET at == Showing(tz, z, wall)
      before == Max({i \in Instants : Local(tz, z, i) < wall})
      after == Min({i \in Instants : Local(tz, z, i) > wall})
  IN  IF at # {} THEN IF fold = 0 THEN Min(at) ELSE Max(at)
      ELSE wall - tz[z][IF fold = 0 THEN before ELSE after]

(* What the constants stand for.  A clock may be set back, by less than a  *)
(* day; whether a recurrence can be built is for RecurrenceOk to say.      *)
SlotConstants ==
  /\ Instants \subseteq Nat /\ None \notin Instants
  /\ \E last \in Instants : \A i \in Instants : i <= last
  /\ DayLen \in Nat \ {0}
  /\ IsFiniteSet(Dates) /\ Dates \subseteq Int
  /\ IsFiniteSet(Recurrences) /\ \A r \in Recurrences : r.time \in 0 .. DayLen - 1
  /\ \A tz \in RuleSets, r \in Recurrences :
       /\ tz[r.zone] \in [Instants -> Int]
       /\ \A i, j \in Instants :
            i <= j => Local(tz, r.zone, i) - Local(tz, r.zone, j) < DayLen
  /\ \A e \in Evidence :
       /\ e.observed \in Int /\ e.coverage \in {"complete", "unavailable"}
       /\ \A p \in e.releases : p.planned # None => p.planned \in Int
  /\ Cutoffs \subseteq Int

-----------------------------------------------------------------------------
(* The trigger envelope (scheduler_trigger).                               *)

AuthorityOk(a) ==
  /\ (a.scope = "system") <=> (a.owner = None)
  /\ (a.work = "source_data_refresh") <=> (a.scope = "system")
  /\ a.revision >= 1

Trigger(kind, at, cause, auth, id) ==
  IF AuthorityOk(auth)
  THEN {[kind |-> kind, at |-> at, cause |-> cause, auth |-> auth, id |-> id]}
  ELSE {}

-----------------------------------------------------------------------------
(* One wall time of one date (scheduler_scheduled_occurrence).             *)

Wall(o) == o.date * DayLen + o.time

\* mutant: the round trip through the zone is not compared
AttachedOnly(tz, o) == {FoldInstant(tz, o.zone, Wall(o), fold) : fold \in {0, 1}}

Candidates(tz, o) ==
  {i \in {FoldInstant(tz, o.zone, Wall(o), fold) : fold \in {0, 1}} :
     i \in Instants /\ Local(tz, o.zone, i) = Wall(o)}

(* _resolve_utc.                                                           *)

Resolved(tz, o) ==
  LET c == Candidates(tz, o) IN
  IF Cardinality(c) <= 1 THEN c
  ELSE IF o.policy = "REJECT" THEN {}
  ELSE IF o.policy = "EARLIER" THEN {Min(c)} ELSE {Max(c)}

(* The tuple _idempotency hashes, after its protocol marker.               *)
\* mutant: the identity is the instant and the work, not the schedule
IdentityOfInstant(o, at) == <<"scheduled", at, o.auth>>

ScheduledIdentity(o, at) ==
  <<"scheduled", o.key, o.revision, o.zone, o.date, o.time, o.policy, at, o.auth>>

(* build_private_scheduler_scheduled_occurrence.                           *)
ScheduledTrigger(tz, o) ==
  UNION {Trigger("scheduled", at, None, o.auth, ScheduledIdentity(o, at)) :
           at \in Resolved(tz, o)}

-----------------------------------------------------------------------------
(* One external cause (scheduler_event_occurrence).  The instant a cause   *)
(* became available is stored with its offset and hashed without it.       *)

EventIdentity(e) == <<"event", e.cause, e.key, e.available.at, e.auth>>

EventTrigger(e) ==
  Trigger("event", None, [kind |-> e.cause, key |-> e.key, available |-> e.available],
          e.auth, EventIdentity(e))

-----------------------------------------------------------------------------
(* A civil recurrence (scheduler_recurrence).                              *)

ShapeOk(r) ==
  /\ r.kind = "daily" => r.weekdays = {} /\ r.day = None
  /\ r.kind = "weekly" => r.weekdays # {} /\ r.day = None
  /\ r.kind = "monthly" => r.weekdays = {} /\ r.day \in 1 .. 31

RecurrenceOk(r) == r.revision >= 1 /\ ShapeOk(r) /\ AuthorityOk(r.auth)

Eligible(r, d) ==
  \/ r.kind = "daily"
  \/ r.kind = "weekly" /\ WeekdayOf[d] \in r.weekdays
  \/ r.kind = "monthly" /\ DayOfMonth[d] = r.day

OccurrenceOn(r, d) ==
  [ key |-> r.key, revision |-> r.revision, zone |-> r.zone, date |-> d,
    time |-> r.time, policy |-> r.policy, auth |-> r.auth ]

(* materialize_private_scheduler_civil_occurrence: what an eligible date   *)
(* yields; an ineligible one raises.                                       *)
Materialized(r, d) == IF Eligible(r, d) THEN {OccurrenceOn(r, d)} ELSE {}

-----------------------------------------------------------------------------
(* Calendar evidence for one date (scheduler_calendar_evidence).           *)

Overlapping(v, w) == v # w /\ v.opens < w.closes /\ w.opens < v.closes

WindowsOk(tz, e) ==
  /\ \A w \in e.sessions :
       w.opens < w.closes /\ {DateOf(tz, e.zone, w.opens), DateOf(tz, e.zone, w.closes)} = {e.date}
  /\ ~\E v, w \in e.sessions : Overlapping(v, w)

ReleasesOk(tz, e) ==
  /\ \A p, q \in e.releases : p.key = q.key => p = q
  /\ \A p \in e.releases :
       p.planned # None => DateOf(tz, e.zone, p.planned) = e.date

EvidenceOk(tz, e) ==
  /\ e.revision >= 1
  /\ e.published # None => e.published <= e.observed
  /\ IF e.kind = "session" THEN e.releases = {} ELSE e.sessions = {}
  /\ e.coverage = "unavailable" => e.sessions = {} /\ e.releases = {}
  /\ WindowsOk(tz, e) /\ ReleasesOk(tz, e)

(* PrivateSchedulerCalendarPITBinding.                                     *)

Bound(e, cutoff) ==
  e.observed <= cutoff /\ (e.published # None => e.published <= cutoff)

-----------------------------------------------------------------------------
(* Does the calendar let the occurrence run                                *)
(* (scheduler_calendar_applicability)?                                     *)

ConstraintOk(c) ==
  /\ c.revision >= 1
  /\ IF c.mode = "session_exists"
     THEN c.kind = "session" /\ c.release = None
     ELSE c.kind = "release" /\ c.release # None

Verdict(status, reason) == [status |-> status, reason |-> reason]

(* The entries the constraint names; their keys are unique.                *)
Matching(e, c) == {p \in e.releases : p.key = c.release}

(* The verdict, once identity, date, zone and frontier agree.              *)

Judged(at, e, c) ==
  IF e.coverage = "unavailable" THEN Verdict("UNAVAILABLE", "coverage")
  ELSE IF c.mode = "session_exists"
  THEN IF e.sessions # {} THEN Verdict("APPLICABLE", "session")
       ELSE Verdict("NOT_APPLICABLE", "no_session")
  ELSE IF Matching(e, c) = {} THEN Verdict("NOT_APPLICABLE", "no_release")
  ELSE IF c.mode = "release_exists" THEN Verdict("APPLICABLE", "release")
  ELSE IF \E p \in Matching(e, c) : p.planned = None
  THEN Verdict("UNAVAILABLE", "date_only")
  ELSE IF \E p \in Matching(e, c) : at >= p.planned
  THEN Verdict("APPLICABLE", "reached") ELSE Verdict("NOT_APPLICABLE", "before_plan")

(* _derive: the identity of the calendar, its date and its zone must match *)
(* and its frontier must not be later than the occurrence.                 *)

Agrees(r, d, e, c, cutoff, at) ==
  /\ e.calendar = c.calendar /\ e.revision = c.revision /\ e.kind = c.kind
  /\ e.date = d /\ e.zone = r.zone
  /\ cutoff <= at

(* The applicability result: the candidate's trigger with the verdict.     *)
Applicability(tz, r, d, e, c, cutoff) ==
  {[trigger |-> t, verdict |-> Judged(t.at, e, c)] :
     t \in {u \in UNION {ScheduledTrigger(tz, o) : o \in Materialized(r, d)} :
              Agrees(r, d, e, c, cutoff, u.at)}}

-----------------------------------------------------------------------------
(* Admission (scheduler_run_admission).                                    *)

Admission(source, trigger, proof) ==
  [ source |-> source, trigger |-> trigger, proof |-> proof, id |-> trigger.id ]

AdmitOccurrence(tz, o) ==
  {Admission("direct", t, o) : t \in ScheduledTrigger(tz, o)}

AdmitApplicable(tz, r, d, e, c, cutoff) ==
  {Admission("calendar", a.trigger,
             [ recurrence |-> r, date |-> d, evidence |-> e, constraint |-> c,
               cutoff |-> cutoff, verdict |-> a.verdict ]) :
     a \in {b \in Applicability(tz, r, d, e, c, cutoff) :
              b.verdict.status = "APPLICABLE"}}

AdmitEventOccurrence(e) == {Admission("event", t, e) : t \in EventTrigger(e)}

-----------------------------------------------------------------------------
(* The payload of migration 024 (scheduler_run_persistence_codec): the     *)
(* inputs of the builders and, as assertions, what they derived.  The      *)
(* zone database has no place in it.                                       *)

Serialized(a) ==
  [ source |-> a.source, id |-> a.id, inputs |-> a.proof,
    expected |-> [at |-> a.trigger.at, id |-> a.trigger.id] ]

HydrateScheduled(tz, p) == AdmitOccurrence(tz, p.inputs)
HydrateEvent(p) == AdmitEventOccurrence(p.inputs)
HydrateCalendar(tz, p) ==
  LET x == p.inputs IN
  IF EvidenceOk(tz, x.evidence) /\ Bound(x.evidence, x.cutoff)
  THEN {a \in AdmitApplicable(tz, x.recurrence, x.date, x.evidence, x.constraint, x.cutoff) :
          a.proof.verdict = x.verdict}
  ELSE {}

(* Only an admission that derives what was stored is returned.             *)

Hydrated(tz, p) ==
  {a \in CASE p.source = "direct" -> HydrateScheduled(tz, p)
           [] p.source = "event" -> HydrateEvent(p)
           [] OTHER -> HydrateCalendar(tz, p) :
     a.id = p.id /\ a.trigger.id = p.expected.id /\ a.trigger.at = p.expected.at}

-----------------------------------------------------------------------------
(* The steps.                                                              *)

(* initialize_private_scheduler_run keeps the first row of an identity: a  *)
(* later admission of it is a duplicate or a conflict and changes nothing. *)
Store(a) ==
  /\ Cardinality(stored) < MaxStored
  /\ \A s \in stored : s.payload.id # a.id
  /\ stored' = stored \cup {[payload |-> Serialized(a), admission |-> a, under |-> rules]}
  /\ UNCHANGED rules

AdmitDirect(r, d) ==
  /\ RecurrenceOk(r)
  /\ \E o \in Materialized(r, d) : \E a \in AdmitOccurrence(rules, o) : Store(a)

AdmitByCalendar(r, d, e, c, cutoff) ==
  /\ RecurrenceOk(r) /\ ConstraintOk(c)
  /\ EvidenceOk(rules, e) /\ Bound(e, cutoff)
  /\ \E a \in AdmitApplicable(rules, r, d, e, c, cutoff) : Store(a)

AdmitEvent(e) == \E a \in AdmitEventOccurrence(e) : Store(a)

(* A deployment brings another tzdata.                                     *)
ReplaceRules(tz) ==
  /\ rules # tz
  /\ rules' = tz
  /\ UNCHANGED stored

Init ==
  /\ rules \in RuleSets
  /\ stored = {}

Next ==
  \/ \E r \in Recurrences, d \in Dates : AdmitDirect(r, d)
  \/ \E r \in Recurrences, d \in Dates, e \in Evidence, c \in Constraints :
       \E cutoff \in Cutoffs : AdmitByCalendar(r, d, e, c, cutoff)
  \/ \E e \in Events : AdmitEvent(e)
  \/ \E tz \in RuleSets : ReplaceRules(tz)

Spec == Init /\ [][Next]_vars

-----------------------------------------------------------------------------
(* Properties                                                              *)

Scheduled == {s \in stored : s.payload.source # "event"}
ByCalendar == {s \in stored : s.payload.source = "calendar"}

(* The date and the recurrence fields a scheduled run was made for.        *)
SlotOf(s) ==
  IF s.payload.source = "direct" THEN s.admission.proof
  ELSE OccurrenceOn(s.admission.proof.recurrence, s.admission.proof.date)

TypeOK ==
  /\ rules \in RuleSets
  /\ \A s \in stored :
       /\ s.payload.source \in {"direct", "calendar", "event"}
       /\ s.under \in RuleSets
       /\ (s.admission.trigger.at = None) <=> (s.payload.source = "event")
       /\ LET a == s.admission.trigger.auth
          IN  (a.work = "source_data_refresh") <=> (a.owner = None)

(* A recurrence that can be built occurs on a date exactly when the clock  *)
(* of its zone shows its time on that date, once or with a policy that     *)
(* says which of the two: never at a shifted time, never silently dropped. *)
OccursWhenTheClockShows ==
  \A r \in Recurrences, d \in Dates :
    RecurrenceOk(r) /\ Eligible(r, d) =>
      LET o == OccurrenceOn(r, d)
          shown == Showing(rules, r.zone, Wall(o))
          at == {t.at : t \in ScheduledTrigger(rules, o)}
      IN  /\ at \subseteq shown
          /\ (at = {}) <=> (shown = {} \/ (Cardinality(shown) > 1 /\ r.policy = "REJECT"))

(* The days of a recurrence are kept apart by a change of the clock: with  *)
(* one set of rules a later date never runs before an earlier one, nor     *)
(* under its identity.                                                     *)
DatesStayInOrder ==
  \A s, t \in Scheduled :
    (/\ s.under = t.under
     /\ SlotOf(t) = [SlotOf(s) EXCEPT !.date = SlotOf(t).date]
     /\ SlotOf(s).date < SlotOf(t).date)
    => s.admission.trigger.at < t.admission.trigger.at /\ s.payload.id # t.payload.id

(* Every date that was run belongs to its recurrence, a month too short    *)
(* for the configured day included: it has no run.                         *)
RunsOnConfiguredDates ==
  \A s \in Scheduled : \E r \in Recurrences :
    /\ RecurrenceOk(r)
    /\ OccurrenceOn(r, SlotOf(s).date) = SlotOf(s)
    /\ r.kind = "monthly" => DayOfMonth[SlotOf(s).date] = r.day
    /\ r.kind = "weekly" => WeekdayOf[SlotOf(s).date] \in r.weekdays

(* Whichever path admits it, and however often, a slot is one run while    *)
(* the rules of its zone stay; and no slot is taken for another one, of    *)
(* another schedule due at the same instant or of another date.            *)
SlotIsOneRun ==
  /\ \A s, t \in Scheduled : s.under = t.under /\ SlotOf(s) = SlotOf(t) => s = t
  /\ LET slots == UNION {{<<o, t.id>> : t \in ScheduledTrigger(rules, o)} :
                           o \in {OccurrenceOn(r, d) : r \in Recurrences, d \in Dates}}
     IN  Cardinality({x[2] : x \in slots}) = Cardinality(slots)

(* One cause is one run for each work, scope and owner, however the        *)
(* instant it became available was written; another cause is another run.  *)
CauseIsOneRun ==
  \A e, f \in Events : \A t \in EventTrigger(e), u \in EventTrigger(f) :
    t.id = u.id <=> /\ e.cause = f.cause /\ e.key = f.key /\ e.auth = f.auth
                    /\ e.available.at = f.available.at

(* A run that needed the calendar was decided on what the calendar said by *)
(* the instant it was due, about the local date it ran on: a session that  *)
(* day, or a release of that day, already planned for when that is asked.  *)
CalendarAllowedIt ==
  \A s \in ByCalendar :
    LET x == s.admission.proof
        at == s.admission.trigger.at
    IN  /\ x.evidence.observed <= at
        /\ x.evidence.coverage = "complete"
        /\ DateOf(s.under, x.recurrence.zone, at) = x.evidence.date
        /\ IF x.constraint.mode = "session_exists"
           THEN \E w \in x.evidence.sessions :
                  DateOf(s.under, x.recurrence.zone, w.opens) = SlotOf(s).date
           ELSE \E p \in x.evidence.releases :
                  /\ p.key = x.constraint.release
                  /\ x.constraint.mode = "release_not_before" =>
                       /\ p.planned # None /\ p.planned <= at
                       /\ DateOf(s.under, x.recurrence.zone, p.planned) = SlotOf(s).date

(* What was decided is never decided again differently: a stored payload   *)
(* reads back as the admission it was written from or not at all, and not  *)
(* at all only after the rules of the zones changed.                       *)
HydratesAsAdmitted ==
  \A s \in stored :
    /\ Hydrated(rules, s.payload) \subseteq {s.admission}
    /\ Hydrated(rules, s.payload) = {} => rules # s.under /\ s.payload.source # "event"
=============================================================================
