---------------------------- MODULE MarketSnapshots ----------------------------
(***************************************************************************)
(* What PointInTimeMarketDataResolver answers from a set of snapshots.  A  *)
(* bulletin is the whole of a trading day; a window is one instrument over *)
(* a span of days; a metrics snapshot holds one observation of a fund as   *)
(* it is now.  Nothing here reads a clock or a store.                      *)
(*                                                                         *)
(* An id is a random identifier: the least of a group is any of them.  The *)
(* value of an observation stands for all the fields of its fingerprint.   *)
(***************************************************************************)
EXTENDS Integers, FiniteSets, FiniteSetsExt

None == "none"
Naive == 0      \* a time without a zone

\* A resolution that selects nothing, and one that does.
No(status) == [status |-> status, value |-> 0, from |-> 0, confidence |-> None]

Selected(obs, s, confidence) ==
    [status |-> "SELECTED", value |-> obs.value, from |-> s.id, confidence |-> confidence]

\* The least id of a set of snapshots.
Least(snaps) == CHOOSE s \in snaps : \A other \in snaps : s.id <= other.id

\* mutant: the first snapshots are the authority.
LatestFirst(snaps) == {s \in snaps : \A other \in snaps : s.at <= other.at}

Latest(snaps) == {s \in snaps : \A other \in snaps : other.at <= s.at}

Successful(snaps) == {s \in snaps : s.http = 200 /\ s.hash # None}

\* mutant: the cutoff only concerns the day.
KnownAny(snaps, mode, asOf) == snaps

\* What the mode lets the resolution see.
Known(snaps, mode, asOf) ==
    IF mode = "SYSTEM_AS_OF" THEN {s \in snaps : s.at <= asOf} ELSE snaps

\* The questions every family refuses before it looks at a snapshot.
Unanswerable(mode) == mode = "SOURCE_AS_OF"
Undated(mode, asOf) == mode = "SYSTEM_AS_OF" /\ asOf = Naive

-----------------------------------------------------------------------------

\* Of a bulletin's rows, those that are the instrument's and are usable, and
\* those that might be the instrument's if its identity were known.
Matches(s, query) ==
    {o \in s.rows : o.inst = query.inst /\ o.status = "VALID"}

Unresolved(s, query) ==
    {o \in s.rows :
        /\ o.inst = query.inst \/ o.symbol = query.symbol
        /\ \/ o.status = "UNRESOLVED_IDENTITY"
           \/ o.inst # query.inst /\ o.inst = None}

\* A row must be of the bulletin it is read from, and of its day.
Foreign(s) == \E o \in s.rows : o.snapshot # s.id \/ o.hash # s.hash \/ o.date # s.date

\* Two payloads at one instant.
Contradictory(snaps) == \E a, b \in snaps : a.at = b.at /\ a.hash # b.hash

\* The last bulletin replaces the ones before it, row by row or not.
Authoritative(snaps) == Least(Latest(snaps))

Degraded(s) == IF s.stale THEN "MEDIUM" ELSE "HIGH"

\* What is read in the authoritative bulletin.
Read(s, query) ==
    IF Foreign(s) THEN No("INVALID_TEMPORAL_LINEAGE")
    ELSE IF Matches(s, query) = {} THEN
        No(IF Unresolved(s, query) # {} THEN "UNRESOLVED_IDENTITY" ELSE "NO_ELIGIBLE_OBSERVATION")
    ELSE IF Cardinality({o.value : o \in Matches(s, query)}) > 1 THEN No("OBSERVATION_CONFLICT")
    ELSE Selected(CHOOSE o \in Matches(s, query) : TRUE, s, Degraded(s))

\* The selection among the bulletins that can be seen.
Settle(snaps, query) ==
    IF snaps = {} THEN No("NO_SNAPSHOT_AS_OF")
    ELSE IF Contradictory(snaps) THEN No("SNAPSHOT_CONFLICT")
    ELSE Read(Authoritative(snaps), query)

ResolveBulletin(query, snaps, mode, asOf) ==
    LET dated == {s \in snaps : s.date = query.date} IN
    IF Unanswerable(mode) THEN No("UNAVAILABLE_SOURCE_AS_OF")
    ELSE IF Undated(mode, asOf) THEN No("INVALID_TEMPORAL_LINEAGE")
    ELSE IF dated = {} THEN No("NO_SNAPSHOT")
    ELSE IF \E s \in dated : s.at = Naive THEN No("INVALID_TEMPORAL_LINEAGE")
    ELSE IF Successful(dated) = {} THEN No("INVALID_SNAPSHOT")
    ELSE Settle(Known(Successful(dated), mode, asOf), query)

-----------------------------------------------------------------------------

\* The days a window speaks of: those asked for, those between the first and
\* the last it brought, and those it has a row of.
Covers(s, date) == date \in s.asked \cup s.range \/ \E o \in s.rows : o.date = date

\* Re-parses of one answer are the same window.
SameWindow(a, b) ==
    /\ a.at = b.at /\ a.hash = b.hash /\ a.symbol = b.symbol
    /\ a.asked = b.asked /\ a.range = b.range

Distinct(snaps) == {s \in snaps : \A other \in snaps : SameWindow(s, other) => s.id <= other.id}

Target(s, query) == {o \in s.rows : o.date = query.date /\ o.inst = query.inst}

Scopes(snaps) == {<<s.asked, s.range>> : s \in snaps}

\* Windows of one instant agree when all of them have the day, and one value.
Agree(snaps, query) ==
    /\ \A s \in snaps : Target(s, query) # {}
    /\ Cardinality(UNION {{<<o.value, o.status>> : o \in Target(s, query)} : s \in snaps}) = 1

FrontierConflict(snaps, query) ==
    Cardinality(snaps) > 1 /\ (Cardinality(Scopes(snaps)) = 1 \/ ~Agree(snaps, query))

\* Only the rows of the day are checked against their window.
ForeignTarget(s, query) ==
    \E o \in Target(s, query) : o.snapshot # s.id \/ o.hash # s.hash \/ o.symbol # s.symbol

\* The rows of the day must say one thing, and that must be usable.
OneValue(target, s) ==
    IF Cardinality({<<o.value, o.status>> : o \in target}) > 1 THEN No("OBSERVATION_CONFLICT")
    ELSE LET o == CHOOSE row \in target : TRUE IN
         IF o.status = "VALID" THEN Selected(o, s, "HIGH") ELSE No("NO_ELIGIBLE_OBSERVATION")

ReadWindow(s, query) ==
    IF ForeignTarget(s, query) THEN No("INVALID_TEMPORAL_LINEAGE")
    ELSE IF Target(s, query) = {} THEN No("NO_ELIGIBLE_OBSERVATION")
    ELSE OneValue(Target(s, query), s)

SettleWindow(snaps, query) ==
    LET frontier == Latest(Distinct(snaps)) IN
    IF snaps = {} THEN No("NO_SNAPSHOT_AS_OF")
    ELSE IF FrontierConflict(frontier, query) THEN No("SNAPSHOT_CONFLICT")
    ELSE ReadWindow(Least(frontier), query)

Relevant(snaps, query) == {s \in snaps : s.provider = query.provider /\ s.inst = query.inst}

Covering(snaps, query) == {s \in Successful(snaps) : Covers(s, query.date)}

ResolveWindow(query, snaps, mode, asOf) ==
    LET relevant == Relevant(snaps, query)
        covering == Covering(relevant, query) IN
    IF Unanswerable(mode) THEN No("UNAVAILABLE_SOURCE_AS_OF")
    ELSE IF Undated(mode, asOf) THEN No("INVALID_TEMPORAL_LINEAGE")
    ELSE IF relevant = {} THEN No("NO_SNAPSHOT")
    ELSE IF Successful(relevant) = {} THEN No("INVALID_SNAPSHOT")
    ELSE IF covering = {} THEN No("NO_SNAPSHOT")
    ELSE IF \E s \in covering : s.at = Naive THEN No("INVALID_TEMPORAL_LINEAGE")
    ELSE SettleWindow(Known(covering, mode, asOf), query)
=============================================================================
