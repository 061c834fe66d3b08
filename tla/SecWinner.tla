------------------------------- MODULE SecWinner -------------------------------
(***************************************************************************)
(* A company's disclosures over time: it files, the records of its filings *)
(* are fetched at some time, from one source or another, and so is the     *)
(* snapshot of all the facts it has disclosed.  Any cutoff may be asked    *)
(* for at any time.                                                        *)
(*                                                                         *)
(* Which of several disclosures of one fact wins.  A fact is disclosed in  *)
(* a filing and disclosed again in later ones.  A filing is known by up to *)
(* three clocks (its acceptance, its local acceptance, its date), which    *)
(* are compared pair by pair, so the order of three filings is assembled   *)
(* from comparisons by different clocks.                                   *)
(*                                                                         *)
(* A candidate is [acc, id, rank, prio, value, usable]: the filing by      *)
(* accession and by record id (0: not given), how exactly its concept      *)
(* matches, and whether it is of the group asked for, has a value and is   *)
(* in a primary context.  A filing record is                               *)
(* [acc, id, form, accept, local, trusted, date, at].                      *)
(***************************************************************************)
EXTENDS Naturals, FiniteSets, FiniteSetsExt

CONSTANTS
    Worlds,        \* filing -> [accepted, facts]
    Since,         \* the first instant
    Until,         \* the last instant
    MaxSnapshots,  \* bound on the snapshots
    Offset         \* how far the local clock is behind

-----------------------------------------------------------------------------

None == 0

\* mutant: a local time is taken for an exact one.
LaterByAnyClock(a, b) ==
    LET Clock(r) == IF r.accept # None THEN r.accept ELSE r.local IN
    IF Clock(a) # None /\ Clock(b) # None THEN Clock(a) > Clock(b)
    ELSE a.date > b.date

\* a was disclosed after b, by the first clock that both have.
Later(a, b) ==
    IF a.accept # None /\ b.accept # None THEN a.accept > b.accept
    ELSE IF a.local # None /\ b.local # None /\ a.trusted /\ b.trusted THEN a.local > b.local
    ELSE a.date # None /\ b.date # None /\ a.date > b.date

\* Neither clock tells which came first: not even that they are the same.
Unorderable(a, b) ==
    /\ ~ (a.accept # None /\ b.accept # None)
    /\ ~ (a.local # None /\ b.local # None /\ a.trusted /\ b.trusted)
    /\ ~ Later(a, b) /\ ~ Later(b, a)

Fingerprint(r) == <<r.acc, r.form, r.accept, r.local, r.trusted, r.date>>

\* Records of one filing that contradict each other.
Collide(records, acc) ==
    \E r, q \in {r \in records : r.acc = acc} : Fingerprint(r) # Fingerprint(q)

\* The filing a candidate belongs to: every identifier it has finds a record,
\* none of a filing in contradiction, and both find the same filing.
Containing(records, cand) ==
    {r \in records :
        /\ cand.acc # None \/ cand.id # None
        /\ cand.acc # None => cand.acc = r.acc
        /\ cand.id # None => \E q \in records : q.id = cand.id /\ q.acc = r.acc
        /\ ~ Collide(records, r.acc)
        /\ cand.form = r.form}

Eligible(records, facts) == {c \in facts : c.usable /\ Containing(records, c) # {}}

\* Each eligible candidate with the record its filing is judged by; the other
\* records of the filing say the same.
Judged(records, facts) ==
    {[cand |-> c, filing |->
        LET same == Containing(records, c) IN CHOOSE r \in same : \A q \in same : r.id <= q.id] :
        c \in Eligible(records, facts)}

\* The candidate that stands for a filing: the best match of its concepts.
Best(cands) ==
    CHOOSE c \in cands : \A d \in cands : c.rank < d.rank \/ (c.rank = d.rank /\ c.prio <= d.prio)

Ambiguous(cands) == \E c, d \in cands : c.rank = 1 /\ d.rank = 1 /\ c.value # d.value

OfFiling(judged, filing) == {j.cand : j \in {j \in judged : j.filing = filing}}

Representatives(judged) ==
    {[cand |-> Best(OfFiling(judged, r)), filing |-> r] : r \in {j.filing : j \in judged}}

Cyclic(reps) ==
    \E some \in SUBSET reps \ {{}} : \A a \in some : \E b \in some : Later(b.filing, a.filing)

\* The filings no other is later than.
Frontier(reps) == {a \in reps : \A b \in reps : ~ Later(b.filing, a.filing)}

\* An earlier disclosure matched the concept better and said something else.
ScopeConflict(reps, value, rank) ==
    /\ rank > 1
    /\ \E r \in reps \ Frontier(reps) : r.cand.rank < rank /\ r.cand.value # value

No(status) == [status |-> status, value |-> None, filing |-> None, confidence |-> "none"]

Select(reps) ==
    LET frontier == Frontier(reps)
        best == Min({r.cand.rank : r \in frontier})
        winner == CHOOSE r \in frontier :
                     r.cand.rank = best /\ \A q \in frontier :
                        q.cand.rank = best =>
                            \/ r.cand.prio < q.cand.prio
                            \/ r.cand.prio = q.cand.prio /\ r.filing.acc <= q.filing.acc
        doubtful ==
            \/ \E r, q \in frontier : r # q /\ Unorderable(r.filing, q.filing)
            \/ /\ Cardinality(frontier) = 1 /\ best > 1
               /\ \E r \in reps \ frontier : r.cand.rank < best IN
    CASE Cyclic(reps) -> No("chronology_conflict")
      [] ~ Cyclic(reps) /\ Cardinality({r.cand.value : r \in frontier}) > 1 ->
            No("ambiguous_disclosure_order")
      [] OTHER ->
            IF ScopeConflict(reps, winner.cand.value, best) THEN No("semantic_scope_conflict")
            ELSE [status |-> "selected", value |-> winner.cand.value, filing |-> winner.filing.acc,
                  confidence |-> IF doubtful THEN "medium" ELSE "high"]

-----------------------------------------------------------------------------

\* A day has two instants; a day's date is its number, counted from one.
Day(t) == t \div 2 + 1

\* A filing from after the moment of knowledge.
Premature(r, at) == r.date > Day(at) \/ r.accept > at

FromSnapshot(records, facts, at) ==
    LET judged == Judged(records, facts) IN
    CASE \E j \in judged : Premature(j.filing, at) -> No("invalid_temporal_lineage")
      [] judged = {} -> No("no_eligible_candidate")
      [] OTHER ->
            IF \E j \in judged : Ambiguous(OfFiling(judged, j.filing))
            THEN No("ambiguous_within_filing")
            ELSE Select(Representatives(judged))

\* What was known at a moment: answers of the source that hold together.
Known(snapshots, t) == {s \in snapshots : s.valid /\ s.at <= t}

\* The answer at a cutoff, from the last valid snapshot before it.
AsOf(snapshots, records, t) ==
    LET known == Known(snapshots, t)
        at == Max({s.at : s \in known})
        last == {s \in known : s.at = at} IN
    IF known = {} THEN No("no_snapshot_as_of")
    ELSE IF Cardinality({s.facts : s \in last}) > 1 THEN No("snapshot_conflict")
    ELSE FromSnapshot(records, (CHOOSE s \in last : TRUE).facts, at)

-----------------------------------------------------------------------------

VARIABLES now, world, snapshots, records

vars == <<now, world, snapshots, records>>

-----------------------------------------------------------------------------

Published == {acc \in DOMAIN world : world[acc].accepted <= now}

\* A filing accepted in the evening has the date of the next day.
DateOf(t) == (t + 1) \div 2 + 1

\* What a source tells of a filing; detail says which clocks it has.
FilingRecord(acc, detail, id) ==
    LET t == world[acc].accepted IN
    [acc |-> acc, id |-> id, form |-> "10-Q", at |-> now, date |-> DateOf(t),
     accept |-> IF detail = "exact" THEN t ELSE None,
     local |-> IF detail = "local" THEN t - Offset ELSE None,
     trusted |-> detail = "local"]

Facts == UNION {world[acc].facts : acc \in Published}

\* The facts are fetched; an answer of the source may be an error.
Observe(valid) ==
    /\ Cardinality(snapshots) < MaxSnapshots
    /\ snapshots' = snapshots \cup
          {[at |-> now, valid |-> valid, facts |-> IF valid THEN Facts ELSE {}]}
    /\ UNCHANGED <<now, world, records>>

\* The record of a published filing is fetched.
RecordFiling(acc, detail) ==
    /\ \A r \in records : r.acc # acc
    /\ records' = records \cup {FilingRecord(acc, detail, acc)}
    /\ UNCHANGED <<now, world, snapshots>>

Tick == now < Until /\ now' = now + 1 /\ UNCHANGED <<world, snapshots, records>>

Init ==
    /\ now = Since /\ world \in Worlds
    /\ snapshots = {} /\ records = {}

Next ==
    \/ Tick
    \/ \E valid \in BOOLEAN : Observe(valid)
    \/ \E acc \in Published, detail \in {"exact", "local", "date"} : RecordFiling(acc, detail)

Spec == Init /\ [][Next]_vars

-----------------------------------------------------------------------------

\* An answer only changes from one snapshot to the next.
Cutoffs == {s.at : s \in snapshots} \cup {now}

Answer(t) == AsOf(snapshots, records, t)

\* Nothing is known before it happens, and an answer names a filing there is.
TypeOK ==
    /\ \A s \in snapshots : s.at <= now
    /\ \A r \in records : r.at <= now /\ r.acc \in Published
    /\ \A t \in Cutoffs : Answer(t).status = "selected" <=> Answer(t).filing \in Published

\* The disclosures a snapshot lets choose among at a cutoff.
Choice(t) ==
    LET known == Known(snapshots, t)
        at == Max({s.at : s \in known}) IN
    Eligible(records, (CHOOSE s \in known : s.at = at).facts)

\* Whatever clocks the records have, the value selected is the one of the
\* filing that was really accepted last (compare_filing_disclosure_order).
SelectedIsLatest ==
    \A t \in Cutoffs :
        Answer(t).status = "selected" =>
            LET latest == CHOOSE acc \in {c.acc : c \in Choice(t)} :
                             \A c \in Choice(t) : world[c.acc].accepted <= world[acc].accepted IN
            Answer(t).value = Best({c \in Choice(t) : c.acc = latest}).value

\* Truthful records never contradict each other, although three filings may
\* be compared by three clocks (winner_resolver.py:885).
ChronologyHolds == \A t \in Cutoffs : Answer(t).status # "chronology_conflict"

\* The only knowledge from the future is a filing of the evening, which has
\* the date of the next day: it blocks the answer no longer than that.
InvalidLineageIsTheEvening ==
    \A t \in Cutoffs :
        Answer(t).status = "invalid_temporal_lineage" =>
            \E c \in Choice(t), s \in Known(snapshots, t) :
                /\ world[c.acc].accepted <= s.at
                /\ DateOf(world[c.acc].accepted) = Day(s.at) + 1

=============================================================================
