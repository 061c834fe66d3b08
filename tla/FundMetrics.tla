------------------------------ MODULE FundMetrics ------------------------------
(***************************************************************************)
(* Workers fetch what a fund is now: its size, how many hold it, its       *)
(* category.  The source does not say when that was so: the only date of a *)
(* snapshot is when it was asked for.  The last report counts, even when   *)
(* it cannot be read.                                                      *)
(*                                                                         *)
(* TefasFundCurrentMetricsProvider, resolve_tefas_current_metrics and      *)
(* resolve_tefas_fund_category.                                            *)
(***************************************************************************)
EXTENDS MarketSnapshots, Sequences, SequencesExt, TLC

CONSTANTS
    Workers,
    Until,         \* the last instant
    Reports,       \* what the source shows: time -> report
    MaxSnapshots   \* bound on the snapshots

VARIABLES
    now,
    world,
    kind,        \* what the registry takes the instrument for
    fetch,
    snapshots    \* in the order of the store

vars == <<now, world, kind, fetch, snapshots>>

Symbol == "symbol"
Idle == [at |-> "idle", since |-> 0, body |-> None]

-----------------------------------------------------------------------------
\* The parser

NoObs == [status |-> None, value |-> 0, count |-> 0, at |-> 0]

\* The last objection is the one that is kept; a missing size is one, a
\* missing count is not.
Status(row) ==
    IF kind # "fund" THEN "INVALID_OBSERVATION"
    ELSE IF row.size = 0 THEN "INVALID_OBSERVATION"
    ELSE IF row.symbol # Symbol THEN "INVALID_SOURCE_CONTEXT" ELSE "VALID"

\* An error told in the body, no row or more than one is no observation.
Parse(body) ==
    IF body.error \/ Len(body.rows) # 1 THEN NoObs
    ELSE [NoObs EXCEPT !.status = Status(body.rows[1]), !.value = body.rows[1].size,
                       !.count = body.rows[1].count]

Outcome(obs) ==
    IF obs.status # "VALID" THEN "UNAVAILABLE" ELSE IF obs.count # 0 THEN "COMPLETE" ELSE "PARTIAL"

-----------------------------------------------------------------------------
\* What was known

\* Parses of one answer are one snapshot: the first of them in the order given.
SameHead(a, b) == a.at = b.at /\ a.hash = b.hash

Deduplicated(snaps) ==
    {snaps[i] : i \in {i \in DOMAIN snaps : \A j \in 1 .. i - 1 : ~SameHead(snaps[j], snaps[i])}}

\* The last report, readable or not.
Frontier(snaps) == Latest(snaps)

Disagree(snaps) == Cardinality({<<s.hash, s.obs>> : s \in snaps}) > 1

\* An observation must be of the instant of its snapshot.
Misplaced(s) == s.obs.status # None /\ s.obs.at # s.at

Eligible(s) == s.obs.status = "VALID"

Visible(snaps, mode, asOf) == SelectSeq(snaps, LAMBDA s : mode # "SYSTEM_AS_OF" \/ s.at <= asOf)

ResolveMetrics(snaps, mode, asOf) ==
    LET candidates == SelectSeq(snaps, LAMBDA s : s.http = 200)
        known == Visible(candidates, mode, asOf)
        frontier == Frontier(Deduplicated(known)) IN
    IF Unanswerable(mode) THEN No("UNAVAILABLE_SOURCE_AS_OF")
    ELSE IF Undated(mode, asOf) THEN No("INVALID_TEMPORAL_LINEAGE")
    ELSE IF candidates = <<>> THEN No("NO_SNAPSHOT")
    ELSE IF known = <<>> THEN No("NO_SNAPSHOT_AS_OF")
    ELSE IF Disagree(frontier) THEN No("SNAPSHOT_CONFLICT")
    ELSE LET s == Least(frontier) IN
         IF Misplaced(s) THEN No("INVALID_TEMPORAL_LINEAGE")
         ELSE IF Eligible(s) THEN Selected(s.obs, s, "HIGH") ELSE No("NO_ELIGIBLE_OBSERVATION")

\* The category is read in the payload of the selected snapshot, and in no
\* other; a payload that says something twice is not read.
Unclassified(reason) == [label |-> None, reason |-> reason]

Holder(snaps, answer) == CHOOSE s \in {snaps[i] : i \in DOMAIN snaps} : s.id = answer.from

ResolveCategory(snaps, mode, asOf) ==
    LET answer == ResolveMetrics(snaps, mode, asOf) IN
    IF answer.status # "SELECTED" THEN Unclassified("UNDERLYING_UNAVAILABLE")
    ELSE LET body == Holder(snaps, answer).body IN
         IF body.twice THEN Unclassified("RAW_PAYLOAD_INVALID")
         ELSE IF body.rows[1].category = None THEN Unclassified("CATEGORY_MISSING")
         ELSE [label |-> body.rows[1].category, reason |-> None]

-----------------------------------------------------------------------------
\* The provider

\* A fetch needs an instrument that is a fund.
Begin(w) ==
    /\ fetch[w] = Idle /\ Len(snapshots) < MaxSnapshots
    /\ kind = "fund"
    /\ fetch' = [fetch EXCEPT ![w] = [Idle EXCEPT !.at = "asked", !.since = now]]
    /\ UNCHANGED <<now, world, kind, snapshots>>

\* What the source can answer: its report, the report with something said
\* twice, of another fund or given twice, or an error without rows.
Body(rows, error, twice) == [rows |-> rows, error |-> error, twice |-> twice]

Bodies ==
    LET report == world[now] IN
    {Body(<<report>>, FALSE, twice) : twice \in BOOLEAN}
        \cup {Body(rows, FALSE, FALSE) : rows \in {<<[report EXCEPT !.symbol = "other"]>>, <<report, report>>}}
        \cup {Body(<<>>, TRUE, FALSE)}

Serve(w, body) ==
    /\ fetch[w].at = "asked"
    /\ fetch' = [fetch EXCEPT ![w].at = "served", ![w].body = body]
    /\ UNCHANGED <<now, world, kind, snapshots>>

\* The snapshot is dated when it was asked for.
Arrive(w) ==
    /\ fetch[w].at = "served"
    /\ LET f == fetch[w]
           obs == [Parse(f.body) EXCEPT !.at = f.since] IN
       snapshots' = Append(snapshots,
          [id |-> Len(snapshots) + 1, at |-> f.since, http |-> 200, hash |-> ToString(f.body),
           obs |-> obs, body |-> f.body, outcome |-> Outcome(obs)])
    /\ fetch' = [fetch EXCEPT ![w] = Idle]
    /\ UNCHANGED <<now, world, kind>>

\* A timeout, a refusal or a server's error leaves nothing.
Fail(w) ==
    /\ fetch[w].at # "idle"
    /\ fetch' = [fetch EXCEPT ![w] = Idle]
    /\ UNCHANGED <<now, world, kind, snapshots>>

\* An instrument is registered again, as something else.
Register(k) ==
    /\ kind # k /\ kind' = k
    /\ UNCHANGED <<now, world, fetch, snapshots>>

Tick == now < Until /\ now' = now + 1 /\ UNCHANGED <<world, kind, fetch, snapshots>>

Init ==
    /\ now = 1 /\ world \in Reports /\ kind = "fund"
    /\ fetch = [w \in Workers |-> Idle] /\ snapshots = <<>>

Next ==
    \/ Tick
    \/ \E k \in {"fund", "other"} : Register(k)
    \/ \E w \in Workers :
          \/ Begin(w)
          \/ \E body \in Bodies : Serve(w, body)
          \/ Arrive(w) \/ Fail(w)

Spec == Init /\ [][Next]_vars

-----------------------------------------------------------------------------

Cutoffs == 1 .. now

Answer(t) == ResolveMetrics(snapshots, "SYSTEM_AS_OF", t)

Category(t) == ResolveCategory(snapshots, "SYSTEM_AS_OF", t)

\* The size and the category known at a cutoff are those of one report, which
\* the source showed since it was asked (fund_category.py:246).
OneReport ==
    \A t \in Cutoffs :
        LET answer == Answer(t)
            s == Holder(snapshots, answer)
            label == Category(t).label IN
        answer.status = "SELECTED" =>
            /\ s.at <= t
            /\ \E x \in s.at .. now :
                  world[x].size = answer.value /\ label \in {None, world[x].category}

\* No report comes back: once a later one was asked for and has come, whatever
\* it holds, an older one is never selected; "it never resurrects an older
\* valid snapshot".
NothingComesBack ==
    \A t \in Cutoffs :
        LET answer == Answer(t)
            selected == Holder(snapshots, answer) IN
        answer.status = "SELECTED" =>
            \A i \in DOMAIN snapshots : snapshots[i].at <= t => snapshots[i].at <= selected.at

\* A response that is not labelled unavailable holds an observation the
\* resolver selects, and no other does (tefas_metrics.py:728, resolver.py:1953).
LabelsAgree ==
    \A i \in DOMAIN snapshots :
        snapshots[i].outcome # "UNAVAILABLE" <=>
            ResolveMetrics(<<snapshots[i]>>, "CURRENT_REPORTED", Naive).status = "SELECTED"

\* What was known at a cutoff stays known once no fetch that began by then is
\* running (tefas_metrics.py:460).
CutoffsSettle ==
    \A t \in Cutoffs :
          t < now /\ (\A w \in Workers : fetch[w].at # "idle" => fetch[w].since > t)
             => \/ <<Answer(t)', Category(t)'>> = <<Answer(t), Category(t)>>
                \/ {Answer(t).status, Answer(t)'.status} \subseteq {"NO_SNAPSHOT", "NO_SNAPSHOT_AS_OF"}

=============================================================================
