--------------------------- MODULE BulletinProvider ---------------------------
(***************************************************************************)
(* Workers fetch the bulletins of an exchange.  Where a bulletin lies is   *)
(* read from a manifest, which is cached: while fresh it is used, when it  *)
(* cannot be fetched again an older one will do, and the snapshot says so. *)
(* An answer of the exchange takes time: it holds what was published when  *)
(* the exchange gave it.                                                   *)
(*                                                                         *)
(* BISTEODProvider; BISTKMTPProvider is the same for precious metals.      *)
(***************************************************************************)
EXTENDS MarketSnapshots

CONSTANTS
    Workers,
    Days,          \* trading days
    Weekends,      \* the days that are none
    Bulletins,     \* bulletin -> set of rows [symbol, close, of], close 0 is unreadable
    Drifted,       \* the bulletins of another layout
    Symbols,
    Registered,    \* the symbols whose instruments are known
    Ttl,           \* a manifest younger than this is fresh
    MaxStale,      \* one older than this is none
    MaxRetries,
    Until,         \* the last instant
    MaxSnapshots,  \* bound on the snapshots
    Histories      \* what the exchange shows over time: day -> time -> bulletin

VARIABLES
    now,
    world,      \* what the exchange shows, over time
    manifest,   \* when the cached manifest was fetched, 0 is never
    fetch,      \* what each worker is doing
    snapshots

vars == <<now, world, manifest, fetch, snapshots>>

Idle == [at |-> "idle", day |-> None, attempt |-> 0, stale |-> FALSE, since |-> 0, answer |-> None]

-----------------------------------------------------------------------------
\* The parser

\* A symbol listed twice is listed once, or is quarantined.
Quarantined(rows) == {r \in rows : \E other \in rows : other.symbol = r.symbol /\ other # r}

\* A row alone: one without a readable close, or of no known instrument.
Judged(r) ==
    IF r.close = 0 THEN "INVALID_OBSERVATION"
    ELSE IF r.symbol \notin Registered THEN "UNRESOLVED_IDENTITY" ELSE "VALID"

\* A row says of which day it is, or is of the day of the bulletin.
Observation(r, day, id, bulletin) ==
    [inst |-> IF r.symbol \in Registered THEN r.symbol ELSE None, symbol |-> r.symbol,
     value |-> r.close, date |-> IF r.of = None THEN day ELSE r.of,
     status |-> IF r \in Quarantined(Bulletins[bulletin]) THEN "CONFLICT_QUARANTINED" ELSE Judged(r),
     snapshot |-> id, hash |-> bulletin]

Parsed(bulletin, day, id) == {Observation(r, day, id, bulletin) : r \in Bulletins[bulletin]}

-----------------------------------------------------------------------------
\* The snapshots a fetch leaves behind.  Every status but 200 is read alike:
\* Failed stands for 400, 404, 500, 503 and whatever else the exchange answers.

Failed == 503

NextId == Cardinality(snapshots) + 1

Snapshot(w, at, http, hash, rows) ==
    [id |-> NextId, date |-> fetch[w].day, at |-> at, http |-> http, hash |-> hash,
     rows |-> rows, stale |-> fetch[w].stale, since |-> fetch[w].since]

Record(w, s) ==
    /\ snapshots' = snapshots \cup {s}
    /\ fetch' = [fetch EXCEPT ![w] = Idle]

\* A day of the weekend has no bulletin, which is known without asking.
FetchWeekend(w, day) ==
    /\ fetch[w] = Idle /\ NextId <= MaxSnapshots
    /\ snapshots' = snapshots \cup
          {[id |-> NextId, date |-> day, at |-> now, http |-> 200, hash |-> "empty",
            rows |-> {}, stale |-> FALSE, since |-> now]}
    /\ UNCHANGED <<now, world, manifest, fetch>>

Age(at) == now - at

Fresh == manifest # 0 /\ Age(manifest) <= Ttl

\* A fetch begins with the manifest, the cached one when it is fresh.
Begin(w, day) ==
    /\ fetch[w] = Idle /\ NextId <= MaxSnapshots
    /\ fetch' = [fetch EXCEPT ![w] =
          [Idle EXCEPT !.at = IF Fresh THEN "bulletin" ELSE "manifest",
                       !.day = day, !.attempt = 1, !.since = now]]
    /\ UNCHANGED <<now, world, manifest, snapshots>>

ManifestArrives(w) ==
    /\ fetch[w].at = "manifest"
    /\ manifest' = now
    /\ fetch' = [fetch EXCEPT ![w].at = "bulletin", ![w].attempt = 1]
    /\ UNCHANGED <<now, world, snapshots>>

\* A manifest that does not come, whatever the reason, is asked for again.
\* In the end the cached one will do, called stale however young it is, unless
\* it is too old: then there is a snapshot that says the exchange was
\* unavailable when the fetch began.
ManifestFails(w) ==
    /\ fetch[w].at = "manifest"
    /\ UNCHANGED <<now, world, manifest>>
    /\ \/ /\ fetch[w].attempt <= MaxRetries
          /\ fetch' = [fetch EXCEPT ![w].attempt = @ + 1]
          /\ UNCHANGED snapshots
       \/ /\ fetch[w].attempt > MaxRetries
          /\ manifest # 0 /\ Age(manifest) <= MaxStale
          /\ fetch' = [fetch EXCEPT ![w].at = "bulletin", ![w].attempt = 1, ![w].stale = TRUE]
          /\ UNCHANGED snapshots
       \/ /\ fetch[w].attempt > MaxRetries
          /\ manifest = 0 \/ Age(manifest) > MaxStale
          /\ Record(w, Snapshot(w, fetch[w].since, Failed, "empty", {}))

\* The manifest cannot be read, or names no bulletin that may be fetched.
Unlocated(w) ==
    /\ fetch[w].at \in {"manifest", "bulletin"} /\ fetch[w].answer = None
    /\ fetch[w].at = "bulletin" => fetch[w].attempt = 1
    /\ Record(w, Snapshot(w, fetch[w].since, Failed, "empty", {}))
    /\ UNCHANGED <<now, world, manifest>>

Shown(day) == IF world[day][now] = None THEN "missing" ELSE world[day][now]

\* The exchange answers a request for a bulletin with what it shows then.
Serve(w) ==
    /\ fetch[w].at = "bulletin" /\ fetch[w].answer = None
    /\ fetch' = [fetch EXCEPT ![w].answer = Shown(fetch[w].day)]
    /\ UNCHANGED <<now, world, manifest, snapshots>>

\* mutant: a bulletin is dated when it was asked for.
ArrivesDatedAtStart(w) ==
    /\ fetch[w].at = "bulletin" /\ fetch[w].answer \in DOMAIN Bulletins
    /\ LET b == fetch[w].answer IN
       Record(w, Snapshot(w, fetch[w].since, 200, b,
                          IF b \in Drifted THEN {} ELSE Parsed(b, fetch[w].day, NextId)))
    /\ UNCHANGED <<now, world, manifest>>

\* A bulletin arrives and is parsed; one of another layout has no rows.
Arrives(w) ==
    /\ fetch[w].at = "bulletin" /\ fetch[w].answer \in DOMAIN Bulletins
    /\ LET b == fetch[w].answer IN
       Record(w, Snapshot(w, now, 200, b,
                          IF b \in Drifted THEN {} ELSE Parsed(b, fetch[w].day, NextId)))
    /\ UNCHANGED <<now, world, manifest>>

\* A holiday or a bulletin not yet there; or a refusal that is not retried,
\* whatever there is.
ArrivesMissing(w) ==
    /\ fetch[w].at = "bulletin" /\ fetch[w].answer # None
    /\ Record(w, Snapshot(w, now, Failed, "empty", {}))
    /\ UNCHANGED <<now, world, manifest>>

\* An answer with an empty body.
ArrivesEmpty(w) ==
    /\ fetch[w].at = "bulletin" /\ fetch[w].answer # None
    /\ Record(w, Snapshot(w, now, 200, "empty", {}))
    /\ UNCHANGED <<now, world, manifest>>

\* An answer is lost, late or an error: the fetch asks again, or gives up
\* and leaves nothing.
BulletinFails(w) ==
    /\ fetch[w].at = "bulletin"
    /\ fetch' = [fetch EXCEPT ![w] = IF @.attempt <= MaxRetries
                                     THEN [@ EXCEPT !.attempt = @ + 1, !.answer = None]
                                     ELSE Idle]
    /\ UNCHANGED <<now, world, manifest, snapshots>>

-----------------------------------------------------------------------------
\* Time

\* Time passes, and the exchange may show another bulletin.
Tick ==
    /\ now < Until
    /\ now' = now + 1
    /\ UNCHANGED <<world, manifest, fetch, snapshots>>

Init ==
    /\ now = 1 /\ world \in Histories
    /\ manifest = 0
    /\ fetch = [w \in Workers |-> Idle]
    /\ snapshots = {}

Work(w) ==
    \/ \E day \in Days : Begin(w, day)
    \/ \E day \in Weekends : FetchWeekend(w, day)
    \/ ManifestArrives(w) \/ ManifestFails(w) \/ Unlocated(w)
    \/ Serve(w) \/ Arrives(w) \/ ArrivesMissing(w) \/ ArrivesEmpty(w) \/ BulletinFails(w)

Next == Tick \/ \E w \in Workers : Work(w)

Spec == Init /\ [][Next]_vars

-----------------------------------------------------------------------------

Cutoffs == {s.at : s \in snapshots} \cup {now}

Query(symbol, day) == [inst |-> symbol, symbol |-> symbol, date |-> day]

Answer(symbol, day, t) == ResolveBulletin(Query(symbol, day), snapshots, "SYSTEM_AS_OF", t)

LatestAnswer(symbol, day) == ResolveBulletin(Query(symbol, day), snapshots, "CURRENT_REPORTED", None)

\* The bulletin a snapshot holds.
Of(id) == CHOOSE s \in snapshots : s.id = id

\* Nothing is dated after it came, and only a full bulletin has rows.
TypeOK ==
    /\ \A s \in snapshots : s.since <= s.at /\ s.at <= now
    /\ \A s \in snapshots : s.rows # {} => s.http = 200 /\ s.hash \in DOMAIN Bulletins
    /\ manifest <= now
    /\ \A w \in Workers : fetch[w].attempt <= MaxRetries + 1

\* A value was shown by the exchange for the day asked about, between the
\* instant its fetch began and the instant it is dated (bist_eod.py:321).
SelectedWasShown ==
    \A day \in Days, symbol \in Symbols, t \in Cutoffs :
        LET answer == Answer(symbol, day, t) IN
        answer.status = "SELECTED" =>
            LET s == Of(answer.from) IN
            /\ s.at <= t
            /\ \E x \in s.since .. s.at :
                  /\ world[day][x] # None
                  /\ {r.close : r \in {r \in Bulletins[world[day][x]] : r.symbol = symbol}} = {answer.value}

\* No bulletin comes back: once a later fetch has brought a bulletin of the
\* day, whatever its rows, the ones before it are no longer read.
NothingComesBack ==
    \A day \in Days, symbol \in Symbols, t \in Cutoffs :
        LET answer == Answer(symbol, day, t) IN
        answer.status = "SELECTED" =>
            ~ \E s \in snapshots :
                s.date = day /\ s.http = 200 /\ s.at <= t /\ s.since > Of(answer.from).at

\* What was known at a cutoff stays what was known: a later snapshot changes
\* at most the name of knowing nothing.
Nothing == {"NO_SNAPSHOT", "INVALID_SNAPSHOT", "NO_SNAPSHOT_AS_OF"}

CutoffsAreStable ==
    \A day \in Days, symbol \in Symbols, t \in Cutoffs :
          t < now /\ Answer(symbol, day, t)' # Answer(symbol, day, t)
             => {Answer(symbol, day, t).status, Answer(symbol, day, t)'.status} \subseteq Nothing

\* A row of another day, and nothing else, takes a whole bulletin out of use
\* for every instrument (resolver.py:370).
PoisonHasCause ==
    \A day \in Days, symbol \in Symbols :
        LatestAnswer(symbol, day).status = "INVALID_TEMPORAL_LINEAGE" =>
            \E x \in 1 .. now :
                /\ world[day][x] # None
                /\ \E r \in Bulletins[world[day][x]] : r.of \notin {None, day}

\* Two bulletins of one instant are a conflict for good: no later bulletin of
\* the day is ever read (resolver.py:308).
ConflictsStay ==
    \A day \in Days, symbol \in Symbols :
          LatestAnswer(symbol, day).status = "SNAPSHOT_CONFLICT"
             => LatestAnswer(symbol, day)'.status = "SNAPSHOT_CONFLICT"

=============================================================================
