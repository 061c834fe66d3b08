---------------------------- MODULE WindowProvider ----------------------------
(***************************************************************************)
(* Workers fetch the daily prices of one instrument over a window of days. *)
(* A provider that is asked for a window answers for all of it; one that   *)
(* is not answers for the days it has rows of.  A day is an instant here:  *)
(* the price of a day is shown from that day on, and may be corrected.     *)
(*                                                                         *)
(* TiingoEODProvider and MarketstackEODProvider take a window,             *)
(* AlphaVantageEODProvider and TefasFundPriceProvider do not; the last one *)
(* judges rows in their order and dates a snapshot when it is asked for.   *)
(***************************************************************************)
EXTENDS MarketSnapshots, Sequences, TLC

CONSTANTS
    Provider,      \* "TIINGO", "ALPHA_VANTAGE" or "TEFAS"
    Workers,
    Until,         \* the last day
    Prices,        \* day -> time -> the price shown, 0 is none
    AliasFrom,     \* the day the symbol became the instrument's
    MaxSnapshots   \* bound on the snapshots

VARIABLES now, world, fetch, snapshots

vars == <<now, world, fetch, snapshots>>

Days == 1 .. Until
Inst == "instrument"
Symbol == "symbol"
Idle == [at |-> "idle", window |-> {}, since |-> 0, body |-> <<>>, http |-> 0]

Identified(day) == day >= AliasFrom

-----------------------------------------------------------------------------
\* What a provider can answer

RawRow(symbol, of, price) == [symbol |-> symbol, of |-> of, price |-> price]

Listed(window) ==
    LET days == {d \in window : d <= now /\ world[d][now] # 0} IN
    [i \in 1 .. Cardinality(days) |->
        LET d == CHOOSE d \in days : Cardinality({e \in days : e < d}) = i - 1 IN
        RawRow(Symbol, d, world[d][now])]

\* The rows of a window, or these and one of them again, with another price, without a date, or of another
\* instrument.
Bodies(window) ==
    LET rows == Listed(window) IN
    {rows} \cup
    IF rows = <<>> THEN {}
    ELSE LET last == rows[Len(rows)] IN
         {Append(rows, extra) : extra \in {last, [last EXCEPT !.price = 3 - @],
                                           [last EXCEPT !.of = 0], [last EXCEPT !.symbol = "other"]}}

-----------------------------------------------------------------------------
\* The parsers

Readable(row) == row.symbol = Symbol /\ row.price # 0 /\ row.of # 0

Judgement(row, day) ==
    IF ~Readable(row) THEN "INVALID_OBSERVATION"
    ELSE IF ~Identified(day) THEN "UNRESOLVED_IDENTITY" ELSE "VALID"

Obs(row, day, status, inst, s) ==
    [inst |-> inst, symbol |-> Symbol, date |-> day, value |-> row.price,
     status |-> status, snapshot |-> s.id, hash |-> s.hash]

\* Rows of a day that are not the same row are all in conflict; a row without
\* a date is passed over.
Grouped(body, s) ==
    LET dated == {body[i] : i \in {i \in DOMAIN body : body[i].of # 0}}
        Mark(row) == <<row.price, Judgement(row, row.of)>>
        Disputed(row) == \E other \in dated : other.of = row.of /\ Mark(other) # Mark(row) IN
    {Obs(row, row.of,
         IF Disputed(row) THEN "DUPLICATE_CONFLICT" ELSE Judgement(row, row.of),
         IF Identified(row.of) THEN Inst ELSE None, s) : row \in dated}

\* The readable rows of the same day before the i-th.
Seen(body, i) == {j \in 1 .. i - 1 : body[j].of = body[i].of /\ Readable(body[j])}

\* A row that repeats the first price of its day is dropped, one that gives
\* another is in conflict with it; a row without a date is one of today.
InOrder(body, s, today) ==
    LET first(i) == CHOOSE j \in Seen(body, i) : \A k \in Seen(body, i) : j <= k
        again(i) == Seen(body, i) # {} /\ body[first(i)].price = body[i].price
        day(i) == IF body[i].of = 0 THEN today ELSE body[i].of IN
    {Obs(body[i], day(i),
         IF Seen(body, i) # {} THEN "DUPLICATE_CONFLICT" ELSE Judgement(body[i], day(i)),
         Inst, s) : i \in {i \in DOMAIN body : ~again(i)}}

AsksWindow == Provider = "TIINGO"
DatesAtStart == Provider = "TEFAS"

Hull(days) == {d \in Days : (\E a \in days : a <= d) /\ \E b \in days : d <= b}

\* The rows of a snapshot, and the days they span: all of them, or those that
\* are valid.
Parse(body, s, today) ==
    IF Provider = "TEFAS" THEN InOrder(body, s, today) ELSE Grouped(body, s)

Span(rows) ==
    Hull({o.date : o \in IF Provider = "TEFAS" THEN {o \in rows : o.status = "VALID"} ELSE rows})


\* How a response is labelled.
Outcome(rows) ==
    IF \A o \in rows : o.status # "VALID" THEN "UNAVAILABLE"
    ELSE IF \A o \in rows : o.status = "VALID" THEN "COMPLETE" ELSE "PARTIAL"

-----------------------------------------------------------------------------

\* A fetch needs a symbol that is the instrument's, and a window in order; a
\* provider that takes no window answers for the last days.
MayAsk(first, last) == Identified(now) /\ first <= last /\ (AsksWindow \/ last = now)

Asking(days) == [Idle EXCEPT !.at = "asked", !.window = days, !.since = now]

Begin(w, first, last) ==
    /\ fetch[w] = Idle /\ Cardinality(snapshots) < MaxSnapshots /\ MayAsk(first, last)
    /\ fetch' = [fetch EXCEPT ![w] = Asking(first .. last)]
    /\ UNCHANGED <<now, world, snapshots>>

Serve(w, body) ==
    /\ fetch[w].at = "asked"
    /\ fetch' = [fetch EXCEPT ![w].at = "served", ![w].body = body, ![w].http = 200]
    /\ UNCHANGED <<now, world, snapshots>>

\* An error or a rate limit told in a body: it has no rows, and some
\* providers say so with the code of a success.
ServeError(w, http) ==
    /\ fetch[w].at = "asked"
    /\ fetch' = [fetch EXCEPT ![w].at = "served", ![w].http = http]
    /\ UNCHANGED <<now, world, snapshots>>


\* The instant a snapshot is dated.
Date(w) == IF DatesAtStart THEN fetch[w].since ELSE now

Arrive(w) ==
    /\ fetch[w].at = "served"
    /\ LET f == fetch[w]
           head == [id |-> Cardinality(snapshots) + 1, hash |-> ToString(f.body)]
           rows == Parse(f.body, head, f.since) IN
       snapshots' = snapshots \cup
          {[id |-> head.id, provider |-> Provider, inst |-> Inst, symbol |-> Symbol,
            at |-> Date(w), http |-> f.http, hash |-> head.hash,
            asked |-> IF AsksWindow THEN f.window ELSE {}, range |-> Span(rows), rows |-> rows,
            since |-> f.since, body |-> f.body, outcome |-> Outcome(rows)]}
    /\ fetch' = [fetch EXCEPT ![w] = Idle]
    /\ UNCHANGED <<now, world>>

\* A timeout, a refusal or a server's error leaves nothing.
Fail(w) ==
    /\ fetch[w].at # "idle"
    /\ fetch' = [fetch EXCEPT ![w] = Idle]
    /\ UNCHANGED <<now, world, snapshots>>

Tick == now < Until /\ now' = now + 1 /\ UNCHANGED <<world, fetch, snapshots>>

Init ==
    /\ now = 1 /\ world \in Prices
    /\ fetch = [w \in Workers |-> Idle] /\ snapshots = {}

Next ==
    \/ Tick
    \/ \E w \in Workers :
          \/ \E first, last \in 1 .. now : Begin(w, first, last)
          \/ \E body \in Bodies(fetch[w].window) : Serve(w, body)
          \/ \E http \in {200, 400} : ServeError(w, http)
          \/ Arrive(w) \/ Fail(w)

Spec == Init /\ [][Next]_vars

-----------------------------------------------------------------------------

Cutoffs == {s.at : s \in snapshots} \cup {now}

Query(day) == [inst |-> Inst, provider |-> Provider, date |-> day]

Answer(day, t) == ResolveWindow(Query(day), snapshots, "SYSTEM_AS_OF", t)

LatestAnswer(day) == ResolveWindow(Query(day), snapshots, "CURRENT_REPORTED", Naive)

Of(id) == CHOOSE s \in snapshots : s.id = id

\* A price was shown for its day between the instant its fetch began and now,
\* and for a provider that dates its answers, before the cutoff.
SelectedWasShown ==
    \A day \in 1 .. now, t \in Cutoffs :
        LET answer == Answer(day, t) IN
        answer.status = "SELECTED" =>
            \E x \in Of(answer.from).since .. (IF DatesAtStart THEN now ELSE t) :
                world[day][x] = answer.value

\* An older window never answers for a day that a later one speaks of, even
\* when that has no row of it (resolver.py:1021).
NothingComesBack ==
    \A day \in 1 .. now, t \in Cutoffs :
        LET answer == Answer(day, t) IN
        answer.status = "SELECTED" =>
            ~ \E s \in snapshots :
                /\ s.http = 200 /\ s.at <= t /\ s.since > Of(answer.from).at
                /\ day \in s.asked \cup {o.date : o \in s.rows}

\* A window of other days leaves the answer alone: "a recent incremental
\* snapshot never invalidates or supersedes an older history snapshot".
OtherDaysAreKept ==
    \A day \in 1 .. now :
          LatestAnswer(day).status = "SELECTED" /\ LatestAnswer(day)' # LatestAnswer(day)
             => \E s \in snapshots' \ snapshots :
                   day \in s.asked \/ \E o \in s.rows : o.date >= day

Nothing == {"NO_SNAPSHOT", "INVALID_SNAPSHOT", "NO_SNAPSHOT_AS_OF"}

Kept(day, t) ==
    \/ Answer(day, t)' = Answer(day, t)
    \/ {Answer(day, t).status, Answer(day, t)'.status} \subseteq Nothing

\* What was known at a cutoff stays what was known: "snapshots retrieved
\* after the cutoff cannot change the series".
CutoffsAreStable == \A day \in 1 .. now, t \in Cutoffs : t < now => Kept(day, t)

\* It does once no fetch that began by the cutoff is running (tefas_eod.py:436).
CutoffsSettle ==
    \A day \in 1 .. now, t \in Cutoffs :
          t < now /\ (\A w \in Workers : fetch[w].at # "idle" => fetch[w].since > t) => Kept(day, t)

\* A conflict of windows ends with the next window of the day.
ConflictsHeal ==
    \A day \in 1 .. now :
          /\ LatestAnswer(day).status = "SNAPSHOT_CONFLICT"
          /\ \E s \in snapshots' \ snapshots :
                /\ s.http = 200 /\ day \in s.asked \cup {o.date : o \in s.rows}
                /\ \A other \in snapshots : other.at < s.at
          => LatestAnswer(day)'.status # "SNAPSHOT_CONFLICT"

\* A price is in conflict only when the provider has listed its day twice, or
\* has sent a row without a date on that day (tefas_eod.py:382).
ConflictHasCause ==
    \A day \in 1 .. now :
        LatestAnswer(day).status = "OBSERVATION_CONFLICT" =>
            \E s \in snapshots :
                Cardinality({i \in DOMAIN s.body :
                    s.body[i].of = day \/ (Provider = "TEFAS" /\ s.body[i].of = 0 /\ s.since = day)}) > 1

\* Every day of a response labelled complete can be used.
CompleteIsUsable ==
    \A s \in snapshots, day \in 1 .. now :
        /\ s.outcome = "COMPLETE" /\ s.http = 200
        /\ \E o \in s.rows : o.date = day
        => ResolveWindow(Query(day), {s}, "CURRENT_REPORTED", Naive).status = "SELECTED"
=============================================================================
