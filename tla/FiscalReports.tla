----------------------------- MODULE FiscalReports -----------------------------
(***************************************************************************)
(* A company's filings over its fiscal years, and the quarters asked for   *)
(* of them.  A filing discloses its periods of the year and the same ones  *)
(* of the year before, all labelled with the year and period of the        *)
(* filing; the last disclosure of a period is the one that counts.         *)
(*                                                                         *)
(* What can go wrong with one period of a filing: it is left out, its      *)
(* winner is undecided (failed), two results give it different values      *)
(* (clash) or it has no label (unlabelled).  With some of its filings a     *)
(* company may restate the year before; it may also amend a filing.        *)
(*                                                                         *)
(* A fiscal series and the quarters it can answer for.  A point is         *)
(* [kind, start, end, fy, fp, value, half]: its days, the fiscal year and  *)
(* period its filing is labelled with (0: none) and its value, in one      *)
(* snapshot.  A conflict is a point's interval with several values.        *)
(* A quarter is answered by the point for it, or as the difference of two  *)
(* cumulative ones, which are judged and then subtracted by two parts of   *)
(* the code that each decide on their own.                                 *)
(***************************************************************************)
EXTENDS Integers, FiniteSets

CONSTANTS
    Calendars,     \* the lengths of a year's quarters that are tried
    Years,         \* the number of years
    RestatedWith,  \* the filings of a year that may restate the year before
    MaxTroubles,   \* bound on the filings something is wrong with
    MaxAmended     \* bound on the amendments

VARIABLES
    calendar,      \* quarter -> its days, the same every year
    cumulative,    \* the company reports no quarter of its own after the first
    filed,         \* number of filings
    troubles,
    restated,      \* the values of these years have been restated
    amended,       \* the filings amended
    disclosed      \* period -> its last disclosure

vars == <<calendar, cumulative, filed, troubles, restated, amended, disclosed>>

-----------------------------------------------------------------------------

Days(p) == p.end - p.start + 1

\* The kind of a period by its length.
KindOf(days) ==
    CASE days \in 330 .. 385 -> "annual"
      [] days \in 70 .. 115 -> "quarter"
      [] days \in 150 .. 210 \cup 240 .. 300 -> "ytd"
      [] OTHER -> "irregular"

IsQuarter(p) == p.kind = "quarter" /\ Days(p) \in 70 .. 115
IsHalf(p) == p.kind = "ytd" /\ Days(p) \in 150 .. 210
IsNine(p) == p.kind = "ytd" /\ Days(p) \in 240 .. 300
IsAnnual(p) == p.kind = "annual" /\ Days(p) \in 330 .. 385

\* A period with no label, or asked for without one, passes.
OfYear(p, year) == year = 0 \/ p.fy = 0 \/ p.fy = year

\* What is cumulative, or may be the first in its year, begins it.
Begins(p) ==
    \/ IsQuarter(p) /\ p.fp \in {"none", "Q1"}
    \/ IsHalf(p)
    \/ IsNine(p)
    \/ IsAnnual(p)

\* A conflict must be labelled to do so.
ConflictBegins(c) ==
    \/ IsQuarter(c) /\ c.fp = "Q1"
    \/ IsHalf(c)
    \/ IsNine(c)

\* The days a fiscal year may begin on.
Anchors(points, conflicts, year) ==
    {p.start : p \in {p \in points : OfYear(p, year) /\ Begins(p)}}
    \cup {c.start : c \in {c \in conflicts : (year = 0 \/ c.fy = year) /\ ConflictBegins(c)}}

Spans(p, part) ==
    CASE part = "quarter" -> IsQuarter(p)
      [] part = "half" -> IsHalf(p)
      [] part = "nine" -> IsNine(p)

\* The points of one length of the fiscal year that begins on a day.
From(points, start, year, part) ==
    {p \in points : OfYear(p, year) /\ p.start = start /\ Spans(p, part)}

\* The only point, if it is the only one.
Only(points) == {p \in points : Cardinality(points) = 1}

\* mutant: any quarter after the first one.
LiesLater(p, start, before, whole, first, last, until) == IsQuarter(p) /\ p.start > start

\* A quarter that lies where the second, or the third, of the year must lie:
\* after the part before it and up to the end of the part that includes it,
\* or, with neither at hand, within these days of the year.
Lies(p, start, before, whole, first, last, until) ==
    /\ IsQuarter(p) /\ p.start > start
    /\ \/ \E w \in whole : p.end = w.end /\ \A b \in before : p.start > b.end
       \/ whole = {} /\ \E b \in before : p.start > b.end /\ p.end <= start + until
       \/ /\ whole = {} /\ before = {}
          /\ p.start \in start + first .. start + last /\ p.end <= start + until

Answer(status, left, right) == [status |-> status, left |-> left, right |-> right]

\* The quarter as it was reported on its own.
Standalone(points, conflicts, year, start, quarter, before, whole, first, last, until) ==
    LET match == {p \in points : OfYear(p, year) /\ Lies(p, start, before, whole, first, last, until)}
        clash == {c \in conflicts : OfYear(c, year) /\ Lies(c, start, before, whole, first, last, until)}
        labelled == \A p \in match : p.fp \in {"none", quarter} IN
    CASE clash # {} -> Answer("series_conflict", {}, {})
      [] clash = {} /\ ~ labelled -> Answer("period_identity_unresolved", {}, {})
      [] clash = {} /\ labelled /\ Cardinality(match) > 1 -> Answer("ambiguous_fiscal_chain", {}, {})
      [] clash = {} /\ labelled /\ Cardinality(match) = 1 -> Answer("original_available", match, {})
      [] clash = {} /\ match = {} -> Answer("none", {}, {})

\* Two operands of one snapshot and series.
Pair(left, right) ==
    CASE left.end <= right.end -> Answer("period_sequence_invalid", {left}, {right})
      [] left.legacy \/ right.legacy -> Answer("semantic_quality_risk", {left}, {right})
      [] OTHER -> Answer("eligible", {left}, {right})

\* The quarter as the difference of the cumulative periods around it.
Derivable(points, conflicts, year, start, whole, before) ==
    LET lefts == From(points, start, year, whole)
        rights == From(points, start, year, before) IN
    CASE From(conflicts, start, year, whole) \cup From(conflicts, start, year, before) # {} ->
            Answer("series_conflict", {}, {})
      [] Cardinality(lefts) > 1 \/ Cardinality(rights) > 1 -> Answer("ambiguous_fiscal_chain", {}, {})
      [] lefts = {} \/ rights = {} -> Answer("missing_operand", lefts, rights)
      [] OTHER -> Pair(CHOOSE l \in lefts : TRUE, CHOOSE r \in rights : TRUE)

OrElse(first, second) == IF first.status = "none" THEN second ELSE first

\* The first quarter is never derived.
First(points, conflicts, start, year) ==
    LET firsts == From(points, start, year, "quarter") IN
    CASE From(conflicts, start, year, "quarter") # {} -> Answer("series_conflict", {}, {})
      [] OTHER ->
            IF firsts = {} THEN Answer("missing_operand", {}, {})
            ELSE IF Cardinality(firsts) > 1 THEN Answer("ambiguous_fiscal_chain", {}, {})
            ELSE IF \E p \in firsts : p.fp \notin {"none", "Q1"}
                 THEN Answer("period_identity_unresolved", {}, {})
            ELSE Answer("original_available", firsts, {})

\* Of a later one, what was reported on its own comes first.
Evaluated(points, conflicts, quarter, start, year) ==
    LET q1 == Only(From(points, start, year, "quarter"))
        half == Only(From(points, start, year, "half"))
        nine == Only(From(points, start, year, "nine")) IN
    CASE quarter = "Q1" -> First(points, conflicts, start, year)
      [] quarter = "Q2" ->
            OrElse(Standalone(points, conflicts, year, start, quarter, q1, half, 70, 125, 210),
                   Derivable(points, conflicts, year, start, "half", "quarter"))
      [] quarter = "Q3" ->
            OrElse(Standalone(points, conflicts, year, start, quarter, half, nine, 150, 220, 300),
                   Derivable(points, conflicts, year, start, "nine", "half"))

\* A quarter is asked for by the first day of its fiscal year, by the year's
\* label, or (both 0) of a series that only has one year.
Evaluate(points, conflicts, quarter, start, year) ==
    LET starts == IF start # 0 THEN {start} ELSE Anchors(points, conflicts, year) IN
    CASE starts = {} -> Answer("missing_operand", {}, {})
      [] Cardinality(starts) > 1 -> Answer("ambiguous_fiscal_chain", {}, {})
      [] OTHER -> Evaluated(points, conflicts, quarter, CHOOSE s \in starts : TRUE, year)

-----------------------------------------------------------------------------

\* mutant: operands of two fiscal years are subtracted.
SubtractsAcrossYears(quarter, left, right) ==
    /\ left.start = right.start /\ right.end < left.end
    /\ IF quarter = "Q2" THEN IsHalf(left) /\ IsQuarter(right) ELSE IsNine(left) /\ IsHalf(right)
    /\ left.end - right.end \in 70 .. 115

\* The operands are judged again before they are subtracted.
Subtracts(quarter, left, right) ==
    /\ left.start = right.start /\ right.end < left.end
    /\ IF quarter = "Q2" THEN IsHalf(left) /\ IsQuarter(right) ELSE IsNine(left) /\ IsHalf(right)
    /\ left.end - right.end \in 70 .. 115
    /\ left.fy = 0 \/ right.fy = 0 \/ left.fy = right.fy

\* A quarter: its days and its value.
Reported(p) == [status |-> "original_available", start |-> p.start, end |-> p.end, value |-> p.value]

Difference(left, right) ==
    [status |-> "derived", start |-> right.end + 1, end |-> left.end, value |-> left.value - right.value]

Refusal(status) == [status |-> status, start |-> 0, end |-> 0, value |-> 0]

Derive(quarter, answer) ==
    LET left == CHOOSE p \in answer.left : TRUE
        right == CHOOSE p \in answer.right : TRUE IN
    CASE answer.status = "original_available" -> Reported(left)
      [] answer.status = "eligible" ->
            IF Subtracts(quarter, left, right) THEN Difference(left, right)
            ELSE Refusal("invalid_eligibility")
      [] OTHER -> Refusal("ineligible")

-----------------------------------------------------------------------------

Quarters == 1 .. 4
Label == <<"Q1", "Q2", "Q3", "FY">>

SumTo(k) == (IF k >= 1 THEN calendar[1] ELSE 0) + (IF k >= 2 THEN calendar[2] ELSE 0)
            + (IF k >= 3 THEN calendar[3] ELSE 0) + (IF k >= 4 THEN calendar[4] ELSE 0)

YearStart(y) == 1000 + (y - 1) * SumTo(4)

\* A period is the quarters of a year from one to another.
Periods == {p \in [year : 1 .. Years, from : Quarters, to : Quarters] :
               p.from = p.to \/ p.from = 1}

Start(p) == YearStart(p.year) + SumTo(p.from - 1)
End(p) == YearStart(p.year) + SumTo(p.to) - 1

\* The value of a quarter, a bit each; the first one is what is restated.
ValueIf(y, k, new) == 2 ^ (4 * (y - 1) + k) + (IF new /\ k = 1 THEN 1 ELSE 0)

Value(p, new) ==
    LET In(k) == IF k \in p.from .. p.to THEN ValueIf(p.year, k, new) ELSE 0 IN
    In(1) + In(2) + In(3) + In(4)

\* The periods of the k-th filing of a year, and of the year before.
OfFiling(y, k) ==
    {p \in DOMAIN disclosed :
        /\ p.year \in {y, y - 1} /\ p.to = k
        /\ p.from = 1 \/ (~ cumulative /\ k < 4)}

Filing(n) == [year |-> ((n - 1) \div 4) + 1, k |-> ((n - 1) % 4) + 1]

Disclose(y, k, trouble, period, new) ==
    disclosed' = [p \in DOMAIN disclosed |->
        IF p \in OfFiling(y, k) /\ ~ (trouble = "left_out" /\ p = period)
        THEN [by |-> IF trouble = "failed" /\ p = period THEN "failed"
                     ELSE IF trouble = "clash" /\ p = period THEN "clash" ELSE "one",
              fy |-> IF trouble = "unlabelled" /\ p = period THEN 0 ELSE y,
              fp |-> IF trouble = "unlabelled" /\ p = period THEN "none" ELSE Label[k],
              value |-> Value(p, p.year \in new)]
        ELSE disclosed[p]]

File ==
    LET f == Filing(filed + 1) IN
    /\ filed < 4 * Years /\ filed' = filed + 1
    /\ \E new \in {restated, IF f.k \in RestatedWith THEN restated \cup {f.year - 1} ELSE restated} :
          /\ restated' = new
          /\ \/ Disclose(f.year, f.k, "none", [year |-> 0], new) /\ UNCHANGED troubles
             \/ /\ troubles < MaxTroubles /\ troubles' = troubles + 1
                /\ \E trouble \in {"left_out", "failed", "clash", "unlabelled"}, p \in OfFiling(f.year, f.k) :
                      Disclose(f.year, f.k, trouble, p, new)
    /\ UNCHANGED <<calendar, cumulative, amended>>

\* A filing is filed again, with the year restated.
Amend(n) ==
    LET f == Filing(n) IN
    /\ n <= filed /\ Cardinality(amended) < MaxAmended /\ n \notin amended
    /\ amended' = amended \cup {n}
    /\ restated' = restated \cup {f.year}
    /\ Disclose(f.year, f.k, "none", [year |-> 0], restated \cup {f.year})
    /\ UNCHANGED <<calendar, cumulative, filed, troubles>>

Init ==
    /\ calendar \in Calendars /\ cumulative \in BOOLEAN
    /\ filed = 0 /\ troubles = 0 /\ restated = {} /\ amended = {}
    /\ disclosed = [p \in Periods |-> [by |-> "none", fy |-> 0, fp |-> "none", value |-> 0]]

Next == File \/ \E n \in 1 .. 4 * Years : Amend(n)

Spec == Init /\ [][Next]_vars

-----------------------------------------------------------------------------

Point(p) ==
    [kind |-> KindOf(End(p) - Start(p) + 1), start |-> Start(p), end |-> End(p), legacy |-> FALSE,
     fy |-> disclosed[p].fy, fp |-> disclosed[p].fp, value |-> disclosed[p].value]

With(by) ==
    {q \in {Point(p) : p \in {p \in DOMAIN disclosed : disclosed[p].by = by}} : q.kind # "irregular"}

\* The series of the last snapshot: one result for each period, or several.
Series == [points |-> With("one"), conflicts |-> With("clash")]

Ask(series, quarter, start, year) ==
    LET answer == Evaluate(series.points, series.conflicts, quarter, start, year) IN
    [eligibility |-> answer.status, result |-> Derive(quarter, answer)]

Answered(ask) == ask.result.status \in {"original_available", "derived"}

Names == <<"Q1", "Q2", "Q3">>

QuarterOf(y, k) == [year |-> y, from |-> k, to |-> k]

Is(ask, y, k) ==
    ask.result.start = Start(QuarterOf(y, k)) /\ ask.result.end = End(QuarterOf(y, k))

TypeOK ==
    /\ filed \in 0 .. 4 * Years /\ troubles \in 0 .. MaxTroubles
    /\ amended \subseteq 1 .. filed /\ restated \subseteq 0 .. Years
    /\ \A p \in Periods : p.year > Filing(filed + 1).year => disclosed[p].by = "none"

\* An answer is that quarter of the year: of the one that begins on the day
\* asked for, or of some year when none is named.
AnswersAreTheQuarter ==
    LET series == Series IN
    \A k \in 1 .. 3 :
        /\ \A y \in 1 .. Years :
              LET ask == Ask(series, Names[k], YearStart(y), 0) IN Answered(ask) => Is(ask, y, k)
        /\ LET ask == Ask(series, Names[k], 0, 0) IN
              Answered(ask) => \E y \in 1 .. Years : Is(ask, y, k)

\* Asked for by its label, a year that has been reported is not taken for the
\* year before, whose periods carry the label too (fiscal_series.py:737).
LabelsAreNotMistaken ==
    LET series == Series IN
    \A y \in 1 .. Years, k \in 1 .. 3 :
        LET ask == Ask(series, Names[k], 0, y) IN
        /\ \E p \in DOMAIN disclosed : p.year = y /\ p.from = 1 /\ disclosed[p].by = "one" /\ disclosed[p].fy = y
        /\ Answered(ask)
        => Is(ask, y, k)

CumulativeTo(y, k) == [year |-> y, from |-> 1, to |-> k]

\* A quarter derived from labelled periods is what the quarter was, before a
\* restatement or after: a filing of the year and one of the next, which may
\* restate it, are never mixed, whatever was amended.  What the code does mix is
\* two filings of one year with a restatement between them, since it compares no
\* more than their labels (quarter_derivation.py:849): two filings of the next
\* year, or two of a year of which one was amended.
DerivedIsTrue ==
    LET series == Series IN
    \A y \in 1 .. Years, k \in 2 .. 3 :
        LET ask == Ask(series, Names[k], YearStart(y), 0)
            labels == {disclosed[CumulativeTo(y, q)].fy : q \in {k - 1, k}} IN
        /\ 0 \notin labels /\ labels # {y + 1}
        /\ labels = {y} => \A n \in amended : Filing(n).year # y
        /\ ask.result.status = "derived"
        => ask.result.value \in {ValueIf(y, k, FALSE), ValueIf(y, k, TRUE)}

\* A quarter with several values is not derived around them.
ConflictsBlock ==
    LET series == Series IN
    \A y \in 1 .. Years, k \in 2 .. 3 :
        disclosed[QuarterOf(y, k)].by = "clash" /\ KindOf(calendar[k]) = "quarter" =>
            ~ Answered(Ask(series, Names[k], YearStart(y), 0))

\* What is judged eligible is derived, except between two filings of the next
\* year, when its operands carry the labels of two years.
EligibleIsDerived ==
    LET series == Series IN
    \A y \in 1 .. Years, k \in 2 .. 3 :
        LET ask == Ask(series, Names[k], YearStart(y), 0) IN
        ask.eligibility = "eligible" /\ ask.result.status # "derived" =>
            \/ calendar[k] \notin 70 .. 115
            \/ disclosed[CumulativeTo(y, k)].fy # disclosed[CumulativeTo(y, k - 1)].fy
=============================================================================
