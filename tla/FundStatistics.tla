---------------------------- MODULE FundStatistics ----------------------------
(***************************************************************************)
(* What is computed from the prices of a fund: rolling and monthly         *)
(* returns, the worst drawdown and its recovery, the historical shortfall  *)
(* and the variance.  Every result is computed twice, by its builder and   *)
(* by its constructor, which refuses what is not in its range.             *)
(*                                                                         *)
(* A point is the price of a day; days only have an order, and a month.    *)
(* Square roots are left out: what is under them is compared.              *)
(* Decimals are rounded half to even to so many significant digits, as in  *)
(* decimal.Context(prec=50, rounding=ROUND_HALF_EVEN) with fewer digits.  A *)
(* number is an integer of units of 1/One; what is below a unit is rounded *)
(* to one.                                                                 *)
(*                                                                         *)
(* Then how a fund compares with the funds of its category, month after    *)
(* month, with what was known then.  A candidate has a category, if it is  *)
(* known, and a latest rolling return, of some month, if its history is    *)
(* long enough.                                                            *)
(***************************************************************************)
EXTENDS Integers, Sequences, FiniteSets, FiniteSetsExt, SequencesExt

CONSTANTS
    Digits,        \* significant digits of a result
    One,           \* units of the number 1, a power of ten
    Prices,        \* positive prices, in units
    MaxPoints,
    Horizon,       \* months of a rolling window
    Confidence,    \* <<numerator, denominator>>
    Hurdle,        \* the minimum acceptable return
    Funds,         \* the candidates of a peer comparison
    Target,        \* the fund that is compared
    Labels,        \* their categories
    Returns,
    Until          \* the last month

VARIABLES
    points,        \* the prices of a complete series
    month,
    candidates,    \* fund -> what is known of it
    percentiles    \* the observations of the target, as they were made

peers == <<month, candidates, percentiles>>
vars == <<points, peers>>

-----------------------------------------------------------------------------
\* Decimal arithmetic

Abs(n) == IF n < 0 THEN -n ELSE n

\* The unit in the last place of a number.
Ulp(n, digits) ==
    LET bound == 10 ^ digits IN
    IF Abs(n) < bound THEN 1 ELSE IF Abs(n) < 10 * bound THEN 10 ELSE IF Abs(n) < 100 * bound THEN 100
    ELSE IF Abs(n) < 1000 * bound THEN 1000 ELSE IF Abs(n) < 10000 * bound THEN 10000 ELSE 100000

\* The nearest integer, for positive arguments.
HalfEven(num, den) ==
    LET low == num \div den
        rest == 2 * (num % den) IN
    IF rest > den \/ (rest = den /\ low % 2 = 1) THEN low + 1 ELSE low

RoundTo(num, den, digits) ==
    LET ulp == Ulp(Abs(num) \div den, digits)
        magnitude == ulp * HalfEven(Abs(num), den * ulp) IN
    IF num < 0 THEN -magnitude ELSE magnitude

Add(a, b) == RoundTo(a + b, 1, Digits)
Subtract(a, b) == Add(a, -b)
Multiply(a, b) == RoundTo(a * b, One, Digits)
Divide(a, b) == RoundTo(a * One, b, Digits)
Share(a, count) == RoundTo(a, count, Digits)

-----------------------------------------------------------------------------

Point(of, price) == [month |-> of, price |-> price]

-----------------------------------------------------------------------------
\* Returns

SimpleReturn(start, end) == Subtract(Divide(end, start), One)

Months(s) == {s[i].month : i \in DOMAIN s}

\* Every month from the first to the last has a price.
Continuous(s) == \A m \in Min(Months(s)) .. Max(Months(s)) : m \in Months(s)

\* The last price of a month stands for it.
Representative(s, of) == s[Max({i \in DOMAIN s : s[i].month = of})].price

\* The returns over so many months, by the month they end in.
Windows(s, horizon) ==
    LET ends == {m \in Months(s) : m - horizon >= Min(Months(s))} IN
    [i \in 1 .. Cardinality(ends) |->
        LET end == Min(Months(s)) + horizon + i - 1 IN
        SimpleReturn(Representative(s, end - horizon), Representative(s, end))]

-----------------------------------------------------------------------------
\* Drawdown

\* The peak only moves up.
Higher(price, peak) == price > peak

Decline(price, peak) == Subtract(One, Divide(price, peak))

NoDecline(s) == [worst |-> 0, from |-> 1, to |-> 1, back |-> 1]

Recovered(s, from, to) == {i \in to + 1 .. Len(s) : s[i].price >= s[from].price}

\* The deepest decline from the peak before it, the earliest of equal ones,
\* and the first price after it that reaches the peak, 0 is none.
Drawdown(s) ==
    LET Follow(state, i) ==
            LET peak == IF Higher(s[i].price, s[state.peak].price) THEN i ELSE state.peak
                depth == Decline(s[i].price, s[peak].price) IN
            IF depth > state.worst THEN [peak |-> peak, worst |-> depth, from |-> peak, to |-> i]
            ELSE [state EXCEPT !.peak = peak]
        end == FoldLeft(Follow, [peak |-> 1, worst |-> 0, from |-> 1, to |-> 1],
                        [i \in 1 .. Len(s) - 1 |-> i + 1])
        back == Recovered(s, end.from, end.to) IN
    IF end.worst = 0 THEN NoDecline(s)
    ELSE [worst |-> end.worst, from |-> end.from, to |-> end.to,
          back |-> IF back = {} THEN 0 ELSE Min(back)]

-----------------------------------------------------------------------------
\* Shortfall, deviation and variance

Losses(returns) == SortSeq([i \in DOMAIN returns |-> -returns[i]], LAMBDA a, b : a < b)

\* mutant: the rank is rounded down.
RankFloor(count) == Max({1, (Confidence[1] * count) \div Confidence[2]})

\* The least rank that leaves no more than the tail above it.
Rank(count) == (Confidence[1] * count + Confidence[2] - 1) \div Confidence[2]

ValueAtRisk(returns) == Losses(returns)[Rank(Len(returns))]

Total(s) == FoldLeft(Add, 0, s)

WorstLosses(s, least) == SelectSeq(s, LAMBDA loss : loss >= least)

ExpectedShortfall(returns) ==
    LET tail == WorstLosses(Losses(returns), ValueAtRisk(returns)) IN Share(Total(tail), Len(tail))

ShortOf(r) == IF Subtract(r, Hurdle) < 0 THEN Subtract(r, Hurdle) ELSE 0

\* The mean of the squared shortfalls over all windows.
Downside(returns) ==
    Share(Total([i \in DOMAIN returns |-> Multiply(ShortOf(returns[i]), ShortOf(returns[i]))]), Len(returns))

Mean(returns) == Share(Total(returns), Len(returns))

Variance(returns) ==
    LET mean == Mean(returns)
        Off(r) == Subtract(r, mean) IN
    Share(Total([i \in DOMAIN returns |-> Multiply(Off(returns[i]), Off(returns[i]))]), Len(returns) - 1)

-----------------------------------------------------------------------------

\* A series is refused when a month is missing; the constructor refuses a
\* shortfall below the value at risk, though the builder has computed it.
Analysed(s) == Len(s) >= 2 /\ Continuous(s)

Raises(returns) == returns # <<>> /\ ExpectedShortfall(returns) < ValueAtRisk(returns)

-----------------------------------------------------------------------------
\* Peers

Unknown == "unknown"
Candidate(label, of, return) == [label |-> label, of |-> of, return |-> return]

Label == candidates[Target].label
Comparable == candidates[Target].label # Unknown /\ candidates[Target].of # 0

\* The funds of the target's category with a return of the target's month.
Members == {f \in Funds : candidates[f].label = Label /\ candidates[f].of = candidates[Target].of}

Unclassified == {f \in Funds : candidates[f].label = Unknown}
Unavailable == {f \in Funds : candidates[f].label = Label} \ Members
Complete == Unclassified = {} /\ Unavailable = {}

Less(f) == {g \in Members : candidates[g].return < candidates[f].return}

Equal(f) == {g \in Members : candidates[g].return = candidates[f].return}

\* The percentile is that of the middle of the equal ones, in hundredths of
\* the number of members.
Midrank(f) == 50 * (2 * Cardinality(Less(f)) + Cardinality(Equal(f)))

Observation ==
    [of |-> candidates[Target].of, asOf |-> month,
     complete |-> Complete]

-----------------------------------------------------------------------------
\* Persistence

Ordered(observed) == SortSeq(observed, LAMBDA a, b : a.of < b.of)

\* Months are not repeated, and a later month was observed later.
Accepted(observed) ==
    LET s == Ordered(observed) IN
    /\ observed # <<>>
    /\ \A i \in 1 .. Len(s) - 1 : s[i].of < s[i + 1].of /\ s[i].asOf < s[i + 1].asOf

\* The months between the first and the last that were not observed.
MissingCount(observed) ==
    LET s == Ordered(observed) IN s[Len(s)].of - s[1].of + 1 - Len(s)

WholePeriod(observed) == MissingCount(observed) = 0 /\ \A i \in DOMAIN observed : observed[i].complete

-----------------------------------------------------------------------------

Init ==
    /\ points \in {<<Point(1, p)>> : p \in Prices}
    /\ month = 1
    /\ candidates \in [Funds -> {Candidate(l, 1, r) : l \in Labels, r \in Returns}]
    /\ percentiles = <<>>

\* One more day: of the same month, of the next, or of the one after.
Extend(price, months) ==
    /\ Len(points) < MaxPoints
    /\ points' = Append(points, Point(points[Len(points)].month + months, price))
    /\ UNCHANGED peers

Close == \E price \in Prices, months \in 0 .. 2 : Extend(price, months)

\* A fund gets a return of this month, or is found to be of another category.
Publish(f, return) ==
    /\ candidates' = [candidates EXCEPT ![f].of = month, ![f].return = return]
    /\ UNCHANGED <<points, month, percentiles>>

Classify(f, label) ==
    /\ candidates' = [candidates EXCEPT ![f].label = label]
    /\ UNCHANGED <<points, month, percentiles>>

\* The target is compared with what is known now, at most once a month.
Observe ==
    /\ Comparable
    /\ \A i \in DOMAIN percentiles : percentiles[i].asOf < month
    /\ percentiles' = Append(percentiles, Observation)
    /\ UNCHANGED <<points, month, candidates>>

NextMonth == month < Until /\ month' = month + 1 /\ UNCHANGED <<points, candidates, percentiles>>

Compare ==
    \/ \E f \in Funds, return \in Returns : Publish(f, return)
    \/ \E f \in Funds, label \in Labels : Classify(f, label)
    \/ Observe \/ NextMonth

Next == Close \/ Compare

Spec == Init /\ [][Next]_vars

-----------------------------------------------------------------------------

Rolling == Windows(points, Horizon)

\* The drawdown is the worst decline between any two days, the fund is under
\* its peak from then until it has recovered, and it recovers when the peak is
\* reached (fund_drawdown.py:71).
DrawdownIsWorst ==
    Len(points) >= 2 =>
        LET price(i) == points[i].price IN
        \A d \in {Drawdown(points)} :
        /\ \A i, j \in DOMAIN points : i < j => Decline(price(j), price(i)) <= d.worst
        /\ d.worst > 0 =>
              /\ \A i \in 1 .. d.from - 1 : price(i) < price(d.from)
              /\ \A i \in d.from + 1 .. (IF d.back = 0 THEN Len(points) ELSE d.back - 1) :
                    price(i) < price(d.from) \/ i <= d.to
              /\ d.back # 0 => price(d.back) >= price(d.from)

\* Windows of a continuous series end in every month from the horizon on, and
\* each is the growth over exactly the horizon (fund_rolling_returns.py:107).
WindowsSpanTheHorizon ==
    Analysed(points) =>
        /\ Len(Rolling) = Max({0, Cardinality(Months(points)) - Horizon})
        /\ \A i \in DOMAIN Rolling :
              LET last(m) == CHOOSE j \in DOMAIN points :
                      /\ points[j].month = m
                      /\ j = Len(points) \/ points[j + 1].month > m
                  first == points[1].month IN
              Rolling[i] = SimpleReturn(points[last(first + i - 1)].price,
                                        points[last(first + i - 1 + Horizon)].price)

\* The value at risk is the least loss that the confidence's share of the
\* windows does not exceed (fund_expected_shortfall.py:70).
ValueAtRiskIsQuantile ==
    Analysed(points) /\ Rolling # <<>> =>
        LET covered(loss) == Cardinality({i \in DOMAIN Rolling : -Rolling[i] <= loss})
            enough(loss) == covered(loss) * Confidence[2] >= Confidence[1] * Len(Rolling)
            losses == {-Rolling[i] : i \in DOMAIN Rolling} IN
        /\ enough(ValueAtRisk(Rolling))
        /\ \A loss \in losses : enough(loss) => ValueAtRisk(Rolling) <= loss

\* No downside means no window below the hurdle, and conversely
\* (fund_downside_deviation.py:80).
DownsideIsShortfall ==
    Analysed(points) /\ Rolling # <<>> =>
        (Downside(Rolling) = 0 <=> \A i \in DOMAIN Rolling : Rolling[i] >= Hurdle)

\* A fund that grows by the same share every month has no volatility but what
\* rounding its mean leaves, which is not nothing (fund_volatility.py:160).
SteadyGrowthIsSteady ==
    Analysed(points) =>
        LET monthly == Windows(points, 1) IN
        Len(monthly) >= 2 /\ (\A i \in DOMAIN monthly : monthly[i] = monthly[1]) =>
            Variance(monthly) * One <= 2 * Len(monthly) * Ulp(monthly[1], Digits) ^ 2

\* "expected_shortfall >= value_at_risk always": a legal history of prices has
\* a shortfall, and is not refused.
ShortfallCoversRisk == Analysed(points) => ~Raises(Rolling)

\* The funds of a cross-section are half of them better than themselves: the
\* percentiles of the members average fifty, ties and all
\* (fund_peer_percentile.py:291).
PercentilesAverageFifty ==
    Comparable =>
        FoldSet(LAMBDA f, sum : sum + Midrank(f), 0, Members) = 50 * Cardinality(Members) ^ 2

\* Observations are refused only when the target had no new return between two
\* of them, in whatever order they are given (fund_peer_persistence.py:91).
RefusedHasCause ==
    percentiles # <<>> =>
        \/ Accepted(percentiles) /\ Accepted(Reverse(percentiles))
        \/ \E i, j \in DOMAIN percentiles : i # j /\ percentiles[i].of = percentiles[j].of

\* A period is whole only when every month of it was observed with all the
\* funds of the category known (fund_peer_persistence.py:147).
WholeIsWhole ==
    percentiles # <<>> /\ Accepted(percentiles) =>
        (WholePeriod(percentiles) <=>
            \A m \in percentiles[1].of .. percentiles[Len(percentiles)].of :
                \E i \in DOMAIN percentiles : percentiles[i].of = m /\ percentiles[i].complete)
=============================================================================
