------------------------------- MODULE MCEngine -------------------------------
(* What the engine works out from what is known; a behaviour follows one   *)
(* part.  Figures, from whole data:                                        *)
(*   "quarters"    the quarters of a company's reports (FiscalReports);    *)
(*   "statistics"  a fund's returns and losses (FundStatistics);           *)
(*   "peers"       a fund among those of its category (FundStatistics);    *)
(*   "tail"        the tail of a portfolio's losses (PortfolioRisk);       *)
(*   "parity"      weights by hierarchical risk parity (PortfolioRisk);    *)
(*   "beliefs"     expected returns with views (UserViewPosterior).        *)
(* Decisions, from data as of a moment:                                    *)
(*   "rebalance"   plans to reach a target (Rebalance);                    *)
(*   "universes"   what was eligible (UniverseHistory);                    *)
(*   "events"      what condemns an instrument (GameChangers);             *)
(*   "backtest"    decisions replayed at past moments (BacktestDecision);  *)
(*   "evidence"    facts as bytes and back (RiskEvidence);                 *)
(*   "views"       what an owner held (UserViewHistory).                   *)
EXTENDS Integers, Sequences, FiniteSets, TLC

CONSTANTS Parts, ev1, ev2, fund1, fund2, None, NoDate, Refused, Missing

VARIABLES
  part, now, clock,
  calendar, cumulative, filed, troubles, restated, amended, disclosed, \* of FiscalReports
  points, month, candidates, percentiles,        \* of FundStatistics
  panel, deviation, correlation,                 \* of PortfolioRisk
  prior, views,                                  \* of UserViewPosterior
  target, policy, values, cash,                  \* of Rebalance
  announced, snapshots,                          \* of UniverseHistory
  published, observed, extractions,              \* of GameChangers
  known,                                         \* of BacktestDecision
  evidence, author, binding, answer,             \* of RiskEvidence
  history, held, reading                         \* of UserViewHistory

quarterVars == <<calendar, cumulative, filed, troubles, restated, amended, disclosed>>
fundVars == <<points, month, candidates, percentiles>>
riskVars == <<panel, deviation, correlation>>
beliefVars == <<prior, views>>
planVars == <<target, policy, values, cash>>
listVars == <<announced, snapshots>>
eventVars == <<published, observed, extractions>>
evidenceVars == <<evidence, author, binding, answer>>
viewVars == <<history, held, reading>>
figureVars == <<quarterVars, fundVars, riskVars, beliefVars>>
decisionVars == <<now, clock, planVars, listVars, eventVars, known, evidenceVars, viewVars>>
engineVars == <<part, figureVars, decisionVars>>

EngineSymmetry == Permutations({ev1, ev2}) \cup Permutations({fund1, fund2})

-----------------------------------------------------------------------------
(* A year whose quarters are shorter and longer than twelve weeks, the     *)
(* first one the longest.                                                  *)

Fiscal == INSTANCE FiscalReports WITH
  Calendars <- {<<112, 77, 105, 71>>}, Years <- 2,
  RestatedWith <- 1 .. 4, MaxTroubles <- 1, MaxAmended <- 1

(* Prices that rise and fall, up to five days over months that may be      *)
(* missing.                                                                *)

Fund == INSTANCE FundStatistics WITH
  Digits <- 2, One <- 10000, Prices <- {10000, 20000, 30000}, MaxPoints <- 5,
  Horizon <- 2, Confidence <- <<3, 4>>, Hurdle <- 0,
  Funds <- {"target", fund1, fund2}, Target <- "target", Labels <- {"equity", "unknown"},
  Returns <- {1, 2}, Until <- 3

-----------------------------------------------------------------------------
(* Two instruments with opposite, equal and independent months, at         *)
(* confidences where the tail is a whole number of months and where it is  *)
(* not; four assets of which some move together or apart.                  *)

Whole(n) == <<n, 1>>
Zero == Whole(0)
One == Whole(1)

Risk == INSTANCE PortfolioRisk WITH
  Returns <- {<<Whole(i), Whole(j)>> : i, j \in {-3, 2}} \cup {<<Zero, Whole(-3)>>},
  Portfolios <- {<<One, Zero>>, <<Zero, One>>, <<<<1, 2>>, <<1, 2>>>>},
  Confidences <- {<<1, 2>>, <<3, 4>>, <<9, 10>>}, MaxMonths <- 4, N <- 4,
  Deviations <- {<<1, 1, 1, 1>>, <<1, 2, 1, 3>>, <<3, 1, 2, 1>>, <<1, 0, 1, 1>>},
  Correlations <- {-2, 2}, Parts <- 4, Scale <- 100, MaxPairs <- 6

(* Priors with correlated and with independent uncertainty, and every kind *)
(* of view, two of which contradict a third.                               *)

Vector(s) == [i \in DOMAIN s |-> Whole(s[i])] \o <<>>

Beliefs == INSTANCE UserViewPosterior WITH
  N <- 3, Means <- {Vector(<<0, 0, 0>>), Vector(<<1, 0, -1>>)},
  Uncertainties <-
    {<<Vector(<<2, 1, 0>>), Vector(<<1, 2, 0>>), Vector(<<0, 0, 1>>)>>,
     <<Vector(<<1, 0, 0>>), Vector(<<0, 1, 0>>), Vector(<<0, 0, 2>>)>>,
     <<Vector(<<1, 2, 0>>), Vector(<<2, 1, 0>>), Vector(<<0, 0, 1>>)>>},
  Loadings <-
    {Vector(<<1, 0, 0>>), Vector(<<0, 1, 0>>), Vector(<<1, -1, 0>>), Vector(<<-1, 1, 0>>),
     <<One, <<-1, 2>>, <<-1, 2>>>>, Vector(<<2, 0, 0>>), Vector(<<0, 0, 0>>), Vector(<<1, 1, 0>>)},
  Targets <- {Whole(1), Whole(-2)}, Confidences <- {One, <<1, 2>>, <<1, 3>>, Zero}, MaxViews <- 3

-----------------------------------------------------------------------------
(* Three assets with weights in quarters; the cheapest to sell is not the  *)
(* first, nor the cheapest to buy.                                         *)

Band(trigger, destination) == [trigger |-> trigger, destination |-> destination]

Plans == INSTANCE Rebalance WITH
  N <- 3, Den <- 4, Targets <- {<<2, 1, 1>>, <<0, 3, 1>>, <<1, 1, 1>>},
  Policies <-
    {Band(<<1, 1, 1>>, <<0, 1, 1>>), Band(<<2, 1, 1>>, <<1, 1, 0>>),
     Band(<<1, 0, 1>>, <<1, 1, 1>>), Band(<<1, 0, 1>>, <<0, 0, 0>>),
     Band(<<0, 1, 2>>, <<0, 0, 1>>)},
  BuyRate <- <<2, 1, 1>>, SellRate <- <<2, 1, 0>>, MaxWealth <- 4

(* A list with a regime, its correction, a successor and an undated copy,  *)
(* and another list.                                                       *)

Regime(list, from, to, members, dated) ==
  [ list |-> list, from |-> from, to |-> to, members |-> members, dated |-> dated,
    published |-> None ]

Universes == INSTANCE UniverseHistory WITH
  Announcements <-
    {Regime("l1", 0, NoDate, {1, 2}, TRUE), Regime("l1", 0, 2, {1}, TRUE),
     Regime("l1", 1, NoDate, {2}, TRUE), Regime("l1", 1, NoDate, {1}, FALSE),
     Regime("l2", 0, NoDate, {2}, TRUE)},
  Lists <- {"l1", "l2"}, Dates <- {0, 2}, MaxTime <- 2, MaxAnnounced <- 3, MaxSnapshots <- 2

-----------------------------------------------------------------------------
(* Two events about one instrument, and a systemic one.                    *)

Judged(materiality, urgency, thesis) ==
  [materiality |-> materiality, urgency |-> urgency, thesis |-> thesis]

Events == INSTANCE GameChangers WITH
  Families <- {ev1, ev2, "systemic"}, Scope <- (ev1 :> {1}) @@ (ev2 :> {1}) @@ ("systemic" :> {}),
  Judgements <- {Judged("LOW", "ROUTINE", "UNCHANGED"), Judged("CRITICAL", "ROUTINE", "WEAKENED")},
  MaxEvents <- 2, MaxExtractions <- 2, MaxTime <- 1

(* Two instruments of two classes, a cash account of each currency, and    *)
(* strategies of one class, of both, and one that exits the second.        *)

Entry(account, asset, qty, amount) ==
  [ kind |-> "ENTRY", account |-> account, asset |-> asset, qty |-> qty, cash |-> amount,
    trade |-> 0, time |-> None ]
Quote(price) ==
  [kind |-> "QUOTE", asset |-> 2, date |-> 0, price |-> price, currency |-> "TRY", time |-> None]
Listed(members) ==
  [ kind |-> "UNIVERSE", list |-> "equity", members |-> members, from |-> 0, to |-> NoDate,
    time |-> None ]
Said(judgement) ==
  [kind |-> "JUDGEMENT", family |-> "event", judgement |-> judgement, time |-> None]

Strategy(first, second, band) ==
  [sleeves |-> {[class |-> "equity", weight |-> 2, inst |-> <<first, second>>]}, policy |-> band]

Replays == INSTANCE BacktestDecision WITH
  N <- 2, Den <- 4, BuyRate <- <<1, 2>>, SellRate <- <<1, 1>>,
  Accounts <- ("lira" :> "TRY") @@ ("dollars" :> "USD"), Valuation <- "TRY",
  Facts <-
    {Entry("lira", 0, 0, 2), Entry("dollars", 0, 0, 1), Entry("lira", 2, 1, 0),
     Quote(1), Quote(2), Listed({1, 2}), Listed({1}),
     Said(None), Said(Judged("HIGH", "PROMPT", "INVALIDATED"))},
  Families <- {"event"}, Scope <- ("event" :> {1}),
  Strategies <-
    {Strategy(1, 1, Band(<<1, 1>>, <<0, 1>>)), Strategy(2, 0, Band(<<0, 2>>, <<0, 1>>))},
  Dates <- {0}, MaxTime <- 1, MaxFacts <- 4
-----------------------------------------------------------------------------
(* Amounts of every shape (zero, signed zero, trailing zeros, a fraction   *)
(* below one, one too long) and the ways other programs write a field.     *)

Decimal(neg, digits, exponent) == [neg |-> neg, digits |-> digits, exponent |-> exponent]

Amounts(writer) ==
  {Decimal(FALSE, 150, -2)} \cup
  IF writer # "cash_balance" THEN {} ELSE
  {Decimal(TRUE, 0, -2), Decimal(FALSE, 1, 5), Decimal(FALSE, 12, -4)}

Written(of, form) == [of |-> of, form |-> form]
Amount(neg, units, scale) == [neg |-> neg, units |-> units, scale |-> scale]

OtherTexts(writer, type) ==
  CASE (writer # "cash_balance" /\ type # "optional date") \/ type = "code" -> {}
    [] writer = "cash_balance" /\ type = "id" -> {Written("i1", "upper")}
    [] writer = "cash_balance" /\ type = "amount" ->
         {Written(Amount(FALSE, 10, 1), "plain")}
    [] type = "optional date" -> {Written("date", "compact")}
    [] writer = "cash_balance" /\ type = "optional instant" -> {Written(1, "offset")}

Evidence == INSTANCE RiskEvidence WITH
  Ids <- {"i1"}, Decimals <- Amounts, Cutoffs <- {1, 2}, MaxContent <- 8, Overhead <- 1,
  Variants <- OtherTexts, MaxEvidence <- 2

Held == INSTANCE UserViewHistory WITH
  Views <- {"v1", "v2"}, Stances <- {"up", "down"}, MaxClock <- 3, MaxRevisions <- 2

-----------------------------------------------------------------------------
(* The data of the parts that are not followed stays the same.             *)
EngineInit ==
  /\ part \in Parts
  /\ Fiscal!Init /\ (part # "quarters" => calendar[1] = 112 /\ cumulative)
  /\ Fund!Init /\ (part # "statistics" => points[1].price = 10000)
  /\ part # "peers" => \A f \in DOMAIN candidates : candidates[f].label = "equity" /\ candidates[f].return = 1
  /\ Risk!Init
  /\ (part # "tail" => panel = <<<<Zero, Whole(-3)>>>>) /\ (part # "parity" => deviation = <<1, 1, 1, 1>>)
  /\ Beliefs!Init
  /\ part # "beliefs" =>
       prior.mean = Vector(<<0, 0, 0>>) /\ prior.uncertainty[1] = Vector(<<2, 1, 0>>)
  /\ Plans!Init
  /\ part # "rebalance" => target = <<2, 1, 1>> /\ policy = Band(<<1, 1, 1>>, <<0, 1, 1>>)
  /\ Universes!Init /\ Events!Init /\ Replays!Init /\ Evidence!Init /\ Held!Init

EngineNext ==
  \/ /\ part = "quarters" /\ Fiscal!Next
     /\ UNCHANGED <<part, fundVars, riskVars, beliefVars, decisionVars>>
  \/ /\ part = "statistics" /\ Fund!Close
     /\ UNCHANGED <<part, quarterVars, riskVars, beliefVars, decisionVars>>
  \/ /\ part = "peers" /\ Fund!Compare
     /\ UNCHANGED <<part, quarterVars, riskVars, beliefVars, decisionVars>>
  \/ /\ part = "tail" /\ Risk!Close
     /\ UNCHANGED <<part, quarterVars, fundVars, beliefVars, decisionVars>>
  \/ /\ part = "parity" /\ Risk!Drift
     /\ UNCHANGED <<part, quarterVars, fundVars, beliefVars, decisionVars>>
  \/ /\ part = "beliefs" /\ Beliefs!Next
     /\ UNCHANGED <<part, quarterVars, fundVars, riskVars, decisionVars>>
  \/ /\ part = "rebalance" /\ Plans!Next
     /\ UNCHANGED <<part, figureVars, now, clock, listVars, eventVars, known, evidenceVars, viewVars>>
  \/ /\ part = "universes" /\ Universes!Next
     /\ UNCHANGED <<part, figureVars, clock, planVars, eventVars, known, evidenceVars, viewVars>>
  \/ /\ part = "events" /\ Events!Next
     /\ UNCHANGED <<part, figureVars, clock, planVars, listVars, known, evidenceVars, viewVars>>
  \/ /\ part = "backtest" /\ Replays!Next
     /\ UNCHANGED <<part, figureVars, clock, planVars, listVars, eventVars, evidenceVars, viewVars>>
  \/ /\ part = "evidence" /\ Evidence!Next
     /\ UNCHANGED <<part, figureVars, now, planVars, listVars, eventVars, known, viewVars>>
  \/ /\ part = "views" /\ Held!Next
     /\ UNCHANGED <<part, figureVars, now, planVars, listVars, eventVars, known, evidenceVars>>

EngineSpec == EngineInit /\ [][EngineNext]_engineVars

-----------------------------------------------------------------------------
(* A quarter answered or derived is that quarter of that year, as it was   *)
(* before a restatement or after, unless the restatement falls between two *)
(* filings of one year, and never from operands in conflict                *)
(* (fiscal_series.py, quarter_derivation.py).                              *)
QuartersAreTrue ==
  part = "quarters" =>
    /\ Fiscal!TypeOK /\ Fiscal!AnswersAreTheQuarter /\ Fiscal!LabelsAreNotMistaken
    /\ Fiscal!DerivedIsTrue /\ Fiscal!ConflictsBlock /\ Fiscal!EligibleIsDerived

(* What a figure is computed to be is what its name means: the worst       *)
(* decline, the quantile, the mean of the tail, the share of those below,  *)
(* the weights of risk parity, the expected returns given the views.       *)
FiguresMeanWhatTheySay ==
  /\ part = "statistics" =>
       /\ Fund!DrawdownIsWorst /\ Fund!WindowsSpanTheHorizon /\ Fund!ValueAtRiskIsQuantile
       /\ Fund!DownsideIsShortfall /\ Fund!SteadyGrowthIsSteady
  /\ part = "peers" =>
       Fund!PercentilesAverageFifty /\ Fund!RefusedHasCause /\ Fund!WholeIsWhole
  /\ part = "tail" =>
       /\ Risk!CvarIsTheTailMean /\ Risk!ThresholdIsTheQuantile
       /\ Risk!MixingNeverHurts /\ Risk!ConfidenceNeverLowersRisk
  /\ part = "parity" =>
       Risk!ClustersStayTogether /\ Risk!LinkageIsMinimax /\ Risk!WeightsShareTheRisk
  /\ part = "beliefs" =>
       /\ Beliefs!TypeOK /\ Beliefs!NoBeliefTwice /\ Beliefs!PosteriorsKeepTheViews
       /\ Beliefs!DoubtIsNeverSingular

(* A plan never spends more than there is, arrives at its target or its    *)
(* bands at the least friction, and buys only what its strategy may buy    *)
(* (portfolio_rebalance.py, backtest_decision.py).                         *)
PlansAreFeasible ==
  /\ part = "rebalance" =>
       /\ Plans!TypeOK /\ Plans!PlansAreSolvent /\ Plans!ExactPlanArrives
       /\ Plans!BandPlanIsCheapest /\ Plans!BandPlanSettles /\ Plans!BandsAlwaysPlan
  /\ part = "backtest" => Replays!BuysAreFunded /\ Replays!BuysAreEligible

(* A decision is of its moment: of the universe, the events, the views and *)
(* the evidence as they were known then, each read back as it was written. *)
DecisionsAreOfTheirMoment ==
  /\ part = "universes" =>
       /\ Universes!TypeOK /\ Universes!SourceTruthIsFound
       /\ Universes!CorrectionsHold /\ Universes!NoLookAhead
  /\ part = "events" =>
       Events!TypeOK /\ Events!NewestDecides /\ Events!CompleteIsLinear /\ Events!DoubtBlocks
  /\ part = "backtest" =>
       Replays!TypeOK /\ Replays!DecisionIsOfItsMoment /\ Replays!CondemnedBuysAreBlocked
  /\ part = "evidence" =>
       /\ Evidence!TypeOK /\ Evidence!DecodedIsRecorded /\ Evidence!RecordedIsReadable
       /\ Evidence!OneFactOneDigest /\ Evidence!AmountsAreBounded
  /\ part = "views" =>
       /\ Held!TypeOK /\ Held!ResolvesToWhatWasHeld /\ Held!LossesInventNothing
       /\ Held!ReplaysWalkForward

(* What becomes known later changes no answer and no decision of a past    *)
(* moment.                                                                 *)
NoHindsight ==
  [][/\ part = "universes" => Universes!CutoffsAreStable
     /\ part = "events" => Events!NoHindsight
     /\ part = "backtest" => Replays!ReplaysAgree]_<<listVars, eventVars, known>>

(* "expected_shortfall >= value_at_risk always" (fund_expected_shortfall.py *)
(* and its test): a legal history of prices has a shortfall.               *)
ShortfallCoversRisk == part = "statistics" => Fund!ShortfallCoversRisk
=============================================================================
