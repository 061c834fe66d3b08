------------------------------- MODULE MCMarket -------------------------------
(* What is known of a market at a cutoff, while workers fetch it; a        *)
(* behaviour follows one of six parts:                                     *)
(*   "bulletins"  the bulletins of an exchange (BulletinProvider);         *)
(*   "windows"    the prices of a window of days, from a provider that is  *)
(*                asked for one (WindowProvider);                          *)
(*   "compact"    the same from one that answers for the last days;        *)
(*   "fund_days"  the same of a fund, dated when they are asked for;       *)
(*   "funds"      what a fund is now (FundMetrics);                        *)
(*   "filings"    the disclosures of a company (SecWinner).                *)
(* Every part has its own time, source and snapshots, in the same          *)
(* variables.                                                              *)
EXTENDS Integers, Sequences, FiniteSets, TLC

CONSTANTS w1, w2

VARIABLES part, now, world, fetch, snapshots,
  manifest,   \* of BulletinProvider
  kind,       \* of FundMetrics
  records     \* of SecWinner

marketVars == <<part, now, world, fetch, snapshots, manifest, kind, records>>

None == "none"

WorkerSymmetry == Permutations({w1, w2})

-----------------------------------------------------------------------------
(* One symbol is listed, corrected, listed twice, listed under another     *)
(* day, and missing from a bulletin of another layout.  A bulletin         *)
(* appears and may be replaced by another one.                             *)

Row(symbol, close, of) == [symbol |-> symbol, close |-> close, of |-> of]

Histories ==
  LET History(from, other) ==
        [t \in 1 .. 3 |-> IF t < from THEN None ELSE IF t < 3 THEN "first" ELSE other] IN
  {"monday" :> h : h \in {History(1, "corrected"), History(1, "twice"), History(2, "mixed")}}

Exchange == INSTANCE BulletinProvider WITH
  Workers <- {w1, w2}, Days <- {"monday"}, Weekends <- {"sunday"}, Drifted <- {"drifted"},
  Bulletins <-
    [first |-> {Row("a", 1, None)}, corrected |-> {Row("a", 2, None)},
     twice |-> {Row("a", 1, None), Row("a", 2, None)},
     mixed |-> {Row("a", 1, None), Row("b", 1, "friday")}, drifted |-> {}],
  Symbols <- {"a"}, Registered <- {"a"}, Histories <- Histories,
  Ttl <- 0, MaxStale <- 1, MaxRetries <- 0, Until <- 3, MaxSnapshots <- 2

-----------------------------------------------------------------------------
(* The price of a day is shown from the day on; that of the first is       *)
(* corrected, or is none because it was no trading day.                    *)

Shown(until, first) ==
  [d \in 1 .. until |-> [t \in 1 .. until |-> IF t < d THEN 0 ELSE IF d = 1 THEN first[t] ELSE 1]]

Corrected(until) == Shown(until, <<1, 2, 2>>)

Windows == INSTANCE WindowProvider WITH
  Provider <- "TIINGO", Workers <- {w1}, Until <- 2, Prices <- {Corrected(2)}, AliasFrom <- 1,
  MaxSnapshots <- 2

Compact == INSTANCE WindowProvider WITH
  Provider <- "ALPHA_VANTAGE", Workers <- {w1}, Until <- 3, Prices <- {Corrected(3)}, AliasFrom <- 2,
  MaxSnapshots <- 3

FundDays == INSTANCE WindowProvider WITH
  Provider <- "TEFAS", Workers <- {w1, w2}, Until <- 2,
  Prices <- {Corrected(2), Shown(2, <<0, 0>>)}, AliasFrom <- 1, MaxSnapshots <- 2

-----------------------------------------------------------------------------
(* The size, the category or both of a fund change, or the count of its    *)
(* holders or its category is missing.                                     *)

Reported(size, count, category) ==
  [symbol |-> "symbol", size |-> size, count |-> count, category |-> category]

Funds == INSTANCE FundMetrics WITH
  Workers <- {w1, w2}, Until <- 2, MaxSnapshots <- 2,
  Reports <- {<<Reported(1, 1, "a"), next>> : next \in {Reported(2, 0, None), Reported(0, 1, "b")}}

-----------------------------------------------------------------------------
(* Three filings of one fact, accepted on the same day, in the evening and *)
(* on the next day; the last one, or both of the later ones, restate it.   *)

Fact(acc, rank, value) ==
  [ acc |-> acc, id |-> 0, form |-> "10-Q", rank |-> rank, prio |-> rank,
    value |-> value, usable |-> TRUE ]

Disclosed(t2, t3, r2, r3, v2, v3) ==
  <<[accepted |-> 3, facts |-> {Fact(1, 1, 1)}],
    [accepted |-> t2, facts |-> {Fact(2, r2, v2)}],
    [accepted |-> t3, facts |-> {Fact(3, r3, v3), Fact(3, 3, 1)}]>>

Filings == INSTANCE SecWinner WITH
  Since <- 3, Until <- 5, MaxSnapshots <- 2, Offset <- 2,
  Worlds <-
    {Disclosed(3, 4, 1, 1, 2, 3), Disclosed(4, 5, 2, 1, 1, 2)}

-----------------------------------------------------------------------------
MarketInit ==
  /\ part \in {"bulletins", "windows", "compact", "fund_days", "funds", "filings"}
  /\ \/ part = "bulletins" /\ Exchange!Init
     \/ part = "windows" /\ Windows!Init
     \/ part = "compact" /\ Compact!Init
     \/ part = "fund_days" /\ FundDays!Init
     \/ part = "funds" /\ Funds!Init
     \/ part = "filings" /\ Filings!Init /\ fetch = <<>>
  /\ part # "bulletins" => manifest = 0
  /\ part # "funds" => kind = None
  /\ part # "filings" => records = {}

MarketNext ==
  \/ part = "bulletins" /\ Exchange!Next /\ UNCHANGED <<part, kind, records>>
  \/ part = "windows" /\ Windows!Next /\ UNCHANGED <<part, manifest, kind, records>>
  \/ part = "compact" /\ Compact!Next /\ UNCHANGED <<part, manifest, kind, records>>
  \/ part = "fund_days" /\ FundDays!Next /\ UNCHANGED <<part, manifest, kind, records>>
  \/ part = "funds" /\ Funds!Next /\ UNCHANGED <<part, manifest, records>>
  \/ part = "filings" /\ Filings!Next /\ UNCHANGED <<part, fetch, manifest, kind>>

MarketSpec == MarketInit /\ [][MarketNext]_marketVars

-----------------------------------------------------------------------------
(* What is selected at a cutoff was shown by its source between the        *)
(* instant its fetch began and the instant it is dated, a size and a       *)
(* category are of one report, and of several filings the one accepted     *)
(* last is believed, whatever clocks their records have.                   *)
AnswersWereShown ==
  /\ part = "bulletins" => Exchange!SelectedWasShown
  /\ part = "windows" => Windows!SelectedWasShown
  /\ part = "compact" => Compact!SelectedWasShown
  /\ part = "fund_days" => FundDays!SelectedWasShown
  /\ part = "funds" => Funds!OneReport
  /\ part = "filings" => Filings!SelectedIsLatest


=============================================================================
