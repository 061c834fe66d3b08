------------------------------ MODULE Rebalance ------------------------------
(***************************************************************************)
(* The two rebalancing plans of backend/engine/private:                    *)
(* allocation_rebalance.py reaches the target exactly and spends the cash  *)
(* first; allocation_rebalance_policy.py moves only when an asset leaves   *)
(* its trigger band, and only as far as the destination bands.             *)
(*                                                                         *)
(* The code computes with exact decimals.  Here weights, drifts and        *)
(* friction rates are integers over Den and an amount of money is an       *)
(* integer of 1/Den units, so that every product is exact.  Assets are     *)
(* 1 .. N in the canonical order of their identifiers.  An operator whose  *)
(* code may raise returns a set, empty when it raises.                     *)
(*                                                                         *)
(* The state is what the market and the owner do between two plans:        *)
(* values move and cash arrives; both plans are functions of it.           *)
(***************************************************************************)
EXTENDS Integers, Functions, FiniteSetsExt, SequencesExt

CONSTANTS
  N,             \* number of assets
  Den,           \* denominator of weights, drifts and rates
  Targets,       \* target weights an owner configures
  Policies,      \* trigger and destination drifts an owner configures
  BuyRate,       \* friction rate of buying each asset
  SellRate,      \* friction rate of selling each asset
  MaxWealth      \* bound on the total wealth, in whole units

VARIABLES
  target,        \* the target weights in force
  policy,        \* the bands in force
  values,        \* marked value of each asset, in whole units
  cash           \* investable cash, in whole units

vars == <<target, policy, values, cash>>

Assets == 1 .. N
Positive(x) == IF x > 0 THEN x ELSE 0
Least(x, y) == IF x < y THEN x ELSE y

TargetOk(w) == (\A i \in Assets : w[i] \in 0 .. Den) /\ SumFunction(w) = Den

PolicyOk(p) ==
  \A i \in Assets : 0 <= p.destination[i] /\ p.destination[i] <= p.trigger[i] /\ p.trigger[i] <= Den

(* Money of the state in 1/Den units, and the wealth in whole units.       *)
Wealth == SumFunction(values) + cash
Value == [i \in Assets |-> Den * values[i]]
Cash == Den * cash

Trade(i, stage, notional) == [asset |-> i, stage |-> stage, notional |-> notional]
Traded(s) == SelectSeq(s, LAMBDA t : t.notional > 0)
PerAsset(stage, amounts) == Traded([i \in Assets |-> Trade(i, stage, amounts[i])])

-----------------------------------------------------------------------------
(* The exact plan (allocation_rebalance).                                  *)

Goal(w) == [i \in Assets |-> w[i] * Wealth]

Delta(w) == [i \in Assets |-> Goal(w)[i] - Value[i]]

(* The cash spent on each asset, first asset first.                        *)
\* mutant: the cash is offered to every asset in full
PiecesUnlimited(needs, available) == [i \in Assets |-> Least(needs[i], available)]

CashPieces(needs, available) ==
  [i \in Assets |->
     Least(needs[i], Positive(available - SumFunctionOnSet(needs, 1 .. i - 1)))]

(* Three stages: cash buys first, then the sales, then the buys the        *)
(* proceeds pay for.                                                       *)
Staged(buys, sells, available) ==
  LET funded == CashPieces(buys, available) IN
    PerAsset("CASH_FUNDED_BUY", funded)
    \o PerAsset("SELL", sells)
    \o PerAsset("SALE_FUNDED_BUY", [i \in Assets |-> buys[i] - funded[i]])

ExactPlan(w) ==
  IF Wealth <= 0 THEN {}
  ELSE {Staged([i \in Assets |-> Positive(Delta(w)[i])],
               [i \in Assets |-> Positive(-Delta(w)[i])], Cash)}

-----------------------------------------------------------------------------
(* The plan within bands (allocation_rebalance_policy).                    *)

Band(w, drift) ==
  [i \in Assets |-> [low |-> Positive(Goal(w)[i] - drift[i] * Wealth),
                     high |-> Goal(w)[i] + drift[i] * Wealth]]

(* _bands: the destination bands hold some allocation of the wealth.       *)

Feasible(band) ==
  /\ SumFunction([i \in Assets |-> band[i].low]) <= Den * Wealth
  /\ SumFunction([i \in Assets |-> band[i].high]) >= Den * Wealth

Triggered(w, p) ==
  \E i \in Assets :
    \/ Value[i] < Band(w, p.trigger)[i].low
    \/ Value[i] > Band(w, p.trigger)[i].high

(* _allocate: the cheapest capacity first, ties in asset order.            *)

Allocated(total, capacity, rate) ==
  LET before(i) == {j \in Assets : rate[j] < rate[i] \/ (rate[j] = rate[i] /\ j < i)}
  IN  [i \in Assets |->
         Least(capacity[i], Positive(total - SumFunctionOnSet(capacity, before(i))))]

(* What leaves each asset and what enters it: the mandatory part up to the *)
(* edge of the band, then what the sum still needs.                        *)

Moves(band) ==
  LET sell0 == [i \in Assets |-> Positive(Value[i] - band[i].high)]
      buy0 == [i \in Assets |-> Positive(band[i].low - Value[i])]
      edge == [i \in Assets |-> Value[i] - sell0[i] + buy0[i]]
      shortfall == SumFunction(buy0) - Cash
      sale == IF SumFunction(sell0) >= shortfall THEN SumFunction(sell0) ELSE shortfall
      out == Allocated(sale - SumFunction(sell0), [i \in Assets |-> edge[i] - band[i].low], SellRate)
      in == Allocated(Cash + sale - SumFunction(buy0), [i \in Assets |-> band[i].high - edge[i]], BuyRate)
  IN  [sells |-> [i \in Assets |-> sell0[i] + out[i]], buys |-> [i \in Assets |-> buy0[i] + in[i]]]

(* The checks _solve makes of its own result before it lists the trades.   *)
Balanced(m, band) ==
  /\ \A i \in Assets : m.sells[i] = 0 \/ m.buys[i] = 0
  /\ SumFunction(m.buys) = Cash + SumFunction(m.sells)
  /\ \A i \in Assets : LET end == Value[i] + m.buys[i] - m.sells[i] IN
       band[i].low <= end /\ end <= band[i].high

NoMoves == [sells |-> [i \in Assets |-> 0], buys |-> [i \in Assets |-> 0]]

(* _solve.                                                                 *)
Solved(w, p) ==
  IF Wealth <= 0 \/ ~Feasible(Band(w, p.destination)) THEN {}
  ELSE IF ~Triggered(w, p) THEN {NoMoves}
  ELSE {m \in {Moves(Band(w, p.destination))} : Balanced(m, Band(w, p.destination))}

BandPlan(w, p) == {Staged(m.buys, m.sells, Cash) : m \in Solved(w, p)}

-----------------------------------------------------------------------------
(* The market and the owner.                                               *)

Init ==
  /\ target \in {w \in Targets : TargetOk(w)}
  /\ policy \in {p \in Policies : PolicyOk(p)}
  /\ values = [i \in Assets |-> 0]
  /\ cash = 0

Gain(i) ==
  /\ Wealth < MaxWealth
  /\ values' = [values EXCEPT ![i] = @ + 1]
  /\ UNCHANGED <<target, policy, cash>>

Deposit ==
  /\ Wealth < MaxWealth
  /\ cash' = cash + 1
  /\ UNCHANGED <<target, policy, values>>

Next == Deposit \/ \E i \in Assets : Gain(i)

Spec == Init /\ [][Next]_vars

-----------------------------------------------------------------------------
(* Properties                                                              *)

(* Carrying a plan out, one instruction after the other: the money of the  *)
(* cash account and of each asset.                                         *)
Account == [held |-> Value, cash |-> Cash]
Executed(a, t) ==
  IF t.stage = "SELL"
  THEN [held |-> [a.held EXCEPT ![t.asset] = @ - t.notional], cash |-> a.cash + t.notional]
  ELSE [held |-> [a.held EXCEPT ![t.asset] = @ + t.notional], cash |-> a.cash - t.notional]
AfterTrades(plan) == FoldLeft(Executed, Account, plan)
Solvent(plan) ==
  \A k \in 0 .. Len(plan) :
    LET a == AfterTrades(SubSeq(plan, 1, k)) IN
    a.cash >= 0 /\ \A i \in Assets : a.held[i] >= 0

Plans == ExactPlan(target) \cup BandPlan(target, policy)

(* Every allocation of the wealth to the assets that stays in the bands.   *)
Destinations(band) ==
  {f \in [Assets -> 0 .. Den * Wealth] :
     /\ SumFunction(f) = Den * Wealth
     /\ \A i \in Assets : band[i].low <= f[i] /\ f[i] <= band[i].high}
Sold(f) == SumFunction([i \in Assets |-> Positive(Value[i] - f[i])])
Friction(f) ==
  SumFunction([i \in Assets |->
    IF f[i] > Value[i] THEN BuyRate[i] * (f[i] - Value[i]) ELSE SellRate[i] * (Value[i] - f[i])])

TypeOK ==
  /\ target \in [Assets -> 0 .. Den] /\ SumFunction(target) = Den
  /\ PolicyOk(policy)
  /\ values \in [Assets -> 0 .. MaxWealth] /\ cash \in 0 .. MaxWealth

(* The instructions can be carried out one by one as they are listed:      *)
(* neither the cash nor a holding is overdrawn on the way.                 *)
PlansAreSolvent == \A plan \in Plans : Solvent(plan)

(* The exact plan ends on the target with no cash left, having sold no     *)
(* more than any way of getting there must.                                *)
ExactPlanArrives ==
  \A plan \in ExactPlan(target) :
    /\ AfterTrades(plan) = [held |-> Goal(target), cash |-> 0]
    /\ \A s, t \in Range(plan) : s.asset = t.asset /\ s.stage = "SELL" => t = s

(* A plan within bands that trades ends in the destination bands with the  *)
(* cash invested, sells the least that any such ending needs, and no such  *)
(* ending costs less friction, one that sells more included.               *)
BandPlanIsCheapest ==
  \A plan \in BandPlan(target, policy) : plan # <<>> =>
    LET end == AfterTrades(plan)
        ends == Destinations(Band(target, policy.destination))
    IN  /\ end.cash = 0 /\ end.held \in ends
        /\ \A f \in ends : Sold(end.held) <= Sold(f) /\ Friction(end.held) <= Friction(f)

(* A plan within bands settles: carried out, it leaves nothing that would  *)
(* trigger again; and whatever a plan leaves alone is within its bands.    *)
BandPlanSettles ==
  \A plan \in BandPlan(target, policy) :
    \A i \in Assets :
      LET held == AfterTrades(plan).held[i]
          goal == Goal(target)[i]
          drift == policy.trigger[i] * Wealth
      IN  held - goal <= drift /\ goal - held <= drift

(* Bands that can be configured always leave a plan: the sums of the bands *)
(* never refuse one, nor do the checks the solver makes of its own result. *)
BandsAlwaysPlan == Wealth > 0 => BandPlan(target, policy) # {}
=============================================================================
