--------------------------- MODULE BacktestDecision ---------------------------
(***************************************************************************)
(* A decision replayed as of a point in time                               *)
(* (backend/engine/private/backtest_*.py,                                  *)
(* allocation_universe_composition.py).                                    *)
(*                                                                         *)
(* A replay point is a knowledge cutoff and an evaluation date.  For one,  *)
(* a caller builds three bundles of evidence, each with the portfolio's    *)
(* history as its anchor: the gates of the game-changing events (D1), the  *)
(* eligibility of the candidates (D2) and the marked holdings with the     *)
(* investable cash (D3).  They are composed into a reconciled target and   *)
(* state, planned within bands, and the buys that a gate forbids are found.*)
(*                                                                         *)
(* The state is what has become known: ledger entries, prices, universe    *)
(* snapshots, judgements.  Every builder is a function of it, and gives a  *)
(* set of at most one result, empty when it raises.  The code compares     *)
(* contexts and projections by object identity; here equal contexts are    *)
(* one.  Replays run in SYSTEM_AS_OF mode, which the valuation requires.   *)
(***************************************************************************)
EXTENDS Integers, FiniteSets, FiniteSetsExt, Functions, Sequences

CONSTANTS
  N, Den, BuyRate, SellRate,  \* of the rebalancing plan
  Accounts,      \* [account -> currency]
  Valuation,     \* the valuation currency
  Facts,         \* what may become known, see Learn
  Families, Scope, \* of the game changers
  Strategies,    \* [sleeves, policy], what a replay may be run with
  Dates,         \* evaluation dates
  NoDate, None,
  MaxTime,       \* bound on the clock
  MaxFacts       \* bound on the facts learnt

VARIABLES
  now,           \* the clock
  known          \* the facts learnt, with their times

vars == <<now, known>>

Assets == 1 .. N

U == INSTANCE UniverseHistory WITH
       Announcements <- {}, Lists <- {}, MaxAnnounced <- 0, MaxSnapshots <- 0,
       announced <- {}, snapshots <- {}
G == INSTANCE GameChangers WITH
       Judgements <- {}, MaxEvents <- 0, MaxExtractions <- 0,
       published <- <<>>, observed <- <<>>, extractions <- {}
R(t, p, v, c) == INSTANCE Rebalance WITH
       Targets <- {}, Policies <- {}, MaxWealth <- 0,
       target <- t, policy <- p, values <- v, cash <- c

Of(kind) == {k \in known : k.kind = kind}

(* PrivateBacktestReplayPoint and its analysis context.                    *)
Contexts == [cutoff : 0 .. now, date : Dates]

-----------------------------------------------------------------------------
(* The anchor of every bundle: the ledger as recorded by the cutoff.       *)

\* mutant: an entry counts when its trade had happened
LedgerByTrade(c) == {e \in Of("ENTRY") : e.trade <= c.date}

Ledger(c) == {e \in Of("ENTRY") : e.time <= c.cutoff}

Quantity(c, i) == LET q(e) == e.qty IN MapThenSumSet(q, {e \in Ledger(c) : e.asset = i})
Balance(c, a) == LET m(e) == e.cash IN MapThenSumSet(m, {e \in Ledger(c) : e.account = a})

(* The projections refuse a ledger that holds less than nothing.           *)
Projects(c) ==
  /\ \A i \in Assets : Quantity(c, i) >= 0
  /\ \A a \in DOMAIN Accounts : Balance(c, a) >= 0

Open(c) == {i \in Assets : Quantity(c, i) > 0}

-----------------------------------------------------------------------------
(* Completeness of a bundle: what is present has been declared, and all    *)
(* that was declared is present.                                           *)
Complete(declared, present) == present \subseteq declared /\ declared \subseteq present

(* D1.  A family has a judgement, or is known to be incomplete.            *)
Judged(c, f) ==
  {j \in Of("JUDGEMENT") : j.family = f /\ j.time <= c.cutoff
     /\ ~\E k \in Of("JUDGEMENT") : k.family = f /\ k.time <= c.cutoff /\ k.time > j.time}

GateOf(f, j) ==
  G!Gate([family |-> f, active |-> j.judgement,
          status |-> IF j.judgement = None THEN "INCOMPLETE_COVERAGE" ELSE "RESOLVED"])

D1(c, declared) ==
  LET present == {f \in declared : Judged(c, f) # {}} IN
    IF declared = {} \/ ~Complete(declared, present) \/ ~Projects(c) THEN {}
    ELSE {[ctx |-> c, gates |-> UNION {{GateOf(f, j) : j \in Judged(c, f)} : f \in declared}]}

-----------------------------------------------------------------------------
(* D2.  Sleeves are [class, weight, inst]: the weight of a class and those *)
(* of its instruments within it, in the square root of Den.                *)

Universe(c, class) ==
  U!Resolve([list |-> class, date |-> c.date, mode |-> "SYSTEM_AS_OF", cutoff |-> c.cutoff],
            {[list |-> u.list, from |-> u.from, to |-> u.to, members |-> u.members,
              published |-> None, observed |-> u.time] : u \in Of("UNIVERSE")})

Candidates(sleeve) == {i \in Assets : sleeve.inst[i] > 0}

Binds(c, sleeve) ==
  /\ Universe(c, sleeve.class).status = "SELECTED"
  /\ Candidates(sleeve) \subseteq Universe(c, sleeve.class).selected.members

D2(c, sleeves) ==
  IF Projects(c) /\ \A s \in sleeves : Binds(c, s) THEN {[ctx |-> c, sleeves |-> sleeves]} ELSE {}

-----------------------------------------------------------------------------
(* D3.  Marked holdings and investable cash.                               *)

Quotes(c, i) ==
  LET S == {q \in Of("QUOTE") : q.asset = i /\ q.date = c.date /\ q.time <= c.cutoff} IN
    {q \in S : \A r \in S : r.time <= q.time}

(* A selected observation of the date that holds a positive price in the   *)
(* valuation currency.                                                     *)
Marks(c, i) ==
  IF Cardinality(Quotes(c, i)) # 1 THEN {}
  ELSE {q.price : q \in {q \in Quotes(c, i) : q.price > 0 /\ q.currency = Valuation}}

(* The prices supplied are those of the open positions, one for each.      *)

Marked(c, supplied) ==
  IF ~Projects(c) \/ supplied # Open(c) \/ \E i \in supplied : Marks(c, i) = {} THEN {}
  ELSE {[i \in Assets |-> IF i \in supplied
                          THEN Quantity(c, i) * (CHOOSE p \in Marks(c, i) : TRUE) ELSE 0]}

(* The owner says how much of each positive balance is investable; foreign *)
(* cash is not.                                                            *)
\* mutant: foreign cash may be invested
SelectionAnyCurrency(c, alloc) ==
  /\ DOMAIN alloc = {a \in DOMAIN Accounts : Balance(c, a) > 0}
  /\ \A a \in DOMAIN alloc : alloc[a] <= Balance(c, a)

SelectionOk(c, alloc) ==
  /\ DOMAIN alloc = {a \in DOMAIN Accounts : Balance(c, a) > 0}
  /\ \A a \in DOMAIN alloc :
       alloc[a] <= Balance(c, a) /\ (Accounts[a] # Valuation => alloc[a] = 0)

D3(c, supplied, alloc) ==
  {[ctx |-> c, values |-> v, cash |-> SumFunction(alloc), held |-> Open(c)] :
     v \in {v \in Marked(c, supplied) : SelectionOk(c, alloc)}}

-----------------------------------------------------------------------------
(* D4 and D5: one target and state over the held and the wanted, with the  *)
(* owner's word for what is not in both.                                   *)

Wanted(sleeves) == UNION {Candidates(s) : s \in sleeves}

TargetOf(sleeves) ==
  [i \in Assets |-> LET w(s) == s.weight * s.inst[i] IN MapThenSumSet(w, sleeves)]

\* mutant: bundles of any two contexts may be combined
AnchoredAnywhere(d2, d3) == TRUE

Anchored(d2, d3) == d2.ctx = d3.ctx

AuthorityOk(d2, d3, authority) ==
  /\ authority.zero = Wanted(d2.sleeves) \ d3.held
  /\ authority.exits = d3.held \ Wanted(d2.sleeves)

(* What is neither held nor wanted is not in the plan at all.              *)
Within(p, d2, d3) ==
  LET inPlan == Wanted(d2.sleeves) \cup d3.held
      only(drift) == [i \in Assets |-> IF i \in inPlan THEN drift[i] ELSE 0]
  IN  [trigger |-> only(p.trigger), destination |-> only(p.destination)]

Plan(d2, d3, authority, p) ==
  IF ~Anchored(d2, d3) \/ ~AuthorityOk(d2, d3, authority) THEN {}
  ELSE LET t == TargetOf(d2.sleeves)
           band == Within(p, d2, d3)
       IN  R(t, band, d3.values, d3.cash)!BandPlan(t, band)

(* The buys that a gate forbids.                                           *)

Hits(gate, t) ==
  /\ gate.capital \in {"PAUSED_PENDING_EVIDENCE", "QUARANTINED"}
  /\ t.stage # "SELL"
  /\ t.asset \in gate.affected

Decision(d1, d2, d3, authority, p) ==
  IF d1.ctx # d2.ctx THEN {}
  ELSE {[ctx |-> d2.ctx, trades |-> trades, d2 |-> d2, d3 |-> d3,
         blocked |-> {t \in Range(trades) : \E g \in d1.gates : Hits(g, t)}] :
        trades \in Plan(d2, d3, authority, p)}

(* Whatever a caller may put together: bundles of any contexts, and an     *)
(* authority given with the holdings of any context in mind.               *)
Allocations(c) ==
  LET positive == {a \in DOMAIN Accounts : Balance(c, a) > 0} IN
    {alloc \in [positive -> 0 .. Den] : \A a \in positive : alloc[a] \in {0, Balance(c, a)}}

Authorities(sleeves) ==
  {[zero |-> Wanted(sleeves) \ Open(c), exits |-> Open(c) \ Wanted(sleeves)] : c \in Contexts}

DecisionsOf(C) ==
  LET d1s == UNION {D1(c, Families) : c \in C}
      d3s == UNION {UNION {D3(c, x, alloc) : x \in SUBSET Assets, alloc \in Allocations(c)} : c \in C}
      d2s(s) == UNION {D2(c, s.sleeves) : c \in C}
      replays(s) == UNION {Decision(d1, d2, d3, w, s.policy) :
                             d1 \in d1s, d2 \in d2s(s), d3 \in d3s, w \in Authorities(s.sleeves)}
  IN  IF d1s = {} \/ d3s = {} THEN {} ELSE UNION {replays(s) : s \in Strategies}

Decisions == DecisionsOf(Contexts)

-----------------------------------------------------------------------------
Init == now = 0 /\ known = {}

Tick == now < MaxTime /\ now' = now + 1 /\ UNCHANGED known

Learn(f) ==
  /\ Cardinality(known) < MaxFacts
  /\ \A k \in known : [k EXCEPT !.time = None] # f
  /\ known' = known \cup {[f EXCEPT !.time = now]}
  /\ UNCHANGED now

Next == Tick \/ \E f \in Facts : Learn(f)

Spec == Init /\ [][Next]_vars

-----------------------------------------------------------------------------
(* Properties                                                              *)

TypeOK ==
  /\ now \in 0 .. MaxTime
  /\ \A k \in known : k.time \in 0 .. now
  /\ \A d \in Decisions : d.d3.values \in [Assets -> Nat] /\ d.d3.cash \in Nat
  /\ \A s \in Strategies : SumFunction(TargetOf(s.sleeves)) = Den

Past == {c \in Contexts : c.cutoff < now}

(* A replayed decision can be replayed: whatever becomes known after its   *)
(* cutoff, the same bundles give the same decision.                        *)
ReplaysAgree ==
  DecisionsOf(Past) \subseteq DecisionsOf(Past)'

(* All of a decision is of one moment: its holdings, prices, cash and      *)
(* candidates are those known at its own cutoff, and what it moves is      *)
(* exactly what the ledger held then.                                      *)
DecisionIsOfItsMoment ==
  \A d \in Decisions :
    /\ d.d3.held = Open(d.ctx)
    /\ \A i \in Assets : d.d3.values[i] > 0 <=> Quantity(d.ctx, i) > 0
    /\ \A i \in d.d3.held : \E q \in Of("QUOTE") :
         q.asset = i /\ q.date = d.ctx.date /\ q.time <= d.ctx.cutoff
         /\ d.d3.values[i] = q.price * Quantity(d.ctx, i)
    /\ \A t \in Range(d.trades) : t.stage = "SELL" =>
         t.notional <= Den * d.d3.values[t.asset]

(* No plan spends money that is not there: what it buys is paid by its     *)
(* sales and by cash of the valuation currency the ledger held then.       *)
BuysAreFunded ==
  \A d \in Decisions :
    LET spent(t) == IF t.stage = "SELL" THEN -t.notional ELSE t.notional
        balance(a) == Balance(d.ctx, a)
    IN  MapThenSumSet(spent, Range(d.trades)) <=
          Den * MapThenSumSet(balance, {a \in DOMAIN Accounts : Accounts[a] = Valuation})

(* What is bought could be held: a candidate of a universe that was in     *)
(* force and known, or a holding that is on its way out and still within   *)
(* its band.                                                               *)
BuysAreEligible ==
  \A d \in Decisions : \A t \in Range(d.trades) : t.stage # "SELL" =>
    \/ \E s \in d.d2.sleeves : \E u \in Of("UNIVERSE") :
         /\ u.list = s.class /\ t.asset \in u.members
         /\ u.time <= d.ctx.cutoff /\ U!InForce(u, d.ctx.date)
    \/ t.asset \in d.d3.held \ Wanted(d.d2.sleeves)

(* No buy slips past a gate: an instrument that the last judgement by the  *)
(* cutoff condemns, or leaves in doubt, has its buys blocked.              *)
CondemnedBuysAreBlocked ==
  \A d \in Decisions : \A t \in Range(d.trades) : t.stage # "SELL" =>
    \A f \in Families : t.asset \in Scope[f] =>
      \A j \in Judged(d.ctx, f) :
        j.judgement = None \/ G!Quarantines(j.judgement) => t \in d.blocked
=============================================================================
