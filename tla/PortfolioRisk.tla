--------------------------- MODULE PortfolioRisk ----------------------------
(* Two measures of a portfolio's risk.  The conditional value at risk is   *)
(* taken over the months of a return panel, as the minimum of the          *)
(* Rockafellar-Uryasev objective over the losses that occurred             *)
(* (allocation_cvar.py).  The hierarchical risk parity benchmark turns     *)
(* correlations into distances, distances into a single-linkage tree, the  *)
(* tree into an order of the assets, and the order, by halving it, into    *)
(* weights (allocation_hrp.py).  Numbers are exact fractions and square    *)
(* roots are taken to Scale parts of one; the code keeps 50 digits.        *)
EXTENDS ExactRationals, FiniteSets, TLC

CONSTANTS
  Returns,      \* a month's simple returns, sequences of fractions
  Portfolios,   \* long-only weights, sequences of fractions that sum to 1
  Confidences,  \* fractions between 0 and 1
  MaxMonths,    \* bound on the panel
  N,            \* assets
  Deviations,   \* standard deviations of the assets, sequences of whole numbers
  Correlations, \* of two assets, in parts of Parts
  Parts,
  Scale,        \* digits kept of a square root
  MaxPairs      \* bound on the pairs of assets that are correlated

VARIABLES
  panel,        \* the months' returns, in order
  deviation,    \* of every asset
  correlation   \* of every pair, <<i, j>> with i < j

vars == <<panel, deviation, correlation>>

-----------------------------------------------------------------------------
(* The tail of a portfolio's losses.                                       *)

\* CVarScenarioSeries: one loss for every month.
Losses(w) == [t \in DOMAIN panel |-> Minus(Zero, Dot(w, panel[t]))] \o <<>>

Excess(loss, threshold) ==
  LET over == Minus(loss, threshold) IN IF Less(Zero, over) THEN over ELSE Zero

\* _objective: the threshold, and the mean excess over it of the tail.
Objective(losses, confidence, threshold) ==
  LET scale == Times(Whole(Len(losses)), Minus(One, confidence))
  IN  Plus(threshold, Over(Total([t \in DOMAIN losses |-> Excess(losses[t], threshold)]), scale))

LossSet(losses) == {losses[t] : t \in DOMAIN losses}

\* Every loss that occurred, with its objective.
Candidates(losses, confidence) ==
  {[threshold |-> z, cvar |-> Objective(losses, confidence, z)] : z \in LossSet(losses)}

\* _canonical_minimum: over the losses, the smallest threshold of the best.
Minimum(losses, confidence) ==
  LET candidates == Candidates(losses, confidence)
  IN  CHOOSE m \in candidates :
        \A n \in candidates :
          IF Less(n.threshold, m.threshold) THEN Less(m.cvar, n.cvar) ELSE AtMost(m.cvar, n.cvar)

\* HistoricalPortfolioCVar.
Cvar(w, confidence) == Minimum(Losses(w), confidence)

-----------------------------------------------------------------------------
(* Hierarchical risk parity.                                               *)

Assets == 1 .. N
Pairs == {<<i, j>> \in Assets \X Assets : i < j}
Rho(i, j) == IF i = j THEN Parts ELSE IF i < j THEN correlation[<<i, j>>] ELSE correlation[<<j, i>>]
Covariance(i, j) == Frac(Rho(i, j) * deviation[i] * deviation[j], Parts)

\* The largest whole number whose square is at most n.
Root(n) ==
  LET search[lo \in 0 .. n, hi \in 0 .. n + 1] ==
        IF hi - lo <= 1 THEN lo
        ELSE LET mid == (lo + hi) \div 2
             IN  IF mid * mid <= n THEN search[mid, hi] ELSE search[lo, mid]
  IN  search[0, IF n < 4000 THEN n + 1 ELSE 4001]

\* _correlation_distance: sqrt((1 - rho) / 2).
Distance(i, j) == Root((Scale * Scale * (Parts - Rho(i, j))) \div (2 * Parts))

\* _distance_of_distance, squared: only its order matters.
ProfileDistance(i, j) ==
  LET square(k) == (Distance(k, i) - Distance(k, j)) * (Distance(k, i) - Distance(k, j))
      upTo[k \in 0 .. N] == IF k = 0 THEN 0 ELSE upTo[k - 1] + square(k)
  IN  upTo[N]

\* Single linkage: a merged cluster is as near as its nearer part.
Nearer(a, b) == IF a <= b THEN a ELSE b

\* The nearest pair, then the smaller first and the smaller second cluster.
Best(active, pair) ==
  CHOOSE p \in DOMAIN pair : p[1] \in active /\ p[2] \in active /\
    \A q \in DOMAIN pair : q[1] \in active /\ q[2] \in active =>
      \/ pair[p] < pair[q]
      \/ pair[p] = pair[q] /\ (p[1] < q[1] \/ (p[1] = q[1] /\ p[2] <= q[2]))

\* _single_linkage: N - 1 merges; a merge is cluster N + its number.
Linkage ==
  LET after[m \in 0 .. N - 1] ==
        IF m = 0
        THEN [active |-> Assets, merges |-> <<>>,
              pair |-> [p \in Pairs |-> ProfileDistance(p[1], p[2])] @@ <<>>]
        ELSE LET was == after[m - 1]
                 p == Best(was.active, was.pair)
                 others == was.active \ {p[1], p[2]}
                 to(o, c) == was.pair[IF o < c THEN <<o, c>> ELSE <<c, o>>]
             IN  [active |-> others \cup {N + m},
                  merges |-> Append(was.merges, [left |-> p[1], right |-> p[2], at |-> was.pair[p]]),
                  pair |-> was.pair @@
                             [q \in others \X {N + m} |->
                                Nearer(to(q[1], p[1]), to(q[1], p[2]))]]
  IN  after[N - 1].merges

\* _quasi_diagonal_order: left subtree, then right subtree.
Order(merges) ==
  LET leaves[c \in 1 .. N + Len(merges)] ==
        IF c <= N THEN <<c>>
        ELSE leaves[merges[c - N].left] \o leaves[merges[c - N].right]
  IN  leaves[N + Len(merges)]

InverseVariance[members \in Seq(Assets)] ==
  LET raw == [a \in 1 .. Len(members) |-> Over(One, Covariance(members[a], members[a]))] \o <<>>
      total == Total(raw)
  IN  [a \in 1 .. Len(members) |-> Over(raw[a], total)] \o <<>>

\* mutant: the members' covariances are left out
OwnVariances(members) ==
  LET q == InverseVariance[members]
  IN  Total([a \in 1 .. Len(members) |-> Times(Times(q[a], q[a]), Covariance(members[a], members[a]))])

\* _cluster_variance: of the inverse-variance portfolio of its members.
ClusterVariance(members) ==
  LET q == InverseVariance[members]
  IN  Total([a \in 1 .. Len(members) |-> Total([b \in 1 .. Len(members) |->
        Times(Times(q[a], q[b]), Covariance(members[a], members[b]))])])

Half(group) == Len(group) \div 2

\* The left half's share: the other half's part of the variance.
LeftShare(left, right) == Over(right, Plus(left, right))

\* _recursive_bisection: weights along the order, or none when a half has no
\* variance.
Bisected[group \in Seq(Assets)] ==
  LET left == SubSeq(group, 1, Half(group))
      right == SubSeq(group, Half(group) + 1, Len(group))
      l == ClusterVariance(left)
      r == ClusterVariance(right)
      alpha == LeftShare(l, r)
      below == Bisected[left]
      beside == Bisected[right]
  IN  IF Len(group) < 2 THEN <<One>>
      ELSE IF AtMost(l, Zero) \/ AtMost(r, Zero) \/ below = <<>> \/ beside = <<>> THEN <<>>
      ELSE [k \in 1 .. Len(group) |->
              IF k <= Half(group) THEN Times(alpha, below[k])
              ELSE Times(Minus(One, alpha), beside[k - Half(group)])] \o <<>>

NoWeights(reason) == [reason |-> reason, order |-> <<>>, weights |-> <<>>]

\* _canonical_hrp: [order, weights], the weights along the order.  Fractions sum
\* to exactly one, so that closing them to one, as the code does, leaves them.
Hrp ==
  LET order == Order(Linkage)
      weights == Bisected[order]
  IN  CASE \E i \in Assets : deviation[i] = 0 -> NoWeights("zero_variance")
        [] OTHER ->
             IF \E p \in Pairs : correlation[p] \notin -Parts .. Parts
             THEN NoWeights("invalid_correlation_geometry")
             ELSE IF weights = <<>> THEN NoWeights("degenerate_cluster_variance")
             ELSE [reason |-> "available", order |-> order, weights |-> weights]

-----------------------------------------------------------------------------
(* The covariances a return panel can have: every principal minor of the   *)
(* correlations is non-negative.                                           *)

Det3(a, b, c) == Parts * (Parts * Parts - c * c) - a * (a * Parts - b * c) + b * (a * c - Parts * b)
Semidefinite ==
  /\ \A i, j, k \in Assets : i < j /\ j < k => Det3(Rho(i, j), Rho(i, k), Rho(j, k)) >= 0
  /\ N = 4 =>
       LET r(i, j) == Rho(i, j)
           minor(c) ==  \* of the matrix without row 1 and column c
             LET s == IF c = 1 THEN <<2, 3, 4>> ELSE IF c = 2 THEN <<1, 3, 4>>
                      ELSE IF c = 3 THEN <<1, 2, 4>> ELSE <<1, 2, 3>>
             IN    r(2, s[1]) * (r(3, s[2]) * r(4, s[3]) - r(3, s[3]) * r(4, s[2]))
                 - r(2, s[2]) * (r(3, s[1]) * r(4, s[3]) - r(3, s[3]) * r(4, s[1]))
                 + r(2, s[3]) * (r(3, s[1]) * r(4, s[2]) - r(3, s[2]) * r(4, s[1]))
       IN  r(1, 1) * minor(1) - r(1, 2) * minor(2) + r(1, 3) * minor(3) - r(1, 4) * minor(4) >= 0

-----------------------------------------------------------------------------
Init ==
  /\ panel \in {<<r>> : r \in Returns}
  /\ deviation \in Deviations
  /\ correlation = [p \in Pairs |-> 0]

\* A month closes.
Close ==
  /\ Len(panel) < MaxMonths
  /\ \E r \in Returns : panel' = Append(panel, r)
  /\ UNCHANGED <<deviation, correlation>>

\* Two assets come to move together, or apart.
Drift ==
  \E p \in Pairs, rho \in Correlations :
    /\ Cardinality({q \in Pairs : correlation[q] # 0}) < MaxPairs
    /\ correlation[p] = 0
    /\ correlation' = [correlation EXCEPT ![p] = rho]
    /\ UNCHANGED <<panel, deviation>>
    /\ Semidefinite'

Next == Close \/ Drift

Spec == Init /\ [][Next]_vars

-----------------------------------------------------------------------------
Worst(losses, n) ==
  \* the sum of the n largest losses
  LET sum[k \in 0 .. n, left \in SUBSET DOMAIN losses] ==
        IF k = 0 THEN Zero
        ELSE LET t == CHOOSE t \in left : \A s \in left : AtMost(losses[s], losses[t])
             IN  Plus(losses[t], sum[k - 1, left \ {t}])
  IN  sum[n, DOMAIN losses]

\* The minimum is the mean loss of the worst 1 - c of the months, the month
\* at the boundary counted in part (allocation_cvar.py:191, :222).
CvarIsTheTailMean ==
  \A w \in Portfolios, c \in Confidences :
    LET losses == Losses(w)
        tail == Times(Whole(Len(losses)), Minus(One, c))
        full == tail[1] \div tail[2]
        part == Minus(tail, Whole(full))
        boundary == IF part = Zero THEN Zero
                    ELSE Times(part, Minus(Worst(losses, full + 1), Worst(losses, full)))
    IN  Cvar(w, c).cvar = Over(Plus(Worst(losses, full), boundary), tail)

\* The threshold is the value at risk: the smallest loss that at least the
\* share c of the months does not exceed (allocation_cvar.py:225, :236).
ThresholdIsTheQuantile ==
  \A w \in Portfolios, c \in Confidences :
    LET losses == Losses(w)
        z == Cvar(w, c).threshold
        upTo(x) == Cardinality({t \in DOMAIN losses : AtMost(losses[t], x)})
        wanted == Times(c, Whole(Len(losses)))
    IN  /\ AtMost(wanted, Whole(upTo(z)))
        /\ \A d \in LossSet(losses) : Less(d, z) => Less(Whole(upTo(d)), wanted)

\* A mix of two portfolios is never riskier than the mix of their risks, which
\* the optimizer's convex programme relies on (docs/CVAR_OPTIMIZATION.md:69).
MixingNeverHurts ==
  \A v, w \in Portfolios, c \in Confidences :
    v # w =>
    LET half == Frac(1, 2)
        mix == [i \in DOMAIN v |-> Times(half, Plus(v[i], w[i]))] \o <<>>
    IN  AtMost(Cvar(mix, c).cvar, Times(half, Plus(Cvar(v, c).cvar, Cvar(w, c).cvar)))

\* More confidence never means less risk (allocation_cvar.py:198).
ConfidenceNeverLowersRisk ==
  \A w \in Portfolios, c, d \in Confidences :
    Less(c, d) =>
      LET less == Cvar(w, c)
          more == Cvar(w, d)
      IN  AtMost(less.cvar, more.cvar) /\ AtMost(less.threshold, more.threshold)

Members(merges, c) ==
  LET of[x \in 1 .. N + Len(merges)] ==
        IF x <= N THEN {x} ELSE of[merges[x - N].left] \cup of[merges[x - N].right]
  IN  of[c]

\* Every cluster of the tree is contiguous in the order, so that neighbours
\* in the order are neighbours in the tree (allocation_hrp.py:172).
ClustersStayTogether ==
  LET merges == Linkage
      order == Order(merges)
      at(i) == CHOOSE k \in DOMAIN order : order[k] = i
  IN  \A c \in N + 1 .. N + Len(merges) :
        LET places == {at(i) : i \in Members(merges, c)}
        IN  \A a, b \in places : \A k \in a .. b : k \in places

\* Two assets first share a cluster at the least, over the paths from one to
\* the other, of the longest step: single linkage (allocation_hrp.py:140).
LinkageIsMinimax ==
  LET merges == Linkage
      d == [p \in Assets \X Assets |-> ProfileDistance(p[1], p[2])] @@ <<>>
      bigger(a, b) == IF a >= b THEN a ELSE b
      least[k \in 0 .. N, i \in Assets, j \in Assets] ==
        IF k = 0 THEN d[<<i, j>>]
        ELSE LET direct == least[k - 1, i, j]
                 round == bigger(least[k - 1, i, k], least[k - 1, k, j])
             IN  IF direct <= round THEN direct ELSE round
      joined(i, j) ==
        CHOOSE m \in 1 .. Len(merges) :
          /\ {i, j} \subseteq Members(merges, N + m)
          /\ \A n \in 1 .. m - 1 : ~({i, j} \subseteq Members(merges, N + n))
  IN  \A p \in Pairs : merges[joined(p[1], p[2])].at = least[N, p[1], p[2]]

\* Assets that move independently get their inverse-variance share, whatever
\* the tree made of their equal distances (allocation_hrp.py:195, :239).
IndependentIsInverseVariance(h) ==
  (\A p \in Pairs : correlation[p] = 0) =>
    h.weights = InverseVariance[h.order]

\* The first halving gives each half the weight the other half's variance
\* calls for, with the covariances inside a half (allocation_hrp.py:208, :239).
HalvesBalance(h) ==
  LET half == Half(h.order)
      left == SubSeq(h.order, 1, half)
      right == SubSeq(h.order, half + 1, N)
      risk(members) ==
        LET inverse == Total([a \in 1 .. Len(members) |-> Over(One, Covariance(members[a], members[a]))])
            share(a) == Over(Over(One, Covariance(members[a], members[a])), inverse)
        IN  Total([a \in 1 .. Len(members) |-> Total([b \in 1 .. Len(members) |->
              Times(Times(share(a), share(b)), Covariance(members[a], members[b]))])])
  IN  Times(Total(SubSeq(h.weights, 1, half)), risk(left))
        = Times(Total(SubSeq(h.weights, half + 1, N)), risk(right))

\* The weights share the risk as the tree says.
WeightsShareTheRisk ==
  \A h \in {Hrp} :
    h.reason = "available" => IndependentIsInverseVariance(h) /\ HalvesBalance(h)
=============================================================================
