------------------------- MODULE UserViewPosterior --------------------------
(* The Bayesian overlay of the owner's return views on a prior: which views*)
(* a set may hold, how confidence becomes noise, and the posterior mean and*)
(* uncertainty (allocation_user_views.py,                                  *)
(* allocation_user_view_posterior.py).  Numbers are exact fractions, where *)
(* the code rounds to 50 digits; the square roots of the Joseph form only  *)
(* ever meet themselves, so a column is kept with its weight instead.      *)
EXTENDS ExactRationals, FiniteSets

CONSTANTS
  N,            \* instruments
  Means,        \* prior expected returns, sequences of N fractions
  Uncertainties,\* prior uncertainties, symmetric N by N fractions
  Loadings,     \* loadings an owner may write, sequences of N fractions
  Targets,      \* fractions
  Confidences,  \* fractions
  MaxViews,     \* bound on the views of a set
  Refused

VARIABLES
  prior,        \* [mean, uncertainty]
  views         \* the views stated so far, by canonical order

vars == <<prior, views>>

Assets == 1 .. N
Row(matrix, i) == matrix[i]
NonZero(w) == {i \in Assets : w[i] # Zero}
Positives(w) == {i \in Assets : Less(Zero, w[i])}
Negatives(w) == {i \in Assets : Less(w[i], Zero)}
Leg(w, part) == Total([i \in Assets |-> IF i \in part THEN w[i] ELSE Zero])
First(set) == CHOOSE i \in set : \A j \in set : i <= j

KindOf(w) == IF Cardinality(NonZero(w)) = 1 THEN "absolute" ELSE "relative"

\* UserReturnView: one loading of 1, or two legs of 1 and -1 whose first
\* loading is positive; a confidence above 0 and at most 1.
ViewOk(v) ==
  /\ Less(Zero, v.confidence) /\ AtMost(v.confidence, One)
  /\ NonZero(v.loadings) # {}
  /\ IF v.kind = "absolute"
     THEN /\ Cardinality(NonZero(v.loadings)) = 1
          /\ v.loadings[First(NonZero(v.loadings))] = One
          /\ AtMost(Whole(-1), v.target)
     ELSE /\ Leg(v.loadings, Positives(v.loadings)) = One
          /\ Leg(v.loadings, Negatives(v.loadings)) = Whole(-1)
          /\ First(NonZero(v.loadings)) \in Positives(v.loadings)

Before(x, y) ==
  \E i \in Assets : Less(x[i], y[i]) /\ \A j \in 1 .. i - 1 : x[j] = y[j]

\* _view_key: absolute views before relative ones, then by their loadings.
ViewBefore(v, w) ==
  \/ v.kind = "absolute" /\ w.kind = "relative"
  \/ v.kind = w.kind /\ Before(v.loadings, w.loadings)

\* UserReturnViewSet: no linear combination is believed twice.
NoDuplicates(set) == \A v, w \in set : v # w => v.loadings # w.loadings

\* build_user_return_view_set: the views in their canonical order.
Ordered(set) ==
  CHOOSE s \in [1 .. Cardinality(set) -> set] :
    \A i, j \in 1 .. Cardinality(set) : i < j => ViewBefore(s[i], s[j])

-----------------------------------------------------------------------------
(* Linear algebra, as the code orders it.                                  *)

Numbers == Seq(Int \X Int)
Matrices == Seq(Numbers)

\* The n numbers f[1], ..., f[n], worked out once.
Vector(f) == f \o <<>>

MatVec(matrix, x) == Vector([i \in 1 .. Len(matrix) |-> Dot(Row(matrix, i), x)])

\* _projected_uncertainty: the quadratic form p U p'.
Projected(u, p) == Dot(p, MatVec(u, p))

\* _factor_spd (and _require_positive_definite): unit lower triangular L and
\* diagonal D, or Refused at a pivot that is not positive.
Factor[matrix \in Matrices] ==
  LET size == Len(matrix)
      upTo[k \in 0 .. size] ==
        IF k = 0
        THEN [lower |-> Vector([i \in 1 .. size |-> Vector([j \in 1 .. size |-> IF i = j THEN One ELSE Zero])]),
              diagonal |-> <<>>]
        ELSE LET before == upTo[k - 1]
                 l == before.lower
                 d == before.diagonal
                 used(i) == Total([j \in 1 .. k - 1 |-> Times(Times(l[i][j], l[k][j]), d[j])])
                 pivot == Minus(matrix[k][k], used(k))
             IN  IF before = Refused THEN Refused
                 ELSE IF AtMost(pivot, Zero) THEN Refused
                 ELSE [lower |-> Vector([i \in 1 .. size |-> Vector([j \in 1 .. size |->
                                   IF j = k /\ i > k
                                   THEN Over(Minus(matrix[i][k], used(i)), pivot)
                                   ELSE l[i][j]])]),
                       diagonal |-> Append(d, pivot)]
  IN  upTo[size]

\* _solve_ldl: forward, scale, backward.
Solve[factor \in [lower : Matrices, diagonal : Numbers], rhs \in Numbers] ==
  LET l == factor.lower
      size == Len(rhs)
      forward[i \in 1 .. size] ==
        Minus(rhs[i], Total([j \in 1 .. i - 1 |-> Times(l[i][j], forward[j])]))
      backward[i \in 1 .. size] ==
        Minus(Over(forward[i], factor.diagonal[i]),
              Total([j \in 1 .. size - i |-> Times(l[i + j][i], backward[i + j])]))
  IN  Vector([i \in 1 .. size |-> backward[i]])

\* view_noise_variances: (1 - c) / c of the projected uncertainty.
Noise(u, s) ==
  Vector([k \in DOMAIN s |->
     Times(Over(Minus(One, s[k].confidence), s[k].confidence), Projected(u, s[k].loadings))])

Gain(u, s) ==
  Vector([i \in Assets |-> Vector([k \in DOMAIN s |-> Dot(Row(u, i), s[k].loadings)])])

\* _innovation_matrix: S = P U P' + Omega.
Innovation(u, s, noise) ==
  LET gain == Gain(u, s)
  IN  Vector([k \in DOMAIN s |-> Vector([l \in DOMAIN s |->
         Plus(Total([i \in Assets |-> Times(s[k].loadings[i], gain[i][l])]),
              IF k = l THEN noise[k] ELSE Zero)])])

\* _innovations: the target less what the prior says of the view.
Surprise(mean, s) == Vector([k \in DOMAIN s |-> Minus(s[k].target, Dot(s[k].loadings, mean))])

\* _exact_gram: F F', with the weight of every column.
Gram[columns \in Matrices, weights \in Numbers] ==
  Vector([i \in Assets |-> Vector([j \in Assets |->
     Total([c \in DOMAIN weights |-> Times(Times(columns[i][c], columns[j][c]), weights[c])])])])

\* mutant: the noise columns of the Joseph form are left out
JosephWithoutNoise(u, s, kalman, noise) ==
  LET prior_ == Factor[u]
      adjust == Vector([i \in Assets |-> Vector([j \in Assets |->
                   Minus(IF i = j THEN One ELSE Zero,
                         Total([k \in DOMAIN s |-> Times(kalman[i][k], s[k].loadings[j])]))])])
      moved == Vector([i \in Assets |-> Vector([j \in Assets |->
                   Total([a \in Assets |-> Times(adjust[i][a], prior_.lower[a][j])])])])
  IN  Gram[moved, prior_.diagonal]

\* _joseph_factor: (I - K P) L sqrt(D) beside K sqrt(Omega).
Joseph(u, s, kalman, noise) ==
  LET prior_ == Factor[u]
      adjust == Vector([i \in Assets |-> Vector([j \in Assets |->
                   Minus(IF i = j THEN One ELSE Zero,
                         Total([k \in DOMAIN s |-> Times(kalman[i][k], s[k].loadings[j])]))])])
      moved == Vector([i \in Assets |-> Vector([j \in Assets |->
                   Total([a \in Assets |-> Times(adjust[i][a], prior_.lower[a][j])])])])
  IN  Gram[Vector([i \in Assets |-> moved[i] \o kalman[i]]), prior_.diagonal \o noise]

Overlay(p, s, noise) ==
  LET u == p.uncertainty
      factor == Factor[Innovation(u, s, noise)]
      gain == Gain(u, s)
      y == Solve[factor, Surprise(p.mean, s)]
      kalman == Vector([i \in Assets |-> Solve[factor, gain[i]]])
      mean == Vector([i \in Assets |-> Plus(p.mean[i], Dot(gain[i], y))])
  IN  IF factor = Refused THEN Refused
      ELSE IF \E i \in Assets : Less(mean[i], Whole(-1)) THEN Refused
      ELSE [mean |-> mean, uncertainty |-> Joseph(u, s, kalman, noise)]

\* _canonical_posterior.
Posterior(p, set) == LET s == Ordered(set) IN Overlay(p, s, Noise(p.uncertainty, s))

\* ExpectedReturnPrior: no return below -1, and a positive definite matrix.
PriorOk(p) ==
  /\ \A i \in Assets : AtMost(Whole(-1), p.mean[i])
  /\ Factor[p.uncertainty] # Refused

-----------------------------------------------------------------------------
Init ==
  /\ prior \in {p \in [mean : Means, uncertainty : Uncertainties] : PriorOk(p)}
  /\ views = {}

\* The owner states a view; one the contracts refuse leaves things as they are.
State ==
  \E w \in Loadings, q \in Targets, c \in Confidences :
    LET v == [kind |-> KindOf(w), loadings |-> w, target |-> q, confidence |-> c]
    IN  /\ Cardinality(views) < MaxViews
        /\ ViewOk(v)
        /\ NoDuplicates(views \cup {v})
        /\ v \notin views
        /\ views' = views \cup {v}
        /\ UNCHANGED prior

\* And takes one back.
TakeBack == \E v \in views : views' = views \ {v} /\ UNCHANGED prior

Next == State \/ TakeBack

Spec == Init /\ [][Next]_vars

-----------------------------------------------------------------------------
TypeOK ==
  /\ \A i \in Assets : AtMost(Whole(-1), prior.mean[i])
  /\ \A i, j \in Assets :
       i < j => Less(Times(prior.uncertainty[i][j], prior.uncertainty[j][i]),
                     Times(prior.uncertainty[i][i], prior.uncertainty[j][j]))
  /\ \A v \in views : Less(Zero, v.confidence) /\ AtMost(v.confidence, One)

Result == IF views = {} THEN Refused ELSE Posterior(prior, views)
Said(v, mean) == Dot(v.loadings, mean)

\* The textbook update by a single view, without the Joseph form: the mean
\* m + g (q - p m) / s and the uncertainty U - g g' / s.
Believed(p, v, noise) ==
  LET g == MatVec(p.uncertainty, v.loadings)
      s == Plus(Projected(p.uncertainty, v.loadings), noise)
      step == Over(Minus(v.target, Said(v, p.mean)), s)
  IN  [mean |-> Vector([i \in Assets |-> Plus(p.mean[i], Times(g[i], step))]),
       uncertainty |->
         Vector([i \in Assets |-> Vector([j \in Assets |->
           Minus(p.uncertainty[i][j], Over(Times(g[i], g[j]), s))])])]

\* One view moves what the prior says of it towards its target by exactly the
\* confidence the owner gave: the whole way at 1, half the way at 1/2
\* (allocation_user_views.py:289).
ConfidenceIsTheShare(r) ==
  Cardinality(views) = 1 =>
    \A v \in views :
      Said(v, r.mean) =
        Plus(Said(v, prior.mean), Times(v.confidence, Minus(v.target, Said(v, prior.mean))))

\* A view held with full confidence is satisfied exactly and leaves no
\* uncertainty along it, whatever the other views say
\* (allocation_user_view_posterior.py:257).
CertainViewsHold(r) ==
  \A v \in views :
    v.confidence = One =>
      /\ Said(v, r.mean) = v.target
      /\ Projected(r.uncertainty, v.loadings) = Zero

\* Two views believed together are the same as one believed after the other,
\* in either order, with the noise each was given against the prior
\* (allocation_user_view_posterior.py:213, :250).
BeliefsCompose(r) ==
  Cardinality(views) = 2 =>
    \A v, w \in views :
      v # w =>
        LET noise == Noise(prior.uncertainty, <<v, w>>)
        IN  Believed(Believed(prior, v, noise[1]), w, noise[2]) = r

\* No belief is counted twice and none is turned round: of a combination and
\* its opposite, at most one is in a set (allocation_user_views.py:218, :256).
NoBeliefTwice ==
  \A v, w \in views :
    v # w => \E i \in Assets : v.loadings[i] # w.loadings[i] /\
             \E j \in Assets : v.loadings[j] # Minus(Zero, w.loadings[j])

\* A posterior is no less certain than the prior in any stated direction, and
\* what is left is never negative (the Joseph form, :250, :348).
NeverLessCertain(r) ==
  \A w \in Loadings :
    /\ AtMost(Zero, Projected(r.uncertainty, w))
    /\ AtMost(Projected(r.uncertainty, w), Projected(prior.uncertainty, w))

\* What a posterior says of the views it was made of.
PosteriorsKeepTheViews ==
  \A r \in {Result} \ {Refused} :
    /\ ConfidenceIsTheShare(r) /\ CertainViewsHold(r)
    /\ BeliefsCompose(r) /\ NeverLessCertain(r)

\* With some doubt in every view, no consistent set of them is refused for its
\* geometry: only a return below -1 is (docs/USER_VIEW_OVERLAY.md:204).
DoubtIsNeverSingular ==
  views # {} /\ (\A v \in views : v.confidence # One) =>
    LET s == Ordered(views)
    IN  Factor[Innovation(prior.uncertainty, s, Noise(prior.uncertainty, s))] # Refused

=============================================================================
