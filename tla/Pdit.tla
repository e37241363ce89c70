--------------------------------- MODULE Pdit ---------------------------------
(***************************************************************************)
(* The two samplers of a symbol out of K that the design study compares,   *)
(* and the distributions it computes for them in closed form               *)
(* (golden/pdit.py).  A distribution is the number of random words that    *)
(* give each symbol, so nothing is rounded.  Symbols count from zero.      *)
(***************************************************************************)
EXTENDS Integers, FiniteSets, FiniteSetsExt

CONSTANTS K, LUT_N, UNIFORMS,  \* symbols, table entries, values of the scan's word
          EXP_LUT, GUMBEL_LUT  \* tables, from zero

Symbols == 0 .. K - 1
Z_MAX_RAW == LUT_N - 1
Abs(x) == IF x < 0 THEN -x ELSE x
Top(z) == Max({z[k] : k \in Symbols})
AddUp(Op(_), S) == MapThenSumSet(Op, S)

\* Half units to units, halves away from zero, saturated
HalfAway(x) ==
  LET mag == Min({(Abs(x) + 1) \div 2, Z_MAX_RAW}) IN IF x < 0 THEN -mag ELSE mag
quantize_z(halves) == [k \in Symbols |-> HalfAway(halves[k])]
z_from_acc(acc, beta) == HalfAway(acc * beta)

\* Design A: the first symbol whose cumulated weight exceeds the threshold
Weights(z) == [k \in Symbols |-> EXP_LUT[Min({Top(z) - z[k], LUT_N - 1})]]
Cum(w, k) == AddUp(LAMBDA j : w[j], 0 .. k)
Total(w) == Cum(w, K - 1)
Threshold(w, u) == (u * Total(w)) \div UNIFORMS
Beyond(z, u) == {k \in Symbols : Cum(Weights(z), k) > Threshold(Weights(z), u)}
sample_symbol(z, u) == Min(Beyond(z, u))
\* The least word that lies past symbol k
ScanBound(w, k) ==
  IF k < 0 THEN 0 ELSE Min({-((-(Cum(w, k) * UNIFORMS)) \div Total(w)), UNIFORMS})
exact_cdf_scan(z) ==
  [k \in Symbols |-> ScanBound(Weights(z), k) - ScanBound(Weights(z), k - 1)]

\* Design B: the largest sum of field and noise, the lowest such symbol; u: an
\* index into the table for each symbol.
gumbel_symbol(z, u) ==
  LET score(k) == z[k] + GUMBEL_LUT[u[k]]
  IN  Min({k \in Symbols : \A j \in Symbols : score(j) <= score(k)})
\* How many noises put symbol k at score v, and below it
Pmf(z, k, v) == Cardinality({u \in DOMAIN GUMBEL_LUT : z[k] + GUMBEL_LUT[u] = v})
Cdf(z, k, v) == Cardinality({u \in DOMAIN GUMBEL_LUT : z[k] + GUMBEL_LUT[u] <= v})
Scores(z) == {z[k] + GUMBEL_LUT[u] : k \in Symbols, u \in DOMAIN GUMBEL_LUT}
\* (mutant) Every other symbol may reach the score.
TiesCountedTwice(z) ==
  LET others(k, v) == FoldSet(LAMBDA j, n : n * Cdf(z, j, v), 1, Symbols \ {k})
  IN  [k \in Symbols |-> AddUp(LAMBDA v : Pmf(z, k, v) * others(k, v), Scores(z))]
\* The lower symbols stay below the score, the higher ones may reach it.
exact_gumbel_max(z) ==
  LET reached(j, k, v) == IF j < k THEN Cdf(z, j, v) - Pmf(z, j, v) ELSE Cdf(z, j, v)
      others(k, v) == FoldSet(LAMBDA j, n : n * reached(j, k, v), 1, Symbols \ {k})
  IN  [k \in Symbols |-> AddUp(LAMBDA v : Pmf(z, k, v) * others(k, v), Scores(z))]
===============================================================================
