------------------------------- MODULE Gpt2Int -------------------------------
(***************************************************************************)
(* The integer language model (golden/gpt2_int.py): requantization, the    *)
(* reciprocal square root, the softmax row and the forward pass over a     *)
(* window of tokens.  A matrix is a sequence of rows.  Widths, shifts and  *)
(* tables are constants, the code's values in the comments.                *)
(***************************************************************************)
EXTENDS Integers, Sequences, SequencesExt, FiniteSetsExt

CONSTANTS
  N_LAYER, N_HEAD, HD,
  SAT8, SAT15, SAT16,            \* 127, 16383, 32767
  MK_BITS, SH_MAX,               \* 15, 30
  RSQ_T, MANT, RSQ_SCALE,        \* table, from zero; 8 mantissa bits; scaled by 2^16
  V_BITS, NEWTON_BITS,           \* 31, 47
  MEAN_MUL, MEAN_SH, SQ_BITS, NORM_SH, GAMMA_SH,  \* 21845, 24, 26, 16, 20
  EXP_T, EXP_ZERO,               \* table, from zero; its index of 0, 128
  EXP_HALF, HALF_SH,             \* 33406, 15
  P_BITS,                        \* 14
  GELUD_T, GELU_ZERO, FRAC       \* table, from zero; its index of 0, 128; 3 bits

D_MODEL == N_HEAD * HD
Clip(x, lo, hi) == Max({lo, Min({x, hi})})
sat8(x) == Clip(x, -SAT8 - 1, SAT8)
sat15(x) == Clip(x, -SAT15 - 1, SAT15)
sat16(x) == Clip(x, -SAT16 - 1, SAT16)
Shr(x, k) == IF k >= 0 THEN x \div 2 ^ k ELSE x * 2 ^ (-k)
BitLength(x) == Min({b \in 0 .. 30 : x < 2 ^ b})
AbsOf(x) == IF x < 0 THEN -x ELSE x
SumSeq(s) == FoldLeft(LAMBDA t, x : t + x, 0, s)
\* The sequence of the values of f; TLC computes a concatenation's elements once.
Vec(f(_), count) == <<>> \o [k \in 1 .. count |-> f(k)]
Each(f(_), s) == Vec(LAMBDA k : f(s[k]), Len(s))

\* A quotient rounded to the nearest, a tie to the even one
RoundQuotient(a, b) ==
  LET q == a \div b
      r == 2 * (a % b)
  IN  IF r > b \/ (r = b /\ q % 2 = 1) THEN q + 1 ELSE q

\* A ratio num / den as a multiplier and a shift
mkq(num, den) ==
  LET enough(sh) == num * 2 ^ sh >= 2 ^ (MK_BITS - 1) * den \/ sh = SH_MAX
      sh == Min({k \in 0 .. SH_MAX : enough(k)}) - 1
  IN  IF num <= 0 THEN [m |-> 0, sh |-> 0]
      ELSE [m |-> Max({RoundQuotient(num * 2 ^ sh, den), 1}), sh |-> sh]
\* Every shift must be one that a product can be rounded for.
mkq_vec(ratios) ==
  LET qs == Each(LAMBDA r : mkq(r[1], r[2]), ratios)
  IN  [q |-> qs, ok |-> \A k \in DOMAIN qs : qs[k].sh \in 1 .. SH_MAX]
requant(acc, q) == (acc * q.m + 2 ^ (q.sh - 1)) \div 2 ^ q.sh
\* One multiplier and shift for each element
requant_vec(acc, qs) == Vec(LAMBDA k : requant(acc[k], qs[k]), Len(acc))
Dot(a, b) == FoldLeft(LAMBDA t, k : t + a[k] * b[k], 0, [k \in DOMAIN a |-> k])
Column(B, j) == [k \in DOMAIN B |-> B[k][j]]
imm(A, B) == Each(LAMBDA row : Vec(LAMBDA j : Dot(row, Column(B, j)), Len(B[1])), A)

\* W: a sequence of input rows; each output column has its own step.
quant_rows(W) ==
  LET top(j) == LET m == Max({AbsOf(W[k][j]) : k \in DOMAIN W}) IN IF m = 0 THEN SAT8 ELSE m
      q(x, j) == IF x < 0 THEN -RoundQuotient(-x * SAT8, top(j)) ELSE RoundQuotient(x * SAT8, top(j))
  IN  Each(LAMBDA row : Vec(LAMBDA j : sat8(q(row[j], j)), Len(row)), W)

(***************************************************************************)
(* Primitives                                                              *)
(***************************************************************************)

\* v is first brought below 2^V_BITS, then to a mantissa, both by even shifts; one
\* step of Newton's method refines the table's value against the whole of v.
Even(t) == IF t % 2 = 1 THEN t + 1 ELSE t
PreShift(v) == Even(Max({BitLength(v) - V_BITS, 0}))
MantShift(v) == Even(BitLength(v) - MANT)
Mantissa(v) == Min({Max({Shr(v, MantShift(v)), 1}), 2 ^ MANT - 1})
Seed(v) == [r |-> RSQ_T[Mantissa(v) - 1], k |-> RSQ_SCALE + MantShift(v) \div 2]
Newton(v, s) ==
  LET se   == Max({0, 2 * s.k - NEWTON_BITS})
      diff == 3 * 2 ^ (2 * s.k) - v * s.r * s.r
  IN  [r |-> (s.r * (diff \div 2 ^ se)) \div 2 ^ (2 * s.k + 1 - se), k |-> s.k]
Refined(u, back) ==
  LET s == Newton(u, Seed(u)) IN [r |-> s.r, k |-> s.k + back \div 2]
int_rsqrt(v) == Refined(Shr(v, PreShift(v)), PreShift(v))

\* One token's row; ln: gq and bq
Mean(x) == (SumSeq(x) * MEAN_MUL) \div 2 ^ MEAN_SH
Centred(x, mean) == Each(LAMBDA v : v - mean, x)
SquareShift(d) == Max({0, BitLength(Max({AbsOf(d[k]) : k \in DOMAIN d})) - SQ_BITS})
Squares(ds) == Max({Dot(ds, ds), 1})
Scaled(d, s0, q) == Each(LAMBDA v : Shr(v * q.r, q.k + s0 - NORM_SH), d)
Affine(n, ln) ==
  Vec(LAMBDA c : sat15(((n[c] * ln.gq[c] + 2 ^ (GAMMA_SH - 1)) \div 2 ^ GAMMA_SH) + ln.bq[c]), Len(n))
NormRow(d, s0, ln) == Affine(Scaled(d, s0, int_rsqrt(Squares(Each(LAMBDA v : Shr(v, s0), d)))), ln)
CentredRow(d, ln) == NormRow(d, SquareShift(d), ln)
LayerNormRow(x, ln) == CentredRow(Centred(x, Mean(x)), ln)
int_layernorm(x, ln) == Each(LAMBDA row : LayerNormRow(row, ln), x)

\* A score's difference to the largest, in half steps of the table
Halves(s, top) == Clip(s - top, 1 - 2 * EXP_ZERO, 0)
Exponential(v) ==
  LET x == EXP_T[(v \div 2) + EXP_ZERO] IN IF v % 2 = 1 THEN (x * EXP_HALF) \div 2 ^ HALF_SH ELSE x
Shares(e, total) == Each(LAMBDA v : Min({(v * 2 ^ P_BITS) \div Max({total, 1}), 2 ^ P_BITS - 1}), e)
Normalised(e) == Shares(e, SumSeq(e))
SoftmaxBelow(scores, top) == Normalised(Each(LAMBDA s : Exponential(Halves(s, top)), scores))
int_softmax_row(scores) == SoftmaxBelow(scores, Max(ToSet(scores)))

\* A rectifier and a bounded difference, interpolated in its table
Index(i) == Clip(i, -GELU_ZERO, GELU_ZERO - 1)
Bend(g, i) ==
  GELUD_T[i + GELU_ZERO] * 2 ^ FRAC
    + (GELUD_T[Index(i + 1) + GELU_ZERO] - GELUD_T[i + GELU_ZERO]) * (g % 2 ^ FRAC)
Gelu(g) == Max({g, 0}) + ((Bend(g, Index(g \div 2 ^ FRAC)) + 2 ^ FRAC) \div 2 ^ (FRAC + 1))

(***************************************************************************)
(* The forward pass.  m: emb [w, q], wpe, layers, lnf, head [w, q]; a      *)
(* linear map has w, b and q, one pair q of multiplier and shift a row.    *)
(***************************************************************************)

Linear(h, lin) ==
  Each(LAMBDA row : requant_vec(Vec(LAMBDA k : row[k] + lin.b[k], Len(row)), lin.q), imm(h, lin.w))
Plus(x, y) == Vec(LAMBDA t : Vec(LAMBDA c : x[t][c] + y[t][c], Len(x[t])), Len(x))
Embedding(m, ids) ==
  LET at(t, c) == requant(m.emb.w[ids[t]][c], m.emb.q[ids[t]]) + m.wpe[t][c]
  IN  Vec(LAMBDA t : Vec(LAMBDA c : at(t, c), D_MODEL), Len(ids))

\* A head's part of a row: which of query, key and value, and its channels
Part(row, which, hd) == SubSeq(row, which * D_MODEL + (hd - 1) * HD + 1, which * D_MODEL + hd * HD)
\* (mutant) The mask begins one position late.
MaskLate(qkv, layer, hd, t) ==
  Vec(LAMBDA u : IF u > t + 1 THEN -SAT16 - 1
                 ELSE sat16(requant(Dot(Part(qkv[t], 0, hd), Part(qkv[u], 1, hd)), layer.s[hd])),
      Len(qkv))
\* A position's scores against all positions, the later ones masked
Scores(qkv, layer, hd, t) ==
  Vec(LAMBDA u : IF u > t THEN -SAT16 - 1
                 ELSE sat16(requant(Dot(Part(qkv[t], 0, hd), Part(qkv[u], 1, hd)), layer.s[hd])),
      Len(qkv))
Weighed(p, qkv, layer, hd) ==
  Vec(LAMBDA c : sat15(requant(Dot(p, Each(LAMBDA row : Part(row, 2, hd)[c], qkv)),
                               layer.o[(hd - 1) * HD + c])), HD)
HeadOut(qkv, layer, hd, t) == Weighed(int_softmax_row(Scores(qkv, layer, hd, t)), qkv, layer, hd)
Attention(qkv, layer) ==
  Vec(LAMBDA t : FlattenSeq(Vec(LAMBDA hd : HeadOut(qkv, layer, hd, t), N_HEAD)), Len(qkv))

SatLinear(f(_), h, lin) == Each(LAMBDA row : Each(f, row), Linear(h, lin))
Activated(g16, layer) == Each(LAMBDA row : Each(sat15, requant_vec(Each(Gelu, row), layer.g)), g16)
Mlp(x, layer) ==
  Plus(x, Linear(Activated(SatLinear(sat16, int_layernorm(x, layer.ln2), layer.cfc), layer), layer.mproj))
Attended(x, layer) ==
  Plus(x, Linear(Attention(SatLinear(sat8, int_layernorm(x, layer.ln1), layer.qkv), layer), layer.cproj))
Layer(x, layer) == Mlp(Attended(x, layer), layer)
Logits(m, x) == Each(LAMBDA row : requant_vec(row, m.head.q), imm(int_layernorm(x, m.lnf), m.head.w))
forward_int(m, ids) == Logits(m, FoldLeft(Layer, Embedding(m, ids), m.layers))

\* The first of the largest
argmax(row) == Min({k \in DOMAIN row : \A j \in DOMAIN row : row[j] <= row[k]})
greedy(m, ids, n) ==
  FoldLeft(LAMBDA s, k : Append(s, argmax(Last(forward_int(m, s)))), ids, [k \in 1 .. n |-> k])

\* The tokens of n that the measure scores, each with the first of its chunk, from zero
ppl_int(n, window) ==
  LET starts   == SelectSeq([k \in 1 .. n |-> k - 1], LAMBDA s : s < n - 1 /\ s % window = 0)
      chunk(s) == Min({window, n - s})
      short    == {k \in DOMAIN starts : chunk(starts[k]) < 2}
      taken    == IF short = {} THEN starts ELSE SubSeq(starts, 1, Min(short) - 1)
  IN  FlattenSeq([k \in DOMAIN taken |-> [x \in 1 .. chunk(taken[k]) - 1 |-> <<taken[k] + x, taken[k]>>]])
==============================================================================
