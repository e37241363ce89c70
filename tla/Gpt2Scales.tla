------------------------------ MODULE Gpt2Scales ------------------------------
(***************************************************************************)
(* What the integers of the language model stand for (golden/gpt2_int.py:  *)
(* calibration, the folded weights, the frozen constants and the steps of  *)
(* the forward pass).  An integer is a real number times its factor; a     *)
(* factor is a product of powers of the calibrated ranges, of the weights' *)
(* own steps and of a few numbers, written as the exponent of each.        *)
(***************************************************************************)
EXTENDS Integers, Sequences, FiniteSets, SequencesExt, FiniteSetsExt

CONSTANTS N_LAYER, N_HEAD, HD, VOCAB,
          ROOT_HD              \* the scores are divided by 2^ROOT_HD, 3 in the code

D_MODEL == N_HEAD * HD
FF      == 4 * D_MODEL

(***************************************************************************)
(* Factors                                                                 *)
(***************************************************************************)

Exponent(f, s) == IF s \in DOMAIN f THEN f[s] ELSE 0
Product(f, g, sign) ==
  LET e(s) == Exponent(f, s) + sign * Exponent(g, s)
  IN  [s \in {t \in DOMAIN f \union DOMAIN g : e(t) # 0} |-> e(s)] @@ <<>>
\* The sequence of the values of f; TLC computes a concatenation's elements once.
Vec(n, f(_)) == <<>> \o [c \in 1 .. n |-> f(c)]
Each(f(_), v) == Vec(Len(v), LAMBDA c : f(v[c]))
f \otimes g == Product(f, g, 1)
f \oslash g == Product(f, g, -1)

Symbol(s) == [t \in {s} |-> 1]
One       == [t \in {} |-> 0]
Two(k)    == One \otimes [t \in {<<"two">>} |-> k]
Steps8    == Symbol(<<"127">>)
\* 2^16 by the root of D_MODEL
LNC       == Two(16) \oslash Symbol(<<"root">>)
RS        == Two(16)
Steps15   == Steps8 \otimes Two(7)            \* 16256
\* What is not one factor is a factor that nothing else can cancel.
Clash     == Symbol(<<"clash">>)
Common(S) == IF Cardinality(S) = 1 THEN CHOOSE f \in S : TRUE ELSE Clash

(***************************************************************************)
(* Calibration                                                             *)
(***************************************************************************)

\* The ranges of a layer: one for each head, one for each channel
_calibrate(li) ==
  LET measured(name, n) == Vec(n, LAMBDA c : Symbol(<<name, li, c>>))
  IN  [ln1_c |-> measured("ln1_c", D_MODEL), q |-> measured("q", N_HEAD), k |-> measured("k", N_HEAD),
       v_c |-> measured("v_c", D_MODEL), attnout_c |-> measured("attnout_c", D_MODEL),
       ln2_c |-> measured("ln2_c", D_MODEL), gelu_c |-> measured("gelu_c", FF),
       lnf_c |-> measured("lnf_c", D_MODEL)]

Larger(a, b) == [c \in DOMAIN b |-> Max({a[c], b[c]})]
\* The ranges of several windows, as numbers: the largest of each
Merged(agg, w) ==
  [k \in DOMAIN w |-> IF k = "resid" /\ k \notin DOMAIN agg THEN Larger([c \in DOMAIN w[k] |-> 0], w[k])
                      ELSE IF k \in DOMAIN agg THEN Larger(agg[k], w[k]) ELSE w[k]]
aggregate(windows) ==
  LET agg == FoldLeft(Merged, <<>>, windows)
  IN  [agg EXCEPT !["resid_max"] = << Max(ToSet(agg["resid"])) >>]

(***************************************************************************)
(* Weights and constants                                                   *)
(***************************************************************************)

u(range) == Each(LAMBDA r : r \oslash Steps8, range)

\* A channel's unit goes into the weights before each row of them is divided by its step.
fold_quant(key, li, u_in, n) ==
  LET srow == Vec(n, LAMBDA r : Symbol(<<key, li, r>>))
  IN  [w |-> Each(LAMBDA unit : Each(LAMBDA step : unit \oslash step, srow), u_in), s |-> srow]
_quantize_weights(sc, li) ==
  [c_attn |-> fold_quant("c_attn", li, u(sc.ln1_c), 3 * D_MODEL),
   c_proj |-> fold_quant("c_proj", li, u(sc.attnout_c), D_MODEL),
   c_fc   |-> fold_quant("c_fc", li, u(sc.ln2_c), FF),
   m_proj |-> fold_quant("m_proj", li, u(sc.gelu_c), D_MODEL)]
emb_weights      == fold_quant("emb", 0, Vec(D_MODEL, LAMBDA c : One), VOCAB)
head_weights(sc) == fold_quant("head", 0, u(sc.lnf_c), VOCAB)

ln_const(range) ==
  [gq |-> Each(LAMBDA r : (Steps15 \otimes Two(20)) \oslash (r \otimes LNC), range),
   bq |-> Each(LAMBDA r : Steps15 \oslash r, range)]
\* The bias in steps of the accumulator, and the ratio to the next unit
lin_const(weights, u_out) ==
  LET srow == Each(LAMBDA s : s \oslash Two(7), weights.s)
  IN  [w |-> weights.w, b |-> Each(LAMBDA s : One \oslash s, srow),
       q |-> Vec(Len(u_out), LAMBDA r : srow[r] \oslash u_out[r])]

Repeat(v) == Vec(D_MODEL, LAMBDA c : v[1 + (c - 1) \div HD])
_freeze(sc, q) ==
  LET full(f, n) == Vec(n, LAMBDA c : f)
  IN  [ln1   |-> ln_const(sc.ln1_c),
       qkv   |-> lin_const(q.c_attn, Repeat(u(sc.q)) \o Repeat(u(sc.k)) \o u(sc.v_c)),
       s     |-> Vec(N_HEAD, LAMBDA h : (u(sc.q)[h] \otimes u(sc.k)[h]) \otimes (Two(5) \oslash Two(ROOT_HD))),
       o     |-> Vec(D_MODEL, LAMBDA c : (u(sc.v_c)[c] \oslash Two(14)) \oslash (u(sc.attnout_c)[c] \oslash Two(7))),
       cproj |-> lin_const(q.c_proj, full(One \oslash RS, D_MODEL)),
       ln2   |-> ln_const(sc.ln2_c),
       cfc   |-> lin_const(q.c_fc, full(Two(-8), FF)),
       g     |-> Each(LAMBDA unit : Two(-8) \oslash (unit \oslash Two(7)), u(sc.gelu_c)),
       mproj |-> lin_const(q.m_proj, full(One \oslash RS, D_MODEL))]
emb_const           == Each(LAMBDA s : s \otimes RS, emb_weights.s)
head_const(weights) == Each(LAMBDA s : (s \oslash Two(7)) \otimes Two(8), weights.s)

(***************************************************************************)
(* The factors of the forward pass, one for each channel                   *)
(***************************************************************************)

\* The residual's own factor is lost, if all of its channels have the same.
LayerNorm(x, ln) ==
  LET normed == Two(16) \oslash Symbol(<<"root">>)
      at(c)  == Common({(normed \otimes ln.gq[c]) \oslash Two(20), ln.bq[c]})
  IN  Vec(Len(x), LAMBDA c : IF Cardinality(ToSet(x)) = 1 THEN at(c) ELSE Clash)
Accumulated(h, w, r) == {h[c] \otimes w[c][r] : c \in DOMAIN h}
Linear(h, lin) ==
  Vec(Len(lin.q), LAMBDA r : Common(Accumulated(h, lin.w, r) \union {lin.b[r]}) \otimes lin.q[r])
Plus(x, y) == Vec(Len(x), LAMBDA c : Common({x[c], y[c]}))
\* The exponential's table is in half steps of a sixteenth, the weights of 2^14.
Softmax(score) == IF score = Two(5) THEN Two(14) ELSE Clash
Score(qkv, z, h) ==
  Common({qkv[c] \otimes qkv[D_MODEL + c] : c \in (h - 1) * HD + 1 .. h * HD}) \otimes (z.s[h] \otimes Two(ROOT_HD))
Attention(qkv, z) ==
  LET p == Vec(N_HEAD, LAMBDA h : Softmax(Score(qkv, z, h)))
  IN  Vec(D_MODEL, LAMBDA c : (Repeat(p)[c] \otimes qkv[2 * D_MODEL + c]) \otimes z.o[c])
\* The rectifier's table is for numbers of eight fractional bits.
Gelu(g16, z) == Vec(Len(g16), LAMBDA c : (IF g16[c] = Two(8) THEN Two(8) ELSE Clash) \otimes z.g[c])

\* A layer, step by step: what each interface's integers carry
Normed1(i, z)   == [ln1 |-> LayerNorm(i.x, z.ln1)] @@ i
Asked(i, z)     == [qkv |-> Linear(i.ln1, z.qkv)] @@ i
Attended(i, z)  == [o |-> Attention(i.qkv, z)] @@ i
Added1(i, z)    == [x |-> Plus(i.x, Linear(i.o, z.cproj))] @@ i
Normed2(i, z)   == [ln2 |-> LayerNorm(i.x, z.ln2)] @@ i
Spread(i, z)    == [g16 |-> Linear(i.ln2, z.cfc)] @@ i
Activated(i, z) == [g8 |-> Gelu(i.g16, z)] @@ i
Added2(i, z)    == [x |-> Plus(i.x, Linear(i.g8, z.mproj))] @@ i
Layer(i, z) ==
  Added2(Activated(Spread(Normed2(Added1(Attended(Asked(Normed1(i, z), z), z), z), z), z), z), z)
Frozen(li) == _freeze(_calibrate(li), _quantize_weights(_calibrate(li), li))
Embedded ==
  Vec(D_MODEL, LAMBDA c : Common({emb_weights.w[c][r] \otimes emb_const[r] : r \in 1 .. VOCAB} \union {RS}))
After(n) == FoldLeft(LAMBDA i, li : Layer(i, Frozen(li)), [x |-> Embedded], [k \in 1 .. n |-> k])
LogitsOf(h, weights) ==
  Vec(VOCAB, LAMBDA r : Common(Accumulated(h, weights.w, r)) \otimes head_const(weights)[r])
forward_factors ==
  LogitsOf(LayerNorm(After(N_LAYER).x, ln_const(_calibrate(0).lnf_c)), head_weights(_calibrate(0)))
===============================================================================
