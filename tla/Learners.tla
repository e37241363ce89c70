------------------------------- MODULE Learners -------------------------------
(***************************************************************************)
(* Persistent contrastive divergence: the fabric's trainer with its        *)
(* quantized couplings (golden/pcd.py), the software lane without them     *)
(* (golden/grammar.py), and the annealer (golden/gibbs_grid.py).  Masters  *)
(* are whole numbers, QUANTUM to a step of the couplings; a draw is a      *)
(* number below ONE; a mean is its sum, and the difference of a mean over  *)
(* the data and one over the chains is in parts of both counts, which are  *)
(* taken to be the same in all steps of a trainer.                         *)
(***************************************************************************)
EXTENDS GibbsSchedule, FiniteSetsExt

CONSTANTS ONE, Prob(_),    \* the chance of a one, by the field
          QUANTUM, TOP,    \* a step of the couplings; the largest of them
          RATE, CLIP,      \* of the plain update
          Adam(_)          \* the optimizer: the update for a parameter's gradients so far

Clipped(v, top) == Max({-top, Min({v, top})})
RoundEven(m, q) ==
  LET low == m \div q
      rest == 2 * (m % q)
  IN  IF rest < q \/ (rest = q /\ low % 2 = 0) THEN low ELSE low + 1
quantize_s163(m) == Clipped(RoundEven(m, QUANTUM), TOP)

Draw(u, field) == IF u < Prob(field) THEN 1 ELSE 0
\* sites: those of a colour
Colours(g) == [c \in 1 .. NumColors(g) |-> {i \in GraphSites(g) : coloring(g)[i] = c - 1}]
\* The edges of either trainer, the lower site first
edges(g) ==
  FlattenSeq([k \in 1 .. g.n |->
    LET up == SelectSeq(g.adj[k - 1], LAMBDA e : e.nbr > k - 1)
    IN  [x \in DOMAIN up |-> <<k - 1, up[x].nbr>>]])

(***************************************************************************)
(* The trainer.  grads: each parameter's gradients, oldest first, which is *)
(* what the optimizer's two averages and its step count stand for.         *)
(***************************************************************************)

PcdTrainer(g, vis, chains, adam) ==
  [g |-> g, vis |-> vis, chains |-> chains, adam |-> adam,
   J |-> [i \in GraphSites(g) |-> [j \in GraphSites(g) |-> 0]], h |-> [i \in GraphSites(g) |-> 0],
   gJ |-> [k \in DOMAIN edges(g) |-> <<>>], gh |-> [i \in GraphSites(g) |-> <<>>]]

\* What is sampled with: the quantized couplings as the numbers they stand for
quantized(t) ==
  [J |-> [i \in GraphSites(t.g) |-> [j \in GraphSites(t.g) |-> QUANTUM * quantize_s163(t.J[i][j])]],
   h |-> [i \in GraphSites(t.g) |-> QUANTUM * quantize_s163(t.h[i])]]

DenseField(p, s, i) == p.h[i] + MapThenSumSet(LAMBDA j : p.J[j][i] * s[j], DOMAIN s)
\* A colour's unclamped sites are drawn together; draws: one for each site.
ColourDraw(p, s, sites, draws) ==
  [i \in DOMAIN s |-> IF i \in sites THEN Draw(draws[i], DenseField(p, s, i)) ELSE s[i]]
_sweep(g, p, s, clamp, sweeps) ==
  FoldLeft(LAMBDA v, draws :
             FoldLeft(LAMBDA x, sites : ColourDraw(p, x, sites \ clamp, draws), v, Colours(g)),
           s, sweeps)

SumOf(rows, f(_)) == FoldLeft(LAMBDA t, s : t + f(s), 0, rows)
_moments(g, rows) ==
  [m1 |-> [i \in GraphSites(g) |-> SumOf(rows, LAMBDA s : s[i])],
   m2 |-> [k \in DOMAIN edges(g) |-> SumOf(rows, LAMBDA s : s[edges(g)[k][1]] * s[edges(g)[k][2]])]]

\* (mutant) Only the upper half of the couplings is written.
OneSided(J, e, u) == [J EXCEPT ![e[1]] = [@ EXCEPT ![e[2]] = @ + u]]
\* Both halves of the couplings take the upper one's new value.
BothSided(J, e, u) ==
  LET new == J[e[1]][e[2]] + u
  IN  [J EXCEPT ![e[1]] = [@ EXCEPT ![e[2]] = new], ![e[2]] = [@ EXCEPT ![e[1]] = new]]
apply_update(t, w, d) ==
  LET B  == w.count
      C  == d.count
      gh == [i \in GraphSites(t.g) |-> Clipped(w.m1[i] * C - d.m1[i] * B, CLIP)]
      gJ == [k \in DOMAIN edges(t.g) |-> Clipped(w.m2[k] * C - d.m2[k] * B, CLIP)]
      t1 == IF t.adam THEN [t EXCEPT !.gh = [i \in DOMAIN @ |-> Append(@[i], gh[i])],
                                     !.gJ = [k \in DOMAIN @ |-> Append(@[k], gJ[k])]]
            ELSE t
      uh(i) == IF t.adam THEN Adam(t1.gh[i]) ELSE RATE * gh[i]
      uJ(k) == IF t.adam THEN Adam(t1.gJ[k]) ELSE RATE * gJ[k]
  IN  [t1 EXCEPT !.h = [i \in DOMAIN @ |-> @[i] + uh(i)],
                 !.J = FoldLeft(LAMBDA J, k : BothSided(J, edges(t.g)[k], uJ(k)), @,
                                [k \in DOMAIN edges(t.g) |-> k])]

\* batch: values of the visible sites; begin: what each row of the wake phase begins
\* with elsewhere; wake[b] and dream[c]: the draws of each sweep of a row.
Rows(batch, vis, begin) ==
  [b \in DOMAIN batch |-> [i \in DOMAIN begin[b] |-> IF i \in vis THEN batch[b][i] ELSE begin[b][i]]]
WakeRows(t, batch, begin, wake) ==
  LET rows == Rows(batch, t.vis, begin)
  IN  IF t.vis = GraphSites(t.g) THEN rows
      ELSE [b \in DOMAIN rows |-> _sweep(t.g, quantized(t), rows[b], t.vis, wake[b])]
DreamRows(t, dream) ==
  [c \in DOMAIN t.chains |-> _sweep(t.g, quantized(t), t.chains[c], {}, dream[c])]
Sums(g, rows) == [count |-> Len(rows)] @@ _moments(g, rows)
step(t, batch, begin, wake, dream) ==
  LET chains == DreamRows(t, dream)
  IN  apply_update([t EXCEPT !.chains = chains],
                   Sums(t.g, WakeRows(t, batch, begin, wake)), Sums(t.g, chains))

(***************************************************************************)
(* The software lane: a coupling for each edge, one site after the other   *)
(* in an order drawn anew for each sweep.                                  *)
(***************************************************************************)

FloatPcd(g, chains) ==
  [g |-> g, chains |-> chains, J |-> [e \in ToSet(edges(g)) |-> 0], h |-> [i \in GraphSites(g) |-> 0],
   gJ |-> [e \in ToSet(edges(g)) |-> <<>>], gh |-> [i \in GraphSites(g) |-> <<>>]]

EdgeOf(i, j) == <<Min({i, j}), Max({i, j})>>
EdgeField(f, s, i) == FoldLeft(LAMBDA t, e : t + f.J[EdgeOf(i, e.nbr)] * s[e.nbr], f.h[i], f.g.adj[i])
\* order: a permutation of the sites
FloatSweep(f, s, order, draws) ==
  FoldLeft(LAMBDA v, i : [v EXCEPT ![i] = Draw(draws[i], EdgeField(f, v, i))], s, order)

\* The wake phase draws the sites that are not visible alone.  wake and dream: for
\* each sweep the order all rows share, and each row's draws.
FloatStep(f, n_vis, batch, begin, wake, dream) ==
  LET swept(rows, plan) ==
        [b \in DOMAIN rows |-> FoldLeft(LAMBDA v, x : FloatSweep(f, v, x.order, x.draws[b]), rows[b], plan)]
      awake  == swept(Rows(batch, 0 .. n_vis - 1, begin), wake)
      chains == swept(f.chains, dream)
      B == Len(awake)
      C == Len(chains)
      gh(i) == SumOf(awake, LAMBDA s : s[i]) * C - SumOf(chains, LAMBDA s : s[i]) * B
      gJ(e) == SumOf(awake, LAMBDA s : s[e[1]] * s[e[2]]) * C
                 - SumOf(chains, LAMBDA s : s[e[1]] * s[e[2]]) * B
      hs == [i \in DOMAIN f.gh |-> Append(f.gh[i], gh(i))]
      Js == [e \in DOMAIN f.gJ |-> Append(f.gJ[e], gJ(e))]
  IN  [f EXCEPT !.chains = chains, !.gh = hs, !.gJ = Js,
                !.h = [i \in DOMAIN @ |-> @[i] + Adam(hs[i])],
                !.J = [e \in DOMAIN @ |-> @[e] + Adam(Js[e])]]

(***************************************************************************)
(* The annealer.  A site's slots beyond its degree weigh nothing.          *)
(***************************************************************************)

AnnealField(g, m, i, sign, bipolar) ==
  FoldLeft(LAMBDA t, e : t + (sign * e.j * IF bipolar THEN (2 * m[e.nbr]) - 1 ELSE m[e.nbr]), 0, g.adj[i])
\* sweeps: for each sweep its beta and a draw for each site
AnnealSweep(g, m, x, sign, bipolar) ==
  FoldLeft(LAMBDA v, sites :
             [i \in DOMAIN v |-> IF i \in sites
                                 THEN Draw(x.draws[i], x.beta * AnnealField(g, v, i, sign, bipolar)) ELSE v[i]],
           m, Colours(g))
\* The cut of one restart
anneal_science(g, m, sweeps, sign, bipolar) ==
  cut_value(g, FoldLeft(LAMBDA v, x : AnnealSweep(g, v, x, sign, bipolar), m, sweeps))
===============================================================================
