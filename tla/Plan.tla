--------------------------------- MODULE Plan ---------------------------------
(***************************************************************************)
(* The plans of the sampling gates (gates/s7_isa.py, gates/s8_isa.py): one *)
(* sequence of operations builds the table that the kernel replays on the  *)
(* device (sw/kernels/s7_run.c) and what its drains must give; and the     *)
(* graphs the plans are made of.  A machine is its golden record and the   *)
(* number of blocks of words it has drawn since it was seeded.  Behind the *)
(* plans are the checks that the golden models make of themselves.         *)
(***************************************************************************)
EXTENDS QsiteGolden

CONSTANTS Block(_, _),            \* the words of the n-th block, by the sites' arity
          ANCHOR_SITES, J_TOP     \* sites of the anchor, 12; the largest coupling, 511

Machine0 == [g |-> Golden0, drawn |-> 0]
configured(x, words, fl) ==
  [g |-> IF words[3].q = 2 THEN pconfig(x.g, words, fl.sections, fl.reset)
         ELSE q_pconfig(x.g, words, fl.sections, fl.reset),
   drawn |-> IF "SEEDS" \in fl.sections THEN 0 ELSE x.drawn]
\* A chunk takes the next block, and the end of a sweep is counted.
stepped(x, st, record) ==
  LET words == Block(x.drawn, x.g.q)
      done  == [x.g EXCEPT !.sweeps_done = @ + 1]
      Count(g) == IF g.q = 2 THEN _accumulate(g) ELSE q_accumulate(g)
      Draw(g) == IF g.q = 2 THEN _sweep_chunk(g, st.beta, st.chunk, words)
                 ELSE q_sweep_chunk(g, st.beta, st.chunk, words)
  IN  IF st.chunk = <<>> THEN [x EXCEPT !.g = IF record THEN Count(done) ELSE done]
      ELSE [x EXCEPT !.g = Draw(x.g), !.drawn = @ + 1]
sampled(x, cmd) ==
  LET start == [x EXCEPT !.g = StatsReset(x.g, cmd)]
  IN  FoldLeft(LAMBDA y, st : stepped(y, st, cmd.record), start, psample_steps(start.g, cmd))
drained(x, mode) == [x EXCEPT !.g = pdrain(x.g, mode)]

(***************************************************************************)
(* The plan.  A row is what the kernel reads: the operation, an address,   *)
(* two numbers and flags; an image's row has its words behind the address. *)
(***************************************************************************)

Plan0 == [gold |-> Machine0, rows |-> <<>>, checks |-> <<>>, first |-> TRUE]
Row(op, a, m, k, flags) == [op |-> op, a |-> a, m |-> m, k |-> k, flags |-> flags]

plan_pconfig(p, img) ==
  LET words == IF img.q = 2 THEN build_image(img) ELSE qsite_image(img)
      fl    == [sections |-> img.flags, reset |-> img.work_reset]
  IN  [p EXCEPT !.gold = configured(@, words, fl), !.rows = Append(@, Row("PCONFIG", words, Len(words), 0, fl))]

Command(m, k, flags) == [reset |-> flags.reset, record |-> flags.record, imm |-> flags.imm, t_m |-> m, t_k |-> k]
\* (mutant) Every sampling clears the counts.
AlwaysFirst(p, sweeps, beta, record, imm) ==
  LET fl == [reset |-> TRUE, record |-> record, imm |-> imm]
  IN  [p EXCEPT !.first = FALSE, !.gold = sampled(@, Command(sweeps, beta, fl)),
                !.rows = Append(@, Row("PSAMPLE", <<>>, sweeps, beta, fl))]
\* The first sampling of a plan clears the counts.
plan_psample(p, sweeps, beta, record, imm) ==
  LET fl == [reset |-> p.first, record |-> record, imm |-> imm]
  IN  [p EXCEPT !.first = FALSE, !.gold = sampled(@, Command(sweeps, beta, fl)),
                !.rows = Append(@, Row("PSAMPLE", <<>>, sweeps, beta, fl))]
psample_sched(p, record) == plan_psample(p, 0, 0, record, FALSE)

\* What is wanted is taken with the row, before anything later.
plan_pdrain(p, mode) ==
  [p EXCEPT !.checks = Append(@, pdrain_words(p.gold.g, mode)), !.gold = drained(@, mode),
            !.rows = Append(@, Row("PDRAIN", Len(p.checks) + 1, 0, 0, mode))]

\* A schedule sweep by sweep, the states drained after each
sweep_step(p, sched, record) ==
  LET betas == FlattenSeq([e \in DOMAIN sched |-> [k \in 1 .. sched[e].sweeps |-> sched[e].beta]])
  IN  FoldLeft(LAMBDA q, beta : plan_pdrain(plan_psample(q, 1, beta, record, TRUE), "STATE"), p, betas)

\* No covariance on sites of more than two values
drain_modes(p, record, work) ==
  LET modes == <<"STATE">>
               \o (IF record THEN IF p.gold.g.q = 2 THEN <<"MOMENTS", "COV">> ELSE <<"MOMENTS">> ELSE <<>>)
               \o (IF work THEN <<"WORK">> ELSE <<>>) \o <<"TELEMETRY">>
  IN  FoldLeft(plan_pdrain, p, modes)

\* Thread 0 of the kernel takes the rows in turn; out: what each buffer holds.
replayed(x, rows) ==
  FoldLeft(LAMBDA y, r :
             CASE r.op = "PCONFIG" -> [y EXCEPT !.dev = configured(@, r.a, r.flags)]
               [] r.op = "PSAMPLE" -> [y EXCEPT !.dev = sampled(@, Command(r.m, r.k, r.flags))]
               [] r.op = "PDRAIN"  -> [dev |-> drained(y.dev, r.flags),
                                       out |-> [b \in DOMAIN y.out \union {r.a} |->
                                                  IF b = r.a THEN pdrain_words(y.dev.g, r.flags) ELSE y.out[b]]],
           [dev |-> x, out |-> <<>>], rows)
\* The checks that fail
run(p, device) ==
  LET got == replayed(device, p.rows).out IN {k \in DOMAIN p.checks : got[k] # p.checks[k]}

(***************************************************************************)
(* Graphs                                                                  *)
(***************************************************************************)

torus(nx, ny, J, king) == torus_king(nx, ny, J, ~king)

\* Each hidden site, behind the visible ones, is tied to deg of them in turn.
bipartite(vis, hid, deg) ==
  FoldLeft(LAMBDA gr, x : add_edge(gr, vis + x \div deg, (x \div deg + (x % deg)) % vis,
                                   IF (x \div deg + (x % deg)) % 2 = 1 THEN 8 ELSE -8),
           Graph(vis + hid), [k \in 1 .. hid * deg |-> k - 1])

\* picks: pairs of sites with a coupling; a pair of one site, a pair that was there
\* and a site without a slot are passed over.
rand_qgraph(n, picks) ==
  LET Tie(gr, x) ==
        IF \/ x[1] = x[2]
           \/ x[2] \in Adjacent(gr, x[1])
           \/ Len(gr.adj[x[1]]) >= DEG_MAX \/ Len(gr.adj[x[2]]) >= DEG_MAX
        THEN gr ELSE add_edge(gr, x[1], x[2], x[3])
  IN  FoldLeft(Tie, Graph(n), picks)

\* A chain, its even sites before its odd ones
chain(n, jr) ==
  [slots |-> [i \in 0 .. n - 1 |->
     (IF i > 0 THEN << [nbr |-> i - 1, j |-> jr] >> ELSE <<>>)
     \o (IF i < n - 1 THEN << [nbr |-> i + 1, j |-> jr] >> ELSE <<>>)],
   order |-> [k \in 1 .. (n + 1) \div 2 |-> 2 * (k - 1)] \o [k \in 1 .. n \div 2 |-> 2 * k - 1],
   bounds |-> << [lo |-> 0, hi |-> (n + 1) \div 2], [lo |-> (n + 1) \div 2, hi |-> n] >>]

(***************************************************************************)
(* The models' own checks (self_check in golden/sampling_isa.py and        *)
(* golden/qsite_golden.py).  Each builds machines, drives them through a   *)
(* few operations and compares what they hold with a recount, another      *)
(* golden model or exact arithmetic.  What the code draws at random is an  *)
(* argument, and where it compares frequencies the shares are compared.    *)
(***************************************************************************)

Image(img) == IF img.q = 2 THEN build_image(img) ELSE qsite_image(img)
Loads(x, img) == configured(x, Image(img), [sections |-> img.flags, reset |-> FALSE])
Fresh(img) == Loads(Machine0, img)
Imm(reset, record, sweeps, beta) ==
  [reset |-> reset, record |-> record, imm |-> TRUE, t_m |-> sweeps, t_k |-> beta]
BySchedule(record) == [Imm(FALSE, record, 0, 0) EXCEPT !.imm = FALSE]

(***************************************************************************)
(* Graphs                                                                  *)
(***************************************************************************)

_torus(nx, ny, J, deg4) == torus_king(nx, ny, J, deg4)
\* A chain of n sites, the even ones before the odd ones; bias: by site
_mk_chain(n, bias, jr) ==
  LET beside(i) == SelectSeq(<<i - 1, i + 1>>, LAMBDA j : j \in 0 .. n - 1)
      half == (n + 1) \div 2
  IN  [rows |-> [i \in 0 .. n - 1 |-> [slots |-> [k \in DOMAIN beside(i) |-> [nbr |-> beside(i)[k], j |-> jr]],
                                       bias |-> bias[i]]],
       order |-> [k \in 1 .. n |-> IF k <= half THEN 2 * (k - 1) ELSE 2 * (k - half) - 1],
       bounds |-> << [lo |-> 0, hi |-> half], [lo |-> half, hi |-> n] >>]
ChainImage(n, q, bias, jr, clamp, state) ==
  LET c    == _mk_chain(n, bias, jr)
      free(b) == SelectSeq(SubSeq(c.order, b.lo + 1, b.hi), LAMBDA i : i \notin clamp)
      even == free(c.bounds[1])
      odd  == free(c.bounds[2])
  IN  [n |-> n, q |-> q, rows |-> c.rows, order |-> even \o odd,
       bounds |-> << [lo |-> 0, hi |-> Len(even)], [lo |-> Len(even), hi |-> Len(even) + Len(odd)] >>,
       n_colors |-> 2, n_replicas |-> 1, bipolar |-> FALSE, work_track |-> FALSE, work_reset |-> FALSE,
       state |-> state, flags |-> {"ROWS", "ORDER", "SEEDS", "STATE"}]

(***************************************************************************)
(* Sampling                                                                *)
(***************************************************************************)

\* The loaded schedule, and its entries as commands of their own
scheduled_as_commands(fresh, sched) ==
  LET each(x, e) == sampled(x, Imm(FALSE, FALSE, e.sweeps, e.beta))
  IN  sampled(fresh, BySchedule(FALSE)).g.s = FoldLeft(each, fresh, sched).g.s

\* The moments of a machine that is stopped after every sweep and counted by hand
Recount(fresh, sweeps, beta) ==
  LET counted(c, x) ==
        [x |-> x, cnt |-> c.cnt + 1, m1 |-> [i \in DOMAIN c.m1 |-> <<c.m1[i][1] + x.g.s[i]>>],
         m2 |-> [i \in DOMAIN c.m2 |-> [n \in Slots |->
                   c.m2[i][n] + IF x.g.slots[i][n].valid THEN x.g.s[i] * x.g.s[x.g.slots[i][n].nbr] ELSE 0]]]
      none == [x |-> fresh, cnt |-> 0, m1 |-> [i \in DOMAIN fresh.g.s |-> <<0>>],
               m2 |-> [i \in DOMAIN fresh.g.s |-> [n \in Slots |-> 0]]]
  IN  FoldLeft(LAMBDA c, k : counted(c, sampled(c.x, Imm(FALSE, FALSE, 1, beta))), none, [k \in 1 .. sweeps |-> k])
CountsAs(sc, by) == pdrain_words(sc.g, "MOMENTS") = <<by.cnt>> \o PerSite(by.m1, sc.g) \o PerSite(by.m2, sc.g)
\* The counts grow from one command to the next, until one clears them.
CountsOn(longer, sweeps, beta) ==
  longer.g.cnt = sweeps /\ sampled(longer, Imm(TRUE, TRUE, 1, beta)).g.cnt = 1
Recounted(sc, by, sweeps, beta) ==
  CountsAs(sc, by) /\ CountsOn(sampled(sc, Imm(FALSE, TRUE, 3, beta)), sweeps + 3, beta)
moments_recounted(fresh, sweeps, beta) ==
  Recounted(sampled(fresh, Imm(TRUE, TRUE, sweeps, beta)), Recount(fresh, sweeps, beta), sweeps, beta)

(***************************************************************************)
(* The anchor, by forced states: with every site clamped a recording sweep *)
(* counts the state that an image has just set.                            *)
(***************************************************************************)

An == INSTANCE FabricAnchor WITH n <- ANCHOR_SITES, R <- 1, DENSE <- ANCHOR_SITES

Matrix(g) ==
  [i \in An!Sites |-> [j \in An!Sites |->
     LET ks == {k \in Slots : g.slots[i][k].valid /\ g.slots[i][k].nbr = j}
     IN  IF ks = {} THEN 0 ELSE g.slots[i][Max(ks)].j]]
BiasOfSites(g) == [i \in An!Sites |-> g.bias[i][1]]
StateImage(img, st) == [img EXCEPT !.state = st, !.flags = {"STATE"}, !.n_colors = 0]
\* Both models, with nothing counted, and after the forced states
Begun(sc, held) ==
  [sc |-> sc, fab |-> An!reset_stats(An!reset_state(An!reset_work(
                        An!pconfig(An!Fabric(held), Matrix(sc.g), BiasOfSites(sc.g))), held))]
Forced(img, forced) ==
  LET held(t) == [r \in {0} |-> forced[t]]
      force(m, t) ==
        [sc  |-> sampled(Loads(m.sc, StateImage(img, forced[t])), Imm(t = 1, TRUE, 1, 1)),
         fab |-> An!Accumulate(An!reset_state(m.fab, held(t)))]
  IN  FoldLeft(force, Begun(Fresh(img), held(1)), [t \in DOMAIN forced |-> t])
Doubled(j) == Max({-J_TOP, Min({2 * j, J_TOP})})
Rewrite(img) ==
  [img EXCEPT !.flags = {"ROWS"}, !.n_colors = 0,
              !.rows = [i \in DOMAIN @ |-> [@[i] EXCEPT !.slots = [k \in DOMAIN @ |-> [@[k] EXCEPT !.j = Doubled(@)]]]]]
SameMoments(sc, fab, cov) ==
  LET at(i) == Halves(cov[i][i]) \o FlattenSeq([k \in Slots |->
                 Halves(IF sc.g.slots[i][k].valid THEN cov[i][sc.g.slots[i][k].nbr] ELSE 0)])
  IN  /\ sc.g.cnt = fab.cnt
      /\ \A i \in An!Sites : sc.g.m1[i][1] = fab.m1[i]
      /\ CovWords(sc.g) = <<fab.cnt>> \o FlattenSeq([k \in 1 .. ANCHOR_SITES |-> at(k - 1)])
SameWork(sc, fab) == sc.g.work[0] = An!pconfig(fab, Matrix(sc.g), BiasOfSites(sc.g)).work[0]
SameAnchor(m, img) ==
  SameMoments(m.sc, m.fab, An!Covariance(m.fab)) /\ SameWork(Loads(m.sc, Rewrite(img)), m.fab)
anchored(img, forced) == SameAnchor(Forced(img, forced), img)

(***************************************************************************)
(* Distributions                                                           *)
(***************************************************************************)

SpinStates(n) == [0 .. n - 1 -> {0, 1}]
\* A colour's sites are not neighbours, so their chances multiply.
ColorMatrix(g, beta, sites, st, ns) ==
  LET chance(i) == LET p == p17(_acc(g, i), beta) IN IF ns[i] = 1 THEN p ELSE ONE - p
  IN  IF \E i \in DOMAIN st : i \notin sites /\ ns[i] # st[i] THEN 0
      ELSE FoldSet(LAMBDA i, p : p * chance(i), 1, sites)
\* A sweep's transitions from st: for each result, a numerator over ONE by site
ring_kernel(g, beta, st) ==
  LET color(b) == ToSet(SubSeq(g.order, b.lo + 1, b.hi))
      spread(d, b) == [ns \in SpinStates(g.n) |->
         MapThenSumSet(LAMBDA x : IF d[x] = 0 THEN 0
                                  ELSE d[x] * ColorMatrix([g EXCEPT !.s = x], beta, color(b), x, ns),
                       SpinStates(g.n))]
  IN  FoldLeft(spread, [x \in SpinStates(g.n) |-> IF x = st THEN 1 ELSE 0], g.bounds)

\* A chain's marginals, forward and backward: w[v][a] is the weight of value a at
\* site v, K[v] that of equal values at v and the next; the common factors stay.
_chain_marginals(w, K, q) ==
  LET V == Len(w)
      Values == 0 .. q - 1
      pair(v, a, b) == IF a = b THEN K[v] ELSE 1
      fwd[v \in 1 .. V] ==
        IF v = 1 THEN w[1]
        ELSE [b \in Values |-> w[v][b] * MapThenSumSet(LAMBDA a : fwd[v - 1][a] * pair(v - 1, a, b), Values)]
      bwd[k \in 0 .. V - 1] ==
        IF k = 0 THEN [a \in Values |-> 1]
        ELSE [a \in Values |-> MapThenSumSet(LAMBDA b : pair(V - k, a, b) * w[V - k + 1][b] * bwd[k - 1][b], Values)]
  IN  [v \in 1 .. V |-> [a \in Values |-> fwd[v][a] * bwd[V - v][a]]]

(***************************************************************************)
(* Sites of more than two values                                           *)
(***************************************************************************)

\* How often a neighbour shows the site's value, recounted after every sweep
EqualNeighbours(fresh, sweeps, beta) ==
  LET same(x, i, n) == x.g.slots[i][n].valid /\ x.g.s[i] = x.g.s[x.g.slots[i][n].nbr]
      counted(c, x) ==
        [x |-> x, m2 |-> [i \in DOMAIN c.m2 |-> [n \in Slots |-> c.m2[i][n] + IF same(x, i, n) THEN 1 ELSE 0]]]
  IN  FoldLeft(LAMBDA c, k : counted(c, sampled(c.x, Imm(FALSE, TRUE, 1, beta))),
               [x |-> fresh, m2 |-> [i \in DOMAIN fresh.g.s |-> [n \in Slots |-> 0]]], [k \in 1 .. sweeps |-> k])
SameCounts(end, sweeps) == end.x.g.cnt = sweeps /\ end.x.g.m2 = end.m2
q_recounted(fresh, sweeps, beta) == SameCounts(EqualNeighbours(fresh, sweeps, beta), sweeps)
\* Sites left out of the order keep their values.
clamp_held(fresh, x, clamp) == \A i \in clamp : x.g.s[i] = fresh.g.s[i]
\* The farm's blocks: one for each chunk, a second one for eight values
blocks_drawn(x) == IF x.g.q = 8 THEN 2 * x.drawn ELSE x.drawn
double_advance(x, img, sweeps) ==
  LET chunks == FoldLeft(LAMBDA t, b : t + CeilDiv(b.hi - b.lo, P_LANES), 0, img.bounds) * sweeps
  IN  /\ blocks_drawn(x) = IF img.q = 8 THEN 2 * chunks ELSE chunks
      /\ \A i \in 0 .. img.n - 1 : x.g.s[i] \in 0 .. img.q - 1

\* A drain changes nothing but its own counter.
drains_pure(x) ==
  /\ \A mode \in IF x.g.q = 2 THEN q_drain_modes \union {"COV"} ELSE q_drain_modes :
       \A f \in DOMAIN x.g \ {"drain_words"} : drained(x, mode).g[f] = x.g[f]
  /\ Len(TelemetryWords(x.g)) = 12 /\ TelemetryWords(x.g)[9] = 0 /\ TelemetryWords(x.g)[10] = 0
===============================================================================
