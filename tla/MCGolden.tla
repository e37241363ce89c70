------------------------------- MODULE MCGolden -------------------------------
(***************************************************************************)
(* Trials of the golden models.  A trial picks one of them and an input,   *)
(* or takes one of the stateful ones through its operations; each property *)
(* compares what the code computes with a definition written from what the *)
(* result is for.                                                          *)
(***************************************************************************)
EXTENDS Integers, Sequences, FiniteSets, SequencesExt, FiniteSetsExt

CONSTANTS STREAMS, BLOCK,  \* streams and words of a block
          STEPS            \* operations on a stateful model

VARIABLE trial

At(seq) == [k \in 0 .. Len(seq) - 1 |-> seq[k + 1]]
Nothing == [on |-> "nothing"]
Init == trial = Nothing
Try(t) == trial = Nothing /\ trial' = t
Another == trial # Nothing /\ trial' = Nothing

(***************************************************************************)
(* Random words                                                            *)
(***************************************************************************)

Xo == INSTANCE Xoshiro WITH
       W <- 3, SHIFT <- 1, ROT <- 2, OUT_ROT <- 1, JUMP_LOG <- 3,
       GAMMA <- 5, MUL1 <- 3, MUL2 <- 5, MIX1 <- 2, MIX2 <- 1

TryStreams == \E seed \in 0 .. 7 : Try([on |-> "streams", seed |-> seed])

Advance(s) == FoldLeft(LAMBDA v, k : Xo!step_state(v), s, [k \in 1 .. 2 ^ 3 |-> k])
Apart(st) ==
  /\ \A k \in 1 .. STREAMS : Xo!AnyBit(st[k])
  /\ \A k \in 1 .. STREAMS - 1 : st[k + 1] = Advance(st[k])
Alone(st, first, second) ==
  \A k \in 1 .. STREAMS : first.out[k] \o second.out[k] = Xo!Outputs(st[k], BLOCK + 1)
SecondToo(st, first) == Alone(st, first, Xo!next_block(first.farm, 1))
Streams(st) == Apart(st) /\ SecondToo(st, Xo!next_block(Xo!FarmVec(st), BLOCK))
\* golden/xoshiro.py: each site's stream starts where the one before it will be
\* after 2^JUMP_LOG steps, none is the forbidden zero, and the streams advanced
\* together give the words each gives alone.
StreamsAreJumps == trial.on = "streams" => Streams(Xo!stream_states(trial.seed, STREAMS))

(***************************************************************************)
(* A symbol out of K                                                       *)
(***************************************************************************)

Pd == INSTANCE Pdit WITH
       K <- 3, LUT_N <- 5, UNIFORMS <- 16,
       EXP_LUT <- At(<<15, 7, 3, 1, 0>>), GUMBEL_LUT <- At(<<-1, 0, 1, 3>>)

TrySymbol ==
  \E acc \in [Pd!Symbols -> {-3, 0, 1, 2}], beta \in {1, 3} :
    Try([on |-> "symbol", z |-> [k \in Pd!Symbols |-> Pd!z_from_acc(acc[k], beta)]])

\* golden/pdit.py: the scan always ends on a symbol, and both closed forms count
\* exactly the words and noises that give each symbol.
SymbolsExact ==
  trial.on = "symbol" =>
    LET z == trial.z
    IN  /\ \A u \in 0 .. 15 : Pd!Beyond(z, u) # {}
        /\ \A k \in Pd!Symbols :
             /\ Pd!exact_cdf_scan(z)[k] = Cardinality({u \in 0 .. 15 : Pd!sample_symbol(z, u) = k})
             /\ Pd!exact_gumbel_max(z)[k] =
                  Cardinality({u \in [Pd!Symbols -> 0 .. 3] : Pd!gumbel_symbol(z, u) = k})

(***************************************************************************)
(* Sweeps                                                                  *)
(***************************************************************************)

MinusSixtyFour == -64
Gs == INSTANCE GibbsSamplers WITH
       ROWS <- 2, COLS <- 3, LANES <- 2, LUT <- At(<<2, 2, 3>>), LUT_N <- 3, ONE <- 3, LOW <- 1,
       ACC_MIN <- MinusSixtyFour, ACC_MAX <- 64
\* The instructions' golden model on the same tables
Isa == INSTANCE SamplingGolden WITH
       LUT <- At(<<2, 2, 3>>), LUT_N <- 3, ONE <- 3, LOW <- 1,
       ACC_MIN <- MinusSixtyFour, ACC_MAX <- 64,
       P_LANES <- 2, DEG_MAX <- 4, COLORS_MAX <- 4, R_MAX <- 1, SEED_WORDS <- 1,
       STATE_SITES <- LAMBDA arity : 4, RID_SITES <- 4

Coupling(k) == Gs!Symmetric([e \in Gs!KingEdges |-> ((k * e[1] + e[2]) % 4) - 1])
Field(k) == [i \in Gs!FabricSites |-> ((i + k) % 3) - 1]
Bits6(k) == [i \in Gs!FabricSites |-> (k \div 2 ^ i) % 2]
TryKernel ==
  \E k \in {1, 2, 3}, from \in {0, 21}, to \in {0, 9, 21, 63} :
    Try([on |-> "kernel", J |-> Coupling(k), h |-> Field(k), from |-> Bits6(from), to |-> Bits6(to)])

\* golden/gibbs.py: the kernel's probability of a sweep's result is the share of
\* words for which the bit-true sampler arrives there.
KernelExact ==
  trial.on = "kernel" =>
    LET q == Gs!p17_table(Gs!acc_table(trial.J, trial.h), 1)
        start == [x \in Gs!States |-> IF x = trial.from THEN 1 ELSE 0]
        arrives(w) == Gs!sweep(trial.J, trial.h, 1, trial.from, {}, [c \in 0 .. 3 |-> w]) = trial.to
    IN  Gs!sweep_kernel_apply(start, q)[trial.to]
          = Cardinality({w \in [Gs!FabricSites -> 0 .. 2] : arrives(w)})

TorusWeight(k) ==
  [e \in (0 .. 2) \X (0 .. 2) \X (0 .. 1) \X (-1 .. 1) |-> ((e[1] + k * e[2] + e[3]) % 4) - 1]
Torus(k) == Gs!torus_king(3, 2, TorusWeight(k), TRUE)
TryGrid ==
  \E k \in {1, 2}, clamp \in {{}, {2}, {0, 4}}, bipolar \in BOOLEAN, from \in {0, 21, 58},
     words \in [1 .. 2 -> 0 .. 2] :
    Try([on |-> "grid", g |-> Torus(k), h |-> Field(k), clamp |-> clamp, bipolar |-> bipolar,
         from |-> Bits6(from), words |-> words])

Options(t) == [bipolar |-> t.bipolar, work_track |-> FALSE, n_replicas |-> 1, q |-> 2,
               state |-> t.from, rid |-> [i \in Gs!FabricSites |-> 0]]
OneSweep == [imm |-> TRUE, t_m |-> 1, t_k |-> 1]
Swept(t, m0, steps) == FoldLeft(LAMBDA m, x : Isa!_sweep_chunk(m, x.beta, x.chunk, t.words), m0, steps)
SitesOf(steps) == FlattenSeq([k \in DOMAIN steps |-> steps[k].chunk])
EachOnce(t, sites) == ToSet(sites) = Gs!FabricSites \ t.clamp /\ IsInjective(sites)
SameSweep(t, m0, steps) ==
  /\ Swept(t, m0, steps).s
       = Gs!grid_sweep(t.g, t.h, 1, t.bipolar, t.from, t.clamp, [k \in DOMAIN steps |-> t.words])
  /\ EachOnce(t, SitesOf(steps))
Configured(t, m0, img) ==
  /\ SameSweep(t, m0, SelectSeq(Isa!psample_steps(m0, OneSweep), LAMBDA x : x.chunk # <<>>))
  /\ Isa!_check_invariants(m0, img.flags)
SampledAlike(t, img) == Configured(t, Isa!pconfig(Isa!Golden0, Isa!build_image(img), img.flags, FALSE), img)
\* golden/gibbs_grid.py and golden/sampling_isa.py: a sweep of the grid is what the
\* instructions do with the image made of the same graph and the same words, each
\* unclamped site is updated once, and no two neighbours at the same time.
GridAlike ==
  trial.on = "grid" =>
    SampledAlike(trial, Isa!image_from_graph(trial.g, trial.h, <<>>, trial.clamp, Options(trial), {"STATE"}))

(***************************************************************************)
(* Plans of the sampling gates                                             *)
(***************************************************************************)

\* The lanes' words of a block: one number each for binary sites, else a farm word
\* for every four values
BlockOf(n, q) ==
  [l \in 1 .. 2 |-> IF q = 2 THEN ((5 * n) + (l * n) + l) % 3
                    ELSE [k \in 1 .. q \div 4 |-> ((37 * n) + (n * n) + (11 * l * k)) % 256]]
Pl == INSTANCE Plan WITH
       LUT <- At(<<2, 2, 3>>), LUT_N <- 3, ONE <- 3, LOW <- 1, ACC_MIN <- MinusSixtyFour, ACC_MAX <- 64,
       P_LANES <- 2, DEG_MAX <- 4, COLORS_MAX <- 4, R_MAX <- 2, SEED_WORDS <- 1,
       STATE_SITES <- LAMBDA arity : 4, RID_SITES <- 4,
       GLUT <- At(<<0, 1, 3, 6>>), BYTES <- 4, Block <- BlockOf, ANCHOR_SITES <- 9, J_TOP <- 3

PlanGraphs(k) ==
  { Pl!torus(2, 2, TorusWeight(1), FALSE), Pl!torus(3, 2, TorusWeight(1), FALSE), Pl!bipartite(3, 2, 3),
    Pl!rand_qgraph(4, << <<0, 0, 1>>, <<0, 1, k>>, <<1, 0, 2>>, <<2, 3, -k>>, <<1, 3, k>>, <<3, 0, 1>> >>) }
PlanBias(q, n) == [i \in 0 .. n - 1 |-> [a \in 1 .. q - 1 |-> ((i + a) % 3) - 1]]
PlanImage(q, n, slots, s, sched) ==
  [n |-> n, q |-> q, rows |-> [i \in 0 .. n - 1 |-> [slots |-> slots[i],
                                bias |-> IF q = 2 THEN PlanBias(q, n)[i][1] ELSE PlanBias(q, n)[i]]],
   order |-> s.order, bounds |-> s.bounds, n_colors |-> Len(s.bounds), n_replicas |-> 1,
   bipolar |-> FALSE, work_track |-> TRUE, work_reset |-> FALSE, sched |-> sched,
   state |-> [i \in 0 .. n - 1 |-> i % q], flags |-> {"ROWS", "ORDER", "SCHED", "SEEDS", "STATE"}]
Schedules == { << [beta |-> 1, sweeps |-> 3] >>, << [beta |-> 2, sweeps |-> 2], [beta |-> 1, sweeps |-> 1] >> }
TryPlan ==
  \E q \in {2, 4}, sched \in Schedules, record \in BOOLEAN, on \in {"plan", "schedule"} :
    \/ \E g \in PlanGraphs(2), clamp \in {{}, {0, 1, 2}} :
         Try([on |-> on, sched |-> sched, record |-> record, g |-> g, clamp |-> clamp,
              img |-> PlanImage(q, g.n, g.adj, Pl!build_schedule(g, clamp), sched)])
    \/ \E n \in {2, 5} :
         LET c == Pl!chain(n, 2)
         IN  Try([on |-> on, sched |-> sched, record |-> record, g |-> [n |-> n, adj |-> c.slots], clamp |-> {},
                  img |-> PlanImage(q, n, c.slots, c, sched)])

\* The parameters are written anew between two samplings, the sites of a second image.
Rewritten(img) ==
  [img EXCEPT !.flags = {"ROWS"}, !.n_colors = 0,
              !.rows = [i \in DOMAIN @ |-> [@[i] EXCEPT !.slots = [k \in DOMAIN @ |-> [@[k] EXCEPT !.j = 2 * @]]]]]
Begun(img) == Pl!plan_pconfig(Pl!Plan0, img)
Again(img, single, sched, record) ==
  Pl!drain_modes(Pl!sweep_step(Pl!plan_pconfig(single, Rewritten(img)), sched, record), record, TRUE)
Halves(begun, sched, record) ==
  FoldLeft(LAMBDA p, e : Pl!plan_psample(Pl!plan_psample(p, 1, e.beta, record, TRUE), e.sweeps - 1,
                                         e.beta, record, TRUE),
           begun, sched)
Alike(p, whole) ==
  /\ p.gold.drawn = whole.gold.drawn
  /\ \A f \in DOMAIN Pl!Golden0 \ {"drain_words"} : p.gold.g[f] = whole.gold.g[f]
EnergyOf(img, p) == IF img.q = 2 THEN Pl!_energy2(p.gold.g) ELSE Pl!q_energy2(p.gold.g)
WorkOf(img, whole, rewrite) ==
  rewrite.gold.g.work[0] - whole.gold.g.work[0] = EnergyOf(img, rewrite)[0] - EnergyOf(img, whole)[0]
Against(t, begun, whole) ==
  /\ Alike(Pl!sweep_step(begun, t.sched, t.record), whole)
  /\ (\A e \in ToSet(t.sched) : e.sweeps > 1) => Alike(Halves(begun, t.sched, t.record), whole)
  /\ WorkOf(t.img, whole, Pl!plan_pconfig(whole, Rewritten(t.img)))
  /\ Pl!check_degree(t.g, 4)
  /\ Pl!_check_invariants([begun.gold.g EXCEPT !.bounds = t.img.bounds], t.img.flags)
Scheduled(t, begun) == Against(t, begun, Pl!psample_sched(begun, t.record))
\* gates/s7_isa.py, gates/s8_isa.py and sw/kernels/s7_run.c: a device that does each
\* operation as the golden model does passes the plan, drains included; a schedule
\* taken sweep by sweep, split or as a whole leaves the same states, counts and words
\* drawn, as the first sampling alone clears the counts; a rewrite's work is its change
\* of the energy; and every graph of the plans has the slots and the order that the
\* configuration asks for.
PlansReplay ==
  /\ trial.on = "plan" =>
       Pl!run(Again(trial.img, Pl!sweep_step(Begun(trial.img), trial.sched, trial.record),
                    trial.sched, trial.record), Pl!Machine0) = {}
  /\ trial.on = "schedule" => Scheduled(trial, Begun(trial.img))

(***************************************************************************)
(* The sampling models' own checks                                         *)
(***************************************************************************)

NineSites == Pl!torus(3, 3, TorusWeight(1), FALSE)
AllClamped == PlanImage(2, 9, NineSites.adj, Pl!build_schedule(NineSites, 0 .. 8), <<>>)
Nine(k) == [i \in 0 .. 8 |-> (k \div 2 ^ i) % 2]
Ring(n, k) ==
  LET g == FoldLeft(LAMBDA x, i : Pl!add_edge(x, i, (i + 1) % n, k), Pl!Graph(n),
                    IF n = 1 THEN <<>> ELSE [i \in 1 .. n |-> i - 1])
  IN  PlanImage(2, n, g.adj, Pl!build_schedule(g, {}), <<>>)
SitesFrom(n, k) == [i \in 0 .. n - 1 |-> (k \div 2 ^ i) % 2]
TrySelfCheck ==
  \/ \E n \in {3, 5}, q \in {4, 8}, clamp \in {{}, {1}}, jr \in {-1, 2} :
       Try([on |-> "chain", clamp |-> clamp,
            img |-> Pl!ChainImage(n, q, PlanBias(q, n), jr, clamp, [i \in 0 .. n - 1 |-> (2 * i + 1) % q])])
  \/ \E x, y \in {0, 21, 438, 511} : Try([on |-> "anchor", forced |-> <<Nine(x), Nine(300), Nine(y)>>])
  \/ \E n \in {1, 4}, k \in {-1, 2}, beta \in {1, 2}, from, to \in {0, 1, 6, 13} :
       Try([on |-> "ring", img |-> Ring(n, k), beta |-> beta, from |-> SitesFrom(n, from), to |-> SitesFrom(n, to)])
  \/ \E a, b, c, k, m \in 1 .. 3 :
       Try([on |-> "marginals", w |-> <<At(<<a, b, 1>>), At(<<2, c, 3>>), At(<<b, 1, c>>)>>, K |-> <<k, m>>])

Product(w, K, x) ==
  FoldLeft(LAMBDA p, v : p * w[v][x[v]] * IF v > 1 /\ x[v - 1] = x[v] THEN K[v - 1] ELSE 1, 1, [v \in DOMAIN w |-> v])
Marginal(w, K, v, a) == MapThenSumSet(LAMBDA x : Product(w, K, x), {x \in [DOMAIN w -> 0 .. 2] : x[v] = a})
\* A sweep of the ring, with a word of its own for each site
RingSwept(m, beta, words) ==
  FoldLeft(LAMBDA g, st : Pl!_sweep_chunk(g, beta, st.chunk, [l \in DOMAIN st.chunk |-> words[st.chunk[l]]]),
           m, SelectSeq(Pl!SweepSteps(m, beta), LAMBDA st : st.chunk # <<>>)).s
RingCounted(t, m) ==
  Pl!ring_kernel(m, t.beta, t.from)[t.to]
    = Cardinality({words \in [0 .. m.n - 1 -> 0 .. 2] : RingSwept([m EXCEPT !.s = t.from], t.beta, words) = t.to})
SweepChecked(fresh, x, img, clamp) ==
  Pl!drains_pure(x) /\ Pl!clamp_held(fresh, x, clamp) /\ Pl!double_advance(x, img, 3)
SitesChecked(fresh, img, clamp) ==
  /\ SweepChecked(fresh, Pl!sampled(fresh, Pl!Imm(FALSE, TRUE, 3, 1)), img, clamp)
  /\ IF img.q = 2 THEN Pl!moments_recounted(fresh, 3, 1) ELSE Pl!q_recounted(fresh, 4, 1)
\* golden/sampling_isa.py and golden/qsite_golden.py, self_check: a schedule is its
\* entries one by one, the moments are those of the states counted by hand, a site out
\* of the order keeps its value, eight values draw twice, drains leave the machine
\* alone, moments and work are the anchor's, and the kernel and the marginals that
\* samples are held against are those of the words and of the chain's states.
SelfChecksPass ==
  /\ trial.on = "schedule" => Pl!scheduled_as_commands(Pl!Fresh(trial.img), trial.sched)
  /\ trial.on \in {"schedule", "chain"} => SitesChecked(Pl!Fresh(trial.img), trial.img, trial.clamp)
  /\ trial.on = "anchor" => Pl!anchored(AllClamped, trial.forced)
  /\ trial.on = "ring" => RingCounted(trial, Pl!Fresh(trial.img).g)
  /\ trial.on = "marginals" =>
       \A v \in 1 .. 3, a \in 0 .. 2 :
         Pl!_chain_marginals(trial.w, trial.K, 3)[v][a] = Marginal(trial.w, trial.K, v, a)

(***************************************************************************)
(* Likelihoods                                                             *)
(***************************************************************************)

Gr == INSTANCE Grammar WITH
       N_STATES <- 2, SYM_BITS <- 1, L <- 2, N_HID <- 2, DEG <- 2, STATIONARY <- 12, TOP <- 9

\* Each state gives a symbol and a next state with quarters of a chance.
Rule(sym, p, next) == [sym |-> sym, p |-> p, next |-> next]
Automaton(a, b, twist) ==
  [q \in {0, 1} |-> IF q = 0 THEN << Rule(0, 4 - a, 0), Rule(1, a, 1) >>
                    ELSE << Rule(twist, b, 0), Rule(0, 4 - b, 1) >>]
ModelSites == 0 .. 3
Ties(gr) == ToSet(Gr!edge_list(gr))
Tied(gr, k) ==
  [i \in ModelSites |-> [j \in ModelSites |->
     IF {<<i, j>>, <<j, i>>} \intersect Ties(gr) = {} THEN 0 ELSE ((k * i * j + k + i + j) % 3) - 1]]
Lean(k) == [i \in ModelSites |-> ((i * k + k) % 3) - 1]
Picks == { << <<0, 1>>, <<1, 0>> >>, << <<1>>, <<0, 1>> >>, << <<0>>, <<0>> >> }
TryGrammar ==
  \E a \in {1, 2, 3}, b \in {1, 3}, twist \in {0, 1}, picks \in Picks, k \in {1, 2} :
    /\ (a + b) \in {2, 3, 4, 6}
    /\ LET gr == Gr!build_model_graph(picks)
       IN  Try([on |-> "grammar", trans |-> Automaton(a, b, twist), gr |-> gr,
                J |-> Tied(gr, k), h |-> Lean(k)])

\* A walk takes a rule in each state; its chance is a product.
Walks == {<<q, i, j>> : q \in {0, 1}, i \in {1, 2}, j \in {1, 2}}
Second(trans, w) == trans[trans[w[1]][w[2]].next][w[3]]
WalkWeight(trans, w) ==
  Gr!stationary(Gr!state_matrix(trans))[w[1]] * trans[w[1]][w[2]].p * Second(trans, w).p
WalkWindow(trans, w) == 2 * trans[w[1]][w[2]].sym + Second(trans, w).sym
JointWeight(J, h, x) ==
  2 ^ (9 + (MapThenSumSet(LAMBDA i : MapThenSumSet(LAMBDA j : J[i][j] * x[i] * x[j], ModelSites),
                          ModelSites) \div 2)
         + MapThenSumSet(LAMBDA i : h[i] * x[i], ModelSites))
Mass(J, h, Shown(_)) ==
  MapThenSumSet(LAMBDA x : JointWeight(J, h, x), {x \in [ModelSites -> {0, 1}] : Shown(x)})

\* golden/grammar.py: a window's chance is that of the walks that spell it, a
\* window starts as one goes on, and the likelihood divides the weights of the joint
\* states of all sites that show the window by the weights of all of them; the
\* model's graph joins visible to hidden sites only, within the slots there are.
LikelihoodExact ==
  trial.on = "grammar" =>
    LET d == Gr!window_dist(trial.trans)
        starts(c) == d[2 * c] + d[2 * c + 1]
        ends(c) == d[c] + d[2 + c]
        shows(x, w) == \A k \in 0 .. Gr!N_VIS - 1 : x[k] = Gr!Symbol(w, k)
    IN  /\ \A w \in Gr!Windows :
             /\ d[w] = MapThenSumSet(LAMBDA v : WalkWeight(trial.trans, v),
                                     {v \in Walks : WalkWindow(trial.trans, v) = w})
             /\ LET ll == Gr!exact_ll(trial.J, trial.h, w)
                IN  /\ ll.p = Mass(trial.J, trial.h, LAMBDA x : shows(x, w))
                    /\ ll.z = Mass(trial.J, trial.h, LAMBDA x : TRUE)
        /\ \A c \in {0, 1} : starts(c) = ends(c)
        /\ Gr!check_degree(trial.gr, 2)
        /\ \A e \in Ties(trial.gr) : e[1] < Gr!N_VIS /\ e[2] >= Gr!N_VIS

(***************************************************************************)
(* The anchor's fabric                                                     *)
(***************************************************************************)

Fab == INSTANCE FabricAnchor WITH n <- 4, R <- 2, DENSE <- 2

Joined(edges) == [i \in Fab!Sites |-> [j \in Fab!Sites |->
                   IF {i, j} \in edges THEN i + j + 1 ELSE IF i = j THEN 3 ELSE 0]]
Couplings == { Joined({{0, 1}, {2, 3}}), Joined({{0, 2}, {1, 3}}), Joined({{0, 1}, {0, 2}, {0, 3}}) }
Biases == { [i \in Fab!Sites |-> 1 - i] }
Bits4(k) == [i \in Fab!Sites |-> (k \div 2 ^ i) % 2]
Draw(k) == [r \in Fab!Replicas |-> Bits4(k + 5 * r)]
Samples == { <<Draw(3)>>, <<Draw(10), Draw(6)>> }

\* The fabric with what its samplings and restarts have added to each energy, and
\* the energy that the work is counted from.
Enter(f) == [on |-> "fabric", f |-> f, base |-> Fab!energy(f), heat |-> [r \in Fab!Replicas |-> 0],
             left |-> STEPS]
TryFabric == Try(Enter(Fab!Fabric(Draw(9))))
OnFabric(f, heat, base) ==
  /\ trial.left > 0
  /\ trial' = [trial EXCEPT !.f = f, !.heat = heat, !.base = base, !.left = @ - 1]
Heated(f) == [r \in Fab!Replicas |-> trial.heat[r] + Fab!energy(f)[r] - Fab!energy(trial.f)[r]]
FabricConfig ==
  \E J \in Couplings \union {Fab!Unset}, b \in Biases \union {Fab!Unset} :
    OnFabric(Fab!pconfig(trial.f, J, b), trial.heat, trial.base)
FabricSample ==
  \E clamp \in {{}, {1, 2}}, draws \in Samples, thin \in {1, 2} :
    LET f == Fab!psample(trial.f, clamp, Bits4(4), TRUE, thin, draws)
    IN  OnFabric(f, Heated(f), trial.base)
FabricDrain ==
  \E mode \in {"state", "mean", "cov"} : OnFabric(Fab!pdrain(trial.f, mode), trial.heat, trial.base)
FabricResample ==
  LET idx == [r \in Fab!Replicas |-> 1]
  IN  OnFabric(Fab!resample(trial.f, idx), [r \in Fab!Replicas |-> trial.heat[idx[r]]],
               [r \in Fab!Replicas |-> trial.base[idx[r]]])
FabricReset ==
  \/ LET f == Fab!reset_state(trial.f, Draw(12)) IN OnFabric(f, Heated(f), trial.base)
  \/ OnFabric(Fab!reset_work(trial.f), trial.heat,
              [r \in Fab!Replicas |-> trial.base[r] + trial.f.work[r]])
  \/ OnFabric(Fab!reset_stats(trial.f), trial.heat, trial.base)
OperateFabric ==
  trial.on = "fabric" /\ (FabricConfig \/ FabricSample \/ FabricDrain \/ FabricResample \/ FabricReset)

Spins(s) == [i \in Fab!Sites |-> 2 * s[i] - 1]
Quadratic(M, h, v) ==
  MapThenSumSet(LAMBDA i : v[i] * (h[i] + MapThenSumSet(LAMBDA j : M[i][j] * v[j], Fab!Sites)), Fab!Sites)
\* golden/fabric_anchor.py: a replica's energy is what it began with, plus the work
\* of the parameter writes, plus what sampling changed; the colours divide the
\* sites, the moments are those of states that were counted, and the translation
\* from spins moves every energy by the same amount.
FirstLaw ==
  trial.on = "fabric" =>
    LET f == trial.f
        M == [i \in Fab!Sites |-> [j \in Fab!Sites |-> f.J[i][j] + IF i < j THEN 1 ELSE 0]]
        q == Fab!quadratic_to_ising(M, f.b)
        gap(s) == Fab!Energy2(q.J2, q.b2, s) - 4 * Quadratic(M, f.b, Spins(s))
    IN  /\ \A r \in Fab!Replicas : Fab!energy(f)[r] = trial.base[r] + f.work[r] + trial.heat[r]
        /\ \A i \in Fab!Sites : Cardinality({c \in DOMAIN f.colors : i \in f.colors[c]}) = 1
        /\ \A i \in Fab!Sites : f.m2[i][i] = f.m1[i] /\ Fab!Covariance(f)[i][i] >= 0
        /\ trial.left = STEPS - 1 => \A s \in Fab!all_states : gap(s) = gap(Bits4(0))

(***************************************************************************)
(* Learning and annealing                                                  *)
(***************************************************************************)

\* The chance falls and rises by a quarter of ONE for each unit of the field, to
\* none and to certainty; coldly, at once.
Quarters(field) == Max({0, Min({4, 2 + field})})
Coldly(field) == IF field > 0 THEN 4 ELSE IF field < 0 THEN 0 ELSE 2
Steered(gs) == Max({-2, Min({2, FoldLeft(LAMBDA t, v : t + v, 0, gs)})})
Ln == INSTANCE Learners WITH
       ONE <- 4, Prob <- Quarters, QUANTUM <- 2, TOP <- 1, RATE <- 1, CLIP <- 1, Adam <- Steered
\* The same without a rounding or a bound
Fine == INSTANCE Learners WITH
       ONE <- 4, Prob <- Quarters, QUANTUM <- 1, TOP <- 99, RATE <- 1, CLIP <- 99, Adam <- Steered
Cold == INSTANCE Learners WITH
       ONE <- 4, Prob <- Coldly, QUANTUM <- 1, TOP <- 99, RATE <- 1, CLIP <- 99, Adam <- Steered

Uniforms(k) == [row \in 1 .. 2 |-> [i \in ModelSites |-> ((k * (i + 1)) + (row * k)) % 4]]
Begins == [row \in 1 .. 2 |-> [i \in ModelSites |-> (i + row) % 2]]
\* Values of the visible sites, a row for each of two windows
Batches == { <<Gr!encode_window(3), Gr!encode_window(1)>>, <<Gr!encode_window(0), Gr!encode_window(2)>>,
             <<Gr!encode_window(3), Gr!encode_window(3)>> }
\* A row's one sweep
OneEach(k) == [row \in 1 .. 2 |-> << Uniforms(k)[row] >>]
TryLearning ==
  \E picks \in Picks, chains \in 1 .. 2, adam \in BOOLEAN :
    LET t == Ln!PcdTrainer(Gr!build_model_graph(picks), 0 .. 1, SubSeq(Begins, 1, chains), adam)
    IN  Try([on |-> "learning", t |-> t, was |-> t, rows |-> Begins, k |-> 0, batch |-> <<>>, left |-> STEPS - 1])
OperateLearning ==
  /\ trial.on = "learning" /\ trial.left > 0
  /\ \E batch \in Batches, k \in {1, 2} :
       trial' = [trial EXCEPT !.t = Ln!step(@, batch, Begins, OneEach(k), OneEach(k + 1)), !.was = trial.t,
                              !.rows = Ln!WakeRows(trial.t, batch, Begins, OneEach(k)),
                              !.k = k, !.batch = batch, !.left = @ - 1]

\* What the rows show together more often than the chains, in parts of both counts
Lead(rows, chains, S) ==
  LET count(r) == Cardinality({b \in DOMAIN r : \A i \in S : r[b][i] = 1})
  IN  (count(rows) * Len(chains)) - (count(chains) * Len(rows))
Sign(v) == IF v > 0 THEN 1 ELSE IF v < 0 THEN -1 ELSE 0
\* The trainer's masters as the software lane holds them
AsFloat(t) ==
  [Fine!FloatPcd(t.g, t.chains) EXCEPT
     !.J = [e \in DOMAIN @ |-> t.J[e[1]][e[2]]], !.h = t.h,
     !.gh = t.gh, !.gJ = [e \in DOMAIN @ |-> t.gJ[CHOOSE k \in DOMAIN t.gJ : Fine!edges(t.g)[k] = e]]]
AllSites(g) == FlattenSeq([c \in DOMAIN Ln!Colours(g) |-> SetToSortSeq(Ln!Colours(g)[c], <)])

\* golden/pcd.py and golden/grammar.py: the couplings stay symmetric and on the
\* graph's edges, what is sampled with stays within the fabric's range, the data
\* stands in the wake phase, a plain update moves each master the way the data leads
\* the chains and not at all where it does not, and never further than a step; and
\* where nothing is rounded or bounded, a trainer that draws a colour's sites together
\* learns what the software lane learns site by site.
LearnsOnGraph ==
  trial.on = "learning" =>
    LET t     == trial.t
        was   == trial.was
        sites == AllSites(t.g)
        tied(i, j) == j \in Ln!Adjacent(t.g, i)
        moved(i, j) == t.J[i][j] - was.J[i][j]
        leads(S) == Sign(Lead(trial.rows, t.chains, S))
        fine  == Fine!step([was EXCEPT !.adam = TRUE], trial.batch, Begins, OneEach(trial.k), OneEach(trial.k + 1))
        lane  == Fine!FloatStep(AsFloat(was), 2, trial.batch, Begins,
                   << [order |-> SelectSeq(sites, LAMBDA i : i > 1), draws |-> Uniforms(trial.k)] >>,
                   << [order |-> sites, draws |-> Uniforms(trial.k + 1)] >>)
    IN  /\ \A i, j \in ModelSites : t.J[i][j] = t.J[j][i] /\ (~tied(i, j) => t.J[i][j] = 0)
        /\ \A i, j \in ModelSites : Ln!quantized(t).J[i][j] \in {-2, 0, 2}
        /\ trial.batch # <<>> =>
             /\ \A b \in 1 .. 2 : \A i \in 0 .. 1 : trial.rows[b][i] = trial.batch[b][i]
             /\ ~t.adam => \A i \in ModelSites :
                  /\ t.h[i] - was.h[i] = leads({i})
                  /\ \A j \in Ln!Adjacent(t.g, i) : moved(i, j) = leads({i, j})
             /\ lane.chains = fine.chains /\ lane.h = fine.h
             /\ \A e \in DOMAIN lane.J : lane.J[e] = fine.J[e[1]][e[2]]

\* Three sites in a ring and one tied to one of them; a weight of one is eight units.
Problem(k) == Ln!load_gset(4, << <<1, 2, k>>, <<2, 3, 1>>, <<1, 3, -k>>, <<3, 4, 2>> >>)
TryAnneal ==
  \E k \in {1, 2, -1}, from \in 0 .. 15, u \in 0 .. 2 :
    Try([on |-> "anneal", g |-> Problem(k), from |-> Bits4(from),
         x |-> [beta |-> 1, draws |-> [i \in ModelSites |-> (u + i) % 4]]])
\* golden/gibbs_grid.py: with the couplings' sign turned, as for a greatest cut, a cold
\* sweep never gives back any of the cut.
ColdSweepsCut ==
  trial.on = "anneal" =>
    LET cut(sweeps) == Cold!anneal_science(trial.g, trial.from, sweeps, -1, TRUE)
    IN  cut(<<trial.x>>) >= cut(<<>>)

(***************************************************************************)
(* Products                                                                *)
(***************************************************************************)

Tn == INSTANCE TensorGolden WITH
       NIB <- 2, BYTE_MAX <- 3, ACC_HALF <- 8, KSTEP8 <- 2, KSTEP4 <- 4, X_ROOM <- 16, B_MAX <- 3,
       SHIFT <- 1, TABLE <- [gelu |-> [signed |-> TRUE, tab |-> At(<<0, 0, 1, 0, 0, 1, 2, 3>>)]]

Ramp(k, a, b) == [i \in 1 .. k |-> ((a * i + b) % 7) - 3]
Columns(k, width) == [i \in 1 .. k |-> [j \in 1 .. width |-> Ramp(k, 2 * j, j)[i]]]
TryProduct ==
  \E k \in {2, 3, 5}, width \in {1, 3}, row \in [1 .. 2 -> -2 .. 1], acc \in {-3, 2} :
    Try([on |-> "product", k |-> k, X |-> Columns(k, width), acc |-> acc,
         w |-> << [i \in 1 .. k |-> row[(i % 2) + 1]], [i \in 1 .. k |-> (i % 4) - 2] >>])

\* golden/quant4.py and golden/tensor.py: packing loses no weight; the columns of a
\* verification are single products and are found in the operand memory's image at
\* the padded width, where the packed padding adds nothing; a product split along
\* its inner dimension and accumulated, or begun from the bias, is the whole one;
\* a quantized row is within half a step of the row.
PackedWeights ==
  trial.on = "product" =>
    LET w == trial.w
        X == trial.X
        k == trial.k
        packed == Tn!pack_w4(w)
        out    == Tn!gemm_verify_w4(packed, X, k)
        kpad   == Tn!KPad(k, TRUE)
        place(b) == SubSeq(Tn!x_image(X, TRUE), (b - 1) * kpad + 1, b * kpad)
        C0     == [i \in 1 .. 2 |-> [b \in DOMAIN X[1] |-> trial.acc]]
        left   == [i \in 1 .. 2 |-> SubSeq(w[i], 1, 1)]
        right  == [i \in 1 .. 2 |-> SubSeq(w[i], 2, k)]
        raw    == [i \in 1 .. k |-> 5 * w[1][i] + i]
        quant  == Tn!quantize_w4_rowwise(<<raw>>)[1]
    IN  /\ Tn!unpack_w4(packed, k) = w
        /\ \A b \in DOMAIN X[1] :
             /\ Tn!gemv_w4(packed, Tn!Column(X, b), k) = Tn!Column(out, b)
             /\ Tn!Fits(X, TRUE) => Tn!gemv_w8(Tn!unpack_w4(packed, kpad), place(b)) = Tn!Column(out, b)
        /\ Tn!gemm8(w, X, C0, TRUE)
             = Tn!gemm8(right, Tail(X), Tn!gemm8(left, SubSeq(X, 1, 1), C0, TRUE), TRUE)
        /\ Tn!fused_linear(w[1], X, C0[1])
             = Tn!lut_apply("gelu", [b \in DOMAIN X[1] |->
                 Tn!Clip(Tn!gemm8(w, X, C0, TRUE)[1][b] \div 2, -4, 3)])
        /\ \A i \in 1 .. k : LET m == Tn!RowMax(raw, 1)
                               IN  2 * Pd!Abs(quant[i] * m - raw[i]) <= m

(***************************************************************************)
(* The language model                                                      *)
(***************************************************************************)

Lm == INSTANCE Gpt2Int WITH
       N_LAYER <- 2, N_HEAD <- 2, HD <- 2, SAT8 <- 7, SAT15 <- 31, SAT16 <- 63,
       MK_BITS <- 5, SH_MAX <- 12, RSQ_T <- At(<<256, 181, 148, 128, 114, 105, 97>>), MANT <- 3,
       RSQ_SCALE <- 8, V_BITS <- 6, NEWTON_BITS <- 18, MEAN_MUL <- 4, MEAN_SH <- 4, SQ_BITS <- 4,
       NORM_SH <- 4, GAMMA_SH <- 3, EXP_T <- At(<<0, 1, 3, 8, 22, 60>>), EXP_ZERO <- 5,
       EXP_HALF <- 26, HALF_SH <- 4, P_BITS <- 6,
       GELUD_T <- At(<<0, -1, -2, -3, 0, -3, -2, -1>>), GELU_ZERO <- 4, FRAC <- 2

Fixed(q, count) == Lm!Vec(LAMBDA i : q, count)
Weights(rows, cols, a) ==
  Lm!quant_rows(Lm!Vec(LAMBDA i : Lm!Vec(LAMBDA j : ((a * i * i + 3 * j + i * j) % 7) - 3, cols), rows))
Map(rows, cols, a, q) ==
  [w |-> Weights(rows, cols, a), b |-> Lm!Vec(LAMBDA j : ((a * j) % 5) - 2, cols), q |-> Fixed(q, cols)]
Norm(a) == [gq |-> <<9, 8 + a, 7, 9>>, bq |-> <<0, a, -1, 1>>]
LayerOf(a, q) ==
  [ln1 |-> Norm(a), qkv |-> Map(4, 12, a, q), s |-> Fixed(q, 2), o |-> Fixed(q, 4),
   cproj |-> Map(4, 4, a + 1, q), ln2 |-> Norm(a + 1), cfc |-> Map(4, 6, a + 2, q),
   g |-> Fixed(q, 6), mproj |-> Map(6, 4, a + 3, q)]
ScaledModel(a, q) ==
  [emb |-> [w |-> Weights(3, 4, a + 1), q |-> Fixed(q, 3)],
   wpe |-> <<<<1, -2, 0, 3>>, <<-3, 0, 2, 1>>, <<2, 2, -1, 0>>, <<0, -1, 1, 2>>>>,
   layers |-> <<LayerOf(a, q), LayerOf(a + 2, q)>>, lnf |-> Norm(a),
   head |-> [w |-> Weights(4, 3, a + 1), q |-> Fixed(q, 3)]]
ModelOf(a) == ScaledModel(a, Lm!mkq(a, 8))
TryModel == \E a \in 1 .. 4, ids \in [1 .. 3 -> 1 .. 3] :
              Try([on |-> "model", a |-> a, ids |-> ids \o <<>>])
Causal(m, ids, rows) == \A t \in 1 .. 3 : rows[t] = Last(Lm!forward_int(m, SubSeq(ids, 1, t)))
Chosen(said, rows) == \A t \in {2, 3} : said[t + 1] = Lm!argmax(rows[t])
Decoded(m, said) == Chosen(said, Lm!forward_int(m, said))
Forward(m, ids) == Causal(m, ids, Lm!forward_int(m, ids)) /\ Decoded(m, Lm!greedy(m, SubSeq(ids, 1, 2), 2))
\* golden/gpt2_int.py: every operation is causal, so a row of the whole window's
\* logits is the last row of the window that ends there, and the words decoded
\* one by one are those that all rows of the finished text choose.
CausalForward == trial.on = "model" => Forward(ModelOf(trial.a), trial.ids)

\* Two positions and a later one, whose first head scores are products of these keys
\* with <<7, 1>>: at the saturated score -64, and on both sides of -55.
AskedKeys == {<<-8, -8>>, <<-8, 0>>, <<-8, 1>>, <<0, 0>>, <<7, 7>>}
HeadRow(key, value) == <<7, 1, 0, 0>> \o key \o <<0, 0, value, -value, 0, 0>>
TryHead == \E keys \in [1 .. 3 -> AskedKeys] :
             Try([on |-> "head", rows |-> Lm!Vec(LAMBDA t : HeadRow(keys[t], <<5, 7, -8>>[t]), 3),
                  top |-> Max({7 * keys[t][1] + keys[t][2] : t \in 1 .. 2})])
\* golden/gpt2_int.py:442: the mask is the saturated score, a number like any other;
\* a later position has no part in a row as long as the row's largest score is the
\* whole range of the exponential above it.
MaskIsNothing ==
  trial.on = "head" /\ trial.top >= -64 + 9 =>
    LET layer == [s |-> Fixed([m |-> 2, sh |-> 1], 2), o |-> Fixed([m |-> 1, sh |-> 4], 4)]
        out(rows) == Lm!HeadOut(rows, layer, 1, 2)
    IN  out(trial.rows) = out(SubSeq(trial.rows, 1, 2))

(***************************************************************************)
(* The cache                                                               *)
(***************************************************************************)

U == INSTANCE GoldenUnits WITH
       DEPTH <- 2, WIDTH <- 2, STAGES <- 3, BITS <- 3, LATENCY <- 2, BUCKET <- 4, BANDWIDTH <- 1, BEAT <- 2,
       LINE <- 4, WORD <- 2, SETS <- 2, TAGS <- 3

\* flat: what a memory without a cache would hold; stored values differ from step
\* to step.
Blank == [a \in U!Addresses |-> a]
TryCache == Try([on |-> "cache", c |-> U!GoldenCache(Blank), flat |-> Blank, left |-> STEPS + 1])
WordValue == [b \in {0, 1} |-> 20 + 2 * trial.left + b]
Flat(addr, be) ==
  [a \in U!Addresses |-> IF a - U!Word(addr) \in be THEN WordValue[a - U!Word(addr)]
                          ELSE trial.flat[a]]
OnCache(c, flat) ==
  trial.left > 0 /\ trial' = [trial EXCEPT !.c = c, !.flat = flat, !.left = @ - 1]
OperateCache ==
  /\ trial.on = "cache"
  /\ \/ \E addr \in {3, 5, 12, 22} :
          \/ OnCache(U!access(trial.c, FALSE, addr, WordValue, {}), trial.flat)
          \/ \E be \in {{0, 1}, {1}} :
               OnCache(U!access(trial.c, TRUE, addr, WordValue, be), Flat(addr, be))
     \/ OnCache(U!flush(trial.c), trial.flat)

\* golden/cache.py: whatever is read next is what a memory without a cache would
\* give, a flush leaves the memory equal to it, and no line is held twice.
CacheTransparent ==
  trial.on = "cache" =>
    LET c == trial.c
        then(addr) == U!access(c, FALSE, addr, WordValue, {})
    IN  /\ \A addr \in {a \in U!Addresses : a % 2 = 0} : \A b \in {0, 1} :
             U!ReadWord(then(addr), addr)[b] = trial.flat[addr + b]
        /\ U!flush(c).mem = trial.flat
        /\ \A s \in {0, 1} : c.valid[s][0] /\ c.valid[s][1] => c.tag[s][0] # c.tag[s][1]
        /\ c.writebacks <= c.misses

(***************************************************************************)
(* Small units                                                             *)
(***************************************************************************)

TryLine ==
  \E cpb \in {2, 3}, data \in [1 .. 2 -> {0, 3, 5, 7}], gaps \in [1 .. 2 -> 0 .. 1] :
    Try([on |-> "line", cpb |-> cpb, data |-> data \o <<>>,
         wave |-> U!encode(data, gaps, cpb, 1)])
Flipped(wave, at) == [wave EXCEPT ![at] = 1 - @]
\* golden/uart.py: the strict decoder reads back what was sent, and a level that is
\* wrong for a single cycle anywhere never passes.
LineIsStrict ==
  trial.on = "line" =>
    LET read(wave) == U!decode_strict(wave, trial.cpb)
    IN  /\ read(trial.wave).out = trial.data /\ read(trial.wave).bad = U!Idle
        /\ \A at \in DOMAIN trial.wave : read(Flipped(trial.wave, at)).bad # U!Idle

\* A script: in each cycle whether to write, whether to read or to answer.
TryScript ==
  \E script \in [1 .. 5 -> {<<TRUE, TRUE>>, <<TRUE, FALSE>>, <<FALSE, TRUE>>}] :
    Try([on |-> "script", script |-> script \o <<>>])
\* The queue with what it took and what it gave
QueueRun(script) ==
  FoldLeft(LAMBDA x, k :
             LET o == U!FifoOut(x.q)
             IN  [q    |-> U!FifoStep(x.q, script[k][1], k, script[k][2]),
                  took |-> IF script[k][1] /\ ~o.full THEN Append(x.took, k) ELSE x.took,
                  gave |-> IF script[k][2] /\ ~o.empty THEN Append(x.gave, o.rd_data) ELSE x.gave],
           [q |-> <<>>, took |-> <<>>, gave |-> <<>>], [k \in DOMAIN script |-> k])
\* The pipeline's answers
PipeRun(script) ==
  FoldLeft(LAMBDA x, k :
             [pipe |-> U!MulStep(x.pipe, script[k][1], k, k + 1),
              out  |-> Append(x.out, U!MulOut(x.pipe, script[k][1], k, k + 1))],
           [pipe |-> U!MulPipe0, out |-> <<>>], [k \in DOMAIN script |-> k])
\* A cycle of the memory: an answer may be taken, a request made, then the clock.
\* The first request of a script writes, the later ones read it back.
PortRun(script) ==
  FoldLeft(LAMBDA x, k :
             LET m0 == IF script[k][2] THEN U!take_response(x.m) ELSE x.m
                 go == script[k][1] /\ U!AxiTakes(m0)
                 m1 == IF script[k][1] THEN U!issue(m0, x.asked = <<>>, 0, 9) ELSE m0
                 m2 == U!tick(m1)
             IN  [m |-> m2, asked |-> IF go THEN Append(x.asked, m0.cycle) ELSE x.asked,
                  answered |-> IF m1.inflight # <<>> /\ m2.inflight = <<>>
                               THEN Append(x.answered, <<m2.cycle, m2.resp[1]>>) ELSE x.answered],
           [m |-> U!AxiPort([a \in {0} |-> 1]), asked |-> <<>>, answered |-> <<>>],
           [k \in DOMAIN script |-> k])
\* golden/fifo.py, golden/mul.py and sim/axi_pessimistic.py: the queue gives what it
\* took in order and never drops one it said it had room for; a product leaves its
\* pipeline with its own mark STAGES - 1 steps later; a memory request is answered
\* LATENCY ticks after it was taken, in order, a read with what was written, and no
\* more beats go than the bucket and the bandwidth allow.
UnitsInOrder ==
  trial.on = "script" =>
    LET s == trial.script
        queue == QueueRun(s)
        pipe  == PipeRun(s)
        port  == PortRun(s)
    IN  /\ queue.took = queue.gave \o queue.q /\ Len(queue.q) <= 2
        /\ \A k \in 3 .. 5 : /\ pipe.out[k].valid = s[k - 2][1]
                             /\ pipe.out[k].p = ((k - 2) * (k - 1)) % 16
        /\ \A k \in DOMAIN port.answered :
             /\ port.answered[k][1] = port.asked[k] + 2
             /\ port.answered[k][2] = IF k = 1 THEN 0 ELSE 9
        /\ port.m.tokens >= 0 /\ 2 * Len(port.asked) <= 4 + 5

(***************************************************************************)
(* Tokens                                                                  *)
(***************************************************************************)

\* Two printable letters, a digit, a mark, a short form; a character of two bytes
Letters == [a |-> <<1>>, b |-> <<2>>, s |-> <<3>>]
CharBytes(c) ==
  IF c \in DOMAIN Letters THEN Letters[c]
  ELSE CASE c = "1" -> <<4>> [] c = "'" -> <<5>> [] c = " " -> <<0>> [] c = "nl" -> <<6>> [] c = "wide" -> <<7, 6>>
White(c) == c \in {" ", "nl"}
KindOf(c) == IF c \in DOMAIN Letters THEN "letter" ELSE IF c = "1" THEN "digit" ELSE "other"
\* The stand-ins: 8 for the blank, 9 for the line's end, 10 for the wide character's lead
Learned == << << <<1>>, <<2>> >>, << <<1>>, <<1>> >>, << <<1, 2>>, <<1>> >>, << <<8>>, <<1>> >>,
              << <<1, 1>>, <<1, 2>> >>, << <<10>>, <<9>> >> >>
Singles == << <<1>>, <<2>>, <<3>>, <<4>>, <<5>>, <<8>>, <<9>>, <<10>> >>
Vocabulary == Singles \o [k \in DOMAIN Learned |-> Learned[k][1] \o Learned[k][2]]
Numbers == [p \in ToSet(Vocabulary) |-> CHOOSE k \in DOMAIN Vocabulary : Vocabulary[k] = p]
Bp == INSTANCE Gpt2Load WITH
       BYTES <- 8, PRINTABLE <- 1 .. 5, Utf8 <- CharBytes, IsSpace <- White, Kind <- KindOf, BLANK <- " ",
       CONTRACTIONS <- { <<"'", "s">> }, MERGES <- Learned, enc <- Numbers

Texts(chars, n) == UNION {[1 .. k -> chars] : k \in 0 .. n}
TryTokens ==
  \/ \E text \in Texts({"a", "b", " "}, 5) \union Texts({"a", "s", "1", "'", " ", "nl", "wide"}, 3) :
       Try([on |-> "tokens", text |-> text \o <<>>])
  \/ \E n \in 0 .. 9, window \in 1 .. 4 : Try([on |-> "windows", n |-> n, window |-> window])

\* The merging as it is published: all pairs of the lowest rank at once, from the left
Together(word, pair) ==
  FoldLeft(LAMBDA x, k :
             IF k < x.next THEN x
             ELSE IF k < Len(word) /\ <<word[k], word[k + 1]>> = pair
                  THEN [out |-> Append(x.out, word[k] \o word[k + 1]), next |-> k + 2]
                  ELSE [out |-> Append(x.out, word[k]), next |-> k + 1],
           [out |-> <<>>, next |-> 1], [k \in DOMAIN word |-> k]).out
Published(u) ==
  FoldLeft(LAMBDA word, n :
             LET there == {r \in DOMAIN Learned :
                             \E k \in 1 .. Len(word) - 1 : <<word[k], word[k + 1]>> = Learned[r]}
             IN  IF there = {} THEN word ELSE Together(word, Learned[Min(there)]),
           [k \in DOMAIN u |-> <<u[k]>>], u)

\* golden/gpt2_load.py: no text is lost or changed by the tokens, the pieces of a token
\* are those of the published merging although one pair is merged at a time, and a
\* token of letters holds nothing else; each token of a text but the first of every
\* window is scored once, with its own window before it, by both measures.
TokensExact ==
  /\ trial.on = "tokens" =>
       LET toks == Bp!tokens(trial.text)
       IN  /\ FlattenSeq(toks) = trial.text
           /\ Bp!decode(Bp!encode(trial.text)) = Bp!Bytes(trial.text)
           /\ \A k \in DOMAIN toks : Bp!_bpe(Bp!Units(toks[k])) = Published(Bp!Units(toks[k]))
           /\ \A k \in DOMAIN toks : (\E c \in ToSet(toks[k]) : c \in DOMAIN Letters) =>
                ToSet(toks[k]) \subseteq DOMAIN Letters \union {" ", "'"}
  /\ trial.on = "windows" =>
       LET scored == Bp!ppl(trial.n, trial.window)
       IN  /\ scored = Lm!ppl_int(trial.n, trial.window)
           /\ IsInjective(scored)
           /\ ToSet(scored) = {<<p, p - (p % trial.window)>> :
                p \in {q \in 1 .. trial.n - 1 : q % trial.window # 0}}

(***************************************************************************)
(* What the language model's integers stand for                            *)
(***************************************************************************)

Sc == INSTANCE Gpt2Scales WITH N_LAYER <- 2, N_HEAD <- 2, HD <- 4, VOCAB <- 3, ROOT_HD <- 1

\* A window's ranges; the greatest of the residual's stands beside them.
Ranges == {[q |-> <<a, 2>>, resid |-> <<b, 3 - b, a>>, resid_max |-> <<Max({b, 3 - b, a})>>] : a, b \in 0 .. 3}
TryScales ==
  \/ Try([on |-> "scales"])
  \/ \E windows \in Texts(Ranges, 2) \ {<<>>} : Try([on |-> "calibration", windows |-> windows \o <<>>])
  \/ \E num \in 1 .. 40, den \in {3, 5, 16}, acc \in {-50, -7, 1, 33} :
       Try([on |-> "requant", num |-> num, den |-> den, acc |-> acc])

Reaches(factors, range, steps) == \A c \in DOMAIN range : Sc!Product(factors[c], range[c], 1) = steps
LayerStands(i, r) ==
  /\ Reaches(i.ln1, r.ln1_c, Sc!Steps15) /\ Reaches(i.o, r.attnout_c, Sc!Steps15)
  /\ Reaches(i.ln2, r.ln2_c, Sc!Steps15) /\ Reaches(i.g8, r.gelu_c, Sc!Steps15)
  /\ Reaches(i.qkv, Sc!Repeat(r.q) \o Sc!Repeat(r.k) \o r.v_c, Sc!Steps8)
  /\ ToSet(i.g16) = {Sc!Two(8)} /\ ToSet(i.x) = {Sc!RS}
Within(a, num, den, got, sh) ==
  2 * Lm!AbsOf(got * den - a * num) * 2 ^ sh <= den * (2 ^ sh + Lm!AbsOf(a))
RequantWithin(t, q) == q.ok => Within(t.acc, t.num, t.den, Lm!requant_vec(<<t.acc>>, q.q)[1], q.q[1].sh)
\* golden/gpt2_int.py: the calibrated ranges, the folded weights and the frozen ratios
\* fit together: at each interface a calibrated range is 127 or 16256 steps, the
\* scores and the rectifier's argument are in their tables' domains, both sides of
\* each sum have one factor, and a logit is 256 steps; the ranges of several windows
\* are the greatest of each; a ratio as multiplier and shift misses the real quotient
\* by half a step and the multiplier's own half step.
ScalesAgree ==
  /\ trial.on = "scales" =>
       /\ \A li \in 1 .. 2 : LayerStands(Sc!After(li), Sc!_calibrate(li))
       /\ ToSet(Sc!forward_factors) = {Sc!Two(8)}
  /\ trial.on = "calibration" =>
       LET agg == Sc!aggregate(trial.windows)
       IN  \A k \in DOMAIN agg : \A c \in DOMAIN agg[k] :
             agg[k][c] = Max({trial.windows[n][k][c] : n \in DOMAIN trial.windows})
  /\ trial.on = "requant" => RequantWithin(trial, Lm!mkq_vec(<< <<trial.num, trial.den>> >>))

(***************************************************************************)
(* The device's tables                                                     *)
(***************************************************************************)

Lay == INSTANCE Gpt2Layout WITH
        CTX <- 32, NVOCAB <- 50257, NVPAD <- 50304, D <- 768, HEADS <- 12, LAYERS <- 12, TILE <- 64,
        L_WORDS <- 26, FF <- 3072, HEAP_BASE <- 2 ^ 21, HEAP_END <- 2 ^ 28
Tiles == INSTANCE Gpt2Layout WITH
        CTX <- 1, NVOCAB <- 1, NVPAD <- 1, D <- 1, HEADS <- 1, LAYERS <- 1, TILE <- 2,
        L_WORDS <- 1, FF <- 1, HEAP_BASE <- 0, HEAP_END <- 1

\* As many tokens as the context takes, and fewer
TryLayout == \E n_gen \in {1, 20, 28} : Try([on |-> "layout", n_prompt |-> 5, n_gen |-> n_gen])
Holds(blobs, what, n) == \E k \in DOMAIN blobs : blobs[k].what = what /\ blobs[k].n >= n
Points(blobs, row, follows) == \A f \in follows : Holds(blobs, f[2], f[3]) /\ row[f[1] + 1] = f[2]
RowsHold(blobs) ==
  \A li \in 0 .. 11 : /\ Len(Lay!LayerRow(li)) = 26
                      /\ Points(blobs, Lay!LayerRow(li), Lay!FollowsRow(li))
ScratchHolds(blobs, scratch) ==
  /\ \A k \in 1 .. 13 : scratch[k][2] + scratch[k][3] <= scratch[k + 1][2]
  /\ Lay!KeyAt(11, 11, 63, 31) < Lay!ValueAt(0, 0, 0, 0)
  /\ Holds(blobs, Lay!The("scratch"), Lay!ValueAt(11, 11, 63, 31) + 1)
LaidOut(blobs, desc, numbers, follows) ==
  /\ \A k \in 1 .. Len(blobs) - 1 : blobs[k].addr + blobs[k].n <= blobs[k + 1].addr
  /\ Lay!EndOf(blobs) <= 2 ^ 28
  /\ Holds(blobs, Lay!The("desc"), 4 * Len(desc))
  /\ Points(blobs, desc, follows)
  /\ \A f \in numbers : desc[f[1] + 1] = f[2]
  /\ RowsHold(blobs) /\ ScratchHolds(blobs, Lay!Scratch)
TilesFound(packed) ==
  \A kb \in 0 .. 1, nb \in 0 .. 2 :
    Tiles!Tile(packed, 3, kb, nb) = [rc \in (0 .. 1) \X (0 .. 1) |-> <<2 * kb + rc[1], 2 * nb + rc[2]>>]
\* host/gpt2_device.py and sw/kernels/gpt2_seq.c: behind each word the kernel follows
\* is what the kernel takes it for, as many bytes as it uses, none shared by two
\* blobs; the scratch block holds the kernel's arrays and both caches; a tile is
\* where the product looks for it.
LayoutAgrees ==
  trial.on = "layout" =>
    /\ LaidOut(Lay!serialize(trial.n_prompt, trial.n_gen), Lay!dwords(trial.n_prompt, trial.n_gen),
               Lay!Numbers(trial.n_prompt, trial.n_gen), Lay!Follows(trial.n_prompt, trial.n_gen))
    /\ TilesFound(Tiles!tile_pack([rc \in (0 .. 3) \X (0 .. 5) |-> rc], 4, 6))

(***************************************************************************)
(* The processor's golden model                                            *)
(***************************************************************************)

Cpu == INSTANCE Iss WITH
        W <- 8, BYTE <- 2, REGS <- 3, SHIFTS <- 3, BASE <- 64, SIZE <- 12,
        MIE <- 1, MPIE <- 2, MPP <- {3, 4}, RO <- [misa |-> 64], DUMMY <- {"mip"}, TOHOST <- 72

In(op, f, rd, rs1, rs2, imm) ==
  [op |-> op, f |-> f, rd |-> rd, rs1 |-> rs1, rs2 |-> rs2, imm |-> imm, size |-> 4, signed |-> TRUE,
   csr |-> "mstatus", immediate |-> FALSE, bits |-> 99]
Memory(op, size, imm) == [In(op, "", 2, 1, 2, imm) EXCEPT !.size = size]
Csr(f, rs1, csr, immediate) ==
  [In("csr", f, 2, rs1, 0, 0) EXCEPT !.csr = csr, !.immediate = immediate]
Instructions ==
  { In("lui", "", 1, 0, 0, 144), In("auipc", "", 2, 0, 0, 240), In("jal", "", 2, 0, 0, 8), In("jal", "", 2, 0, 0, 6),
    In("jalr", "", 1, 1, 0, -3), In("branch", "lt", 0, 2, 1, -4), In("branch", "ltu", 0, 1, 2, 6),
    In("branch", "?", 0, 0, 0, 4), In("opimm", "add", 0, 1, 0, 1), In("opimm", "slt", 1, 2, 0, -1),
    In("op", "sub", 1, 1, 2, 0), In("op", "sra", 2, 2, 1, 0), In("ecall", "", 0, 0, 0, 0), In("ebreak", "", 0, 0, 0, 0),
    In("mret", "", 0, 0, 0, 0), In("fence", "", 0, 0, 0, 0) }
  \union { Memory("load", 1, 2), Memory("load", 2, 1), Memory("load", 3, 0), Memory("store", 4, 4),
           Memory("store", 2, 2), Memory("store", 2, 3), Memory("store", 4, 8) }
  \union { Csr("w", 2, "mstatus", FALSE), Csr("s", 0, "misa", FALSE), Csr("s", 1, "misa", FALSE), Csr("c", 2, "mstatus", TRUE),
           Csr("w", 1, "mepc", FALSE), Csr("w", 1, "mip", TRUE), Csr("s", 0, "satp", FALSE) }
Started == [Cpu!Iss(64) EXCEPT !.x = [r \in 0 .. 2 |-> <<0, 68, 130>>[r + 1]],
                               !.csr = [@ EXCEPT !["mtvec"] = 72, !["mstatus"] = 2]]
NoStep == [end |-> "retired", commit |-> Cpu!NoCommit, s |-> Started]

\* was: the state before the last step; log: the lines so far
TryCpu == Try([on |-> "cpu", s |-> Started, was |-> Started, last |-> NoStep, log |-> <<>>, left |-> STEPS])
CpuAfter(t, r) ==
  [t EXCEPT !.s = r.s, !.was = t.s, !.last = r,
            !.log = CASE r.end = "Halt"    -> Append(@, Cpu!_last_halt_line(r.s, r.commit.store[2]))
                      [] r.end = "retired" -> Append(@, r.commit)
                      [] OTHER             -> @,
            !.left = IF r.end \in {"retired", "trap"} THEN @ - 1 ELSE 0]
OperateCpu ==
  /\ trial.on = "cpu" /\ trial.left > 0
  /\ \E in \in Instructions :
       trial' = CpuAfter(trial, Cpu!step(trial.s, in))

\* The registers and the memory that a log tells of
Replayed(log) ==
  FoldLeft(LAMBDA m, c :
             LET m1 == IF c.rd = 0 THEN m ELSE [m EXCEPT !.x = [@ EXCEPT ![c.rd] = c.wdata]]
             IN  IF c.store = <<>> THEN m1 ELSE Cpu!write(m1, c.store[1], c.store[3], c.store[2]),
           Started, log)
\* golden/iss.py and gates/p1_lockstep.py: equal logs mean equal machines, as the log
\* alone gives the registers and the memory; a trapped instruction leaves both, is not
\* counted, and the handler's mret goes back to it with the interrupts as they were;
\* the pc and the CSRs keep their masks; and a program whose log is cut short, goes on
\* or differs in a line never passes.
LogTellsAll ==
  trial.on = "cpu" =>
    LET s    == trial.s
        was  == trial.was
        log  == trial.log
        told == Replayed(log)
        back == Cpu!Mret(s)
        Log(lines, val) == [lines |-> lines, val |-> val]
        passes(other) == Cpu!check_program(Log(log, 1), Log(log, 1), Log(other, 1), TRUE)
    IN  /\ s.x = told.x /\ s.mem = told.mem /\ s.x[0] = 0
        /\ s.instret = Len(log)
        /\ trial.last.end = "trap" =>
             /\ back.next = was.pc
             /\ (1 \in Cpu!Bits(back.s.csr["mstatus"])) = (1 \in Cpu!Bits(was.csr["mstatus"]))
             /\ 1 \notin Cpu!Bits(s.csr["mstatus"])
        /\ s.pc % 4 = 0 /\ s.csr["mepc"] % 4 = 0
        /\ Cpu!Bits(s.csr["mstatus"]) \subseteq {1, 2, 3, 4}
        /\ passes(log)
        /\ log # <<>> => ~passes(Front(log)) /\ ~passes(Append(log, log[1]))
                           /\ ~passes([log EXCEPT ![1].wdata = @ + 1])

(***************************************************************************)
(* Random programs                                                         *)
(***************************************************************************)

Fz == INSTANCE RvFuzz WITH
       W <- 8, BYTE <- 2, REGS <- 4, SHIFTS <- 3, BASE <- 0, SIZE <- 100,
       MIE <- 1, MPIE <- 2, MPP <- {3, 4}, RO <- [misa |-> 64], DUMMY <- {"mip"}, TOHOST <- 76,
       DATA <- 84, DATA_BYTES <- 16, MAX_OFF <- 12, BASE_REG <- 3, TAIL_REGS <- <<1, 2>>

\* A program's file: its code, and a data region of which the file holds two bytes
FileOf(prog) ==
  [entry |-> 0,
   data |-> [k \in 0 .. 4 * Len(prog) + 1 |-> 1],
   ph |-> << [load |-> TRUE, offset |-> 0, paddr |-> 0, filesz |-> 4 * Len(prog), memsz |-> 4 * Len(prog)],
             [load |-> FALSE, offset |-> 0, paddr |-> 84, filesz |-> 4, memsz |-> 4],
             [load |-> TRUE, offset |-> 4 * Len(prog), paddr |-> 84, filesz |-> 2, memsz |-> 16] >>,
   sh |-> << [symtab |-> FALSE, entsize |-> 4, syms |-> << [name |-> "tohost", value |-> 4] >>],
             [symtab |-> TRUE, entsize |-> 4,
              syms |-> << [name |-> "", value |-> 0], [name |-> "tohost", value |-> 76] >>] >>]
\* One draw of any kind and fields, or two of a few
TryProgram ==
  \/ \E d \in {x \in Fz!Draws : x.rs2 = 3 - x.rs /\ x.t \in {1, x.rd}} :
       \E e \in Fz!Emits(d) : Try([on |-> "program", draws |-> <<e>>])
  \/ \E d1, d2 \in {x \in Fz!Draws : x.rd \in {2, 3} /\ x.t = 2 /\ x.rs \in {2, 3} /\ x.rs2 = 2 /\ x.imm = -1 /\ x.off = 3} :
       \E e1 \in Fz!Emits(d1), e2 \in Fz!Emits(d2) : Try([on |-> "program", draws |-> <<e1, e2>>])

\* The reference simulator's log of a run: its boot code, then each commit with the
\* store's value unmasked; a write to the zero register is told too.
RawOf(prog, line) ==
  LET in == prog[(line.pc \div 4) + 1]
  IN  [commit |-> TRUE, pc |-> line.pc, rd |-> line.rd, wdata |-> line.wdata,
       store |-> IF line.store = <<>> THEN <<>> ELSE <<line.store[1], line.store[2] + IF in.size = 1 THEN 64 ELSE 0, in.size>>]
Boot == << Fz!NoLine, [Fz!NoLine EXCEPT !.commit = TRUE, !.pc = 96, !.rd = 1, !.wdata = 9], Fz!NoLine >>

Reference(prog, lines) ==
  Fz!parse(Boot \o [k \in DOMAIN lines |-> RawOf(prog, lines[k])] \o Boot, 0, 76)
RunsWell(prog, began, run) ==
  /\ run.end = "Halt" /\ run.val = 1 /\ ~run.trapped
  /\ \A a \in 0 .. 75 : run.s.mem[a] = began.s.mem[a]
  /\ \A a \in 84 .. 99 : began.s.mem[a] = IF a < 86 THEN 1 ELSE 0
  /\ Fz!check_program(run, Reference(prog, run.lines), run, TRUE)
ProgramRuns(prog) ==
  RunsWell(prog, Fz!run_iss(FileOf(prog), prog, 0), Fz!run_iss(FileOf(prog), prog, Len(prog)))
\* golden/rvfuzz.py, golden/elf.py, golden/spikelog.py and gates/p1_lockstep.py: every
\* program runs to its store of one without a trap or an access beyond the memory and
\* within as many steps as it has instructions, changes nothing but its data, which
\* begins as in the file and then with zeros, and passes against a reference that does
\* the same.
ProgramsRun == trial.on = "program" => ProgramRuns(Fz!gen(trial.draws, 76))

(***************************************************************************)
(* What a run checks: the properties above, by the part of the code they   *)
(* are about                                                               *)
(***************************************************************************)

\* golden/pdit.py, golden/gibbs.py and golden/gibbs_grid.py: what they compute in closed
\* form is what their samplers do, counted over every word, and the grid's sampler is
\* that of the instructions.
SamplersAgree == SymbolsExact /\ KernelExact /\ GridAlike

\* gates/s7_isa.py, gates/s8_isa.py and the golden models that their plans take as
\* right: plans pass on a device that does what the model does, and the models stand up
\* to their own checks.
PlansAgree == PlansReplay /\ SelfChecksPass

\* golden/grammar.py, golden/pcd.py and golden/gibbs_grid.py: the likelihood that a
\* learner is judged by is that of its model, learning keeps the model on its graph and
\* within the fabric's range, and annealing goes the right way.
LearningExact == LikelihoodExact /\ LearnsOnGraph /\ ColdSweepsCut

\* golden/quant4.py, golden/gpt2_int.py and golden/gpt2_load.py: from text to token
\* and back: the tokens, the packed products, the layers and the scales between them.
NetworkExact == PackedWeights /\ CausalForward /\ MaskIsNothing /\ TokensExact /\ ScalesAgree

\* golden/cache.py, uart.py, fifo.py, mul.py and sim/axi_pessimistic.py: the models
\* that the benches of the small units compare with.
UnitsExact == CacheTransparent /\ LineIsStrict /\ UnitsInOrder

\* golden/iss.py and the programs that gates/p1_lockstep.py runs on it.
ProcessorExact == LogTellsAll /\ ProgramsRun

Next ==
  \/ TryStreams \/ TrySymbol \/ TryKernel \/ TryGrid \/ TryPlan \/ TrySelfCheck \/ TryGrammar
  \/ TryFabric \/ OperateFabric \/ TryLearning \/ OperateLearning \/ TryAnneal
  \/ TryProduct \/ TryModel \/ TryHead
  \/ TryCache \/ OperateCache
  \/ TryLine \/ TryScript \/ TryTokens \/ TryScales \/ TryLayout
  \/ TryCpu \/ OperateCpu \/ TryProgram
  \/ Another
===============================================================================
