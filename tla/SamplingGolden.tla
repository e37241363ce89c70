---------------------------- MODULE SamplingGolden ----------------------------
(***************************************************************************)
(* The bit-true golden model of the sampling instructions on binary sites  *)
(* (golden/sampling_isa.py): the words of a configuration image, the       *)
(* machine that PCONFIG, PSAMPLE and PDRAIN drive, and its drains.  The    *)
(* machine is a record; each operation maps a record to a record.  A word  *)
(* is a record of its bit fields or a tuple of its lanes.                  *)
(***************************************************************************)
EXTENDS PBit, GibbsSchedule, FiniteSetsExt

CONSTANTS P_LANES, DEG_MAX, COLORS_MAX, R_MAX, SEED_WORDS,
          STATE_SITES(_),  \* sites in a STATE word, by the sites' arity
          RID_SITES        \* sites in a RID word

MAGIC == [magic |-> TRUE]
Sections == {"ROWS", "ORDER", "SCHED", "SEEDS", "STATE", "RID"}
Slots == 1 .. DEG_MAX
CeilDiv(a, b) == (a + b - 1) \div b

(***************************************************************************)
(* Images.  img: n, q, n_colors, n_replicas, bipolar, work_track,          *)
(* work_reset, flags (the sections present) and a field for each section.  *)
(***************************************************************************)

NoSlot == [valid |-> FALSE, nbr |-> 0, j |-> 0]
enc_slot(e) == [valid |-> TRUE, nbr |-> e.nbr, j |-> e.j]
SlotWords(slots) == [k \in Slots |-> IF k <= Len(slots) THEN enc_slot(slots[k]) ELSE NoSlot]

\* One lane a site, from the first, a last word filled up with zeros
Packed(f, n, per) ==
  [w \in 1 .. CeilDiv(n, per) |->
    [b \in 0 .. per - 1 |-> IF (w - 1) * per + b < n THEN f[(w - 1) * per + b] ELSE 0]]

Header(img, n_replicas, bipolar) ==
  << MAGIC,
     [n |-> img.n, bipolar |-> bipolar, work_track |-> img.work_track],
     [n_colors |-> img.n_colors, n_sched |-> IF "SCHED" \in img.flags THEN Len(img.sched) ELSE 0,
      n_replicas |-> n_replicas, q |-> img.q] >>
OrderWords(img) ==
  << Len(img.order) >>
  \o [c \in 1 .. COLORS_MAX |->
        IF c <= Len(img.bounds) THEN img.bounds[c] ELSE [lo |-> 0, hi |-> 0]]
  \o img.order
When(flag, img, words) == IF flag \in img.flags THEN words ELSE <<>>

\* One word of bias behind a site's slots
build_image(img) ==
  Header(img, img.n_replicas, img.bipolar)
  \o When("ROWS", img, FlattenSeq([i \in 1 .. img.n |->
       SlotWords(img.rows[i - 1].slots) \o << <<img.rows[i - 1].bias>> >>]))
  \o When("ORDER", img, OrderWords(img))
  \o When("SCHED", img, img.sched)
  \o When("SEEDS", img, [k \in 1 .. SEED_WORDS |-> k])
  \o When("STATE", img, Packed(img.state, img.n, STATE_SITES(2)))
  \o When("RID", img, Packed(img.rid, img.n, RID_SITES))

\* A whole image of a graph, and one of a graph's rows alone; o: the fields of an
\* image that are not the graph's (state, rid, n_replicas, bipolar, work_track).
GraphRows(gr, bias) == [i \in GraphSites(gr) |-> [slots |-> gr.adj[i], bias |-> bias[i]]]
image_from_graph(gr, bias, sched, clamp, o, flags) ==
  LET s == build_schedule(gr, clamp)
  IN  [n |-> gr.n, rows |-> GraphRows(gr, bias), order |-> s.order, bounds |-> s.bounds,
       n_colors |-> Len(s.bounds), sched |-> sched,
       flags |-> {"ROWS", "ORDER", "SCHED", "SEEDS"} \union flags, work_reset |-> FALSE] @@ o
rows_only_image(gr, bias, reset, o, flags) ==
  [n |-> gr.n, rows |-> GraphRows(gr, bias), n_colors |-> 0,
   flags |-> {"ROWS"} \union flags, work_reset |-> reset] @@ o

\* Where each section starts, counted in words from one
Positions(n, words, flags, row_words, per) ==
  LET Past(flag, at, len) == IF flag \in flags THEN at + len ELSE at
      order == Past("ROWS", 4, n * row_words)
      sched == IF "ORDER" \in flags THEN order + 1 + COLORS_MAX + words[order] ELSE order
      seeds == Past("SCHED", sched, words[3].n_sched)
      state == Past("SEEDS", seeds, SEED_WORDS)
      rid   == Past("STATE", state, CeilDiv(n, per))
  IN  [rows |-> 4, order |-> order, sched |-> sched, state |-> state, rid |-> rid,
       end |-> Past("RID", rid, CeilDiv(n, RID_SITES))]
Unpacked(words, at, n, per) == [i \in 0 .. n - 1 |-> words[at + i \div per][i % per]]

(***************************************************************************)
(* The machine                                                             *)
(***************************************************************************)

Golden0 ==
  [n |-> 0, q |-> 2, slots |-> <<>>, bias |-> <<>>, order |-> <<>>, bounds |-> <<>>,
   sched |-> <<>>, s |-> <<>>, rid |-> <<>>, n_replicas |-> 1, bipolar |-> FALSE,
   work_track |-> FALSE, work |-> [r \in 0 .. R_MAX - 1 |-> 0], cnt |-> 0,
   m1 |-> <<>>, m2 |-> <<>>, sweeps_done |-> 0, upd_cnt |-> 0, flip_cnt |-> 0,
   cfg_words |-> 0, drain_words |-> 0]

GSites(g) == 0 .. g.n - 1
_init(n, q) ==
  [Golden0 EXCEPT
     !.n = n, !.q = q,
     !.slots = [i \in 0 .. n - 1 |-> [k \in Slots |-> NoSlot]],
     !.bias = [i \in 0 .. n - 1 |-> [a \in 1 .. q - 1 |-> 0]],
     !.s = [i \in 0 .. n - 1 |-> 0],
     !.rid = [i \in 0 .. n - 1 |-> 0],
     !.m1 = [i \in 0 .. n - 1 |-> [a \in 1 .. q - 1 |-> 0]],
     !.m2 = [i \in 0 .. n - 1 |-> [k \in Slots |-> 0]]]

SlotSum(f(_)) == MapThenSumSet(f, Slots)

\* Twice the energy of each replica
_energy2(g) ==
  LET pair(i) == SlotSum(LAMBDA k : IF g.slots[i][k].valid
                                    THEN g.slots[i][k].j * g.s[g.slots[i][k].nbr] ELSE 0)
      term(i) == g.s[i] * (pair(i) + 2 * g.bias[i][1])
  IN  [r \in 0 .. R_MAX - 1 |->
        -MapThenSumSet(term, {i \in GSites(g) : g.rid[i] = r})]

\* The work of a parameter write: what it adds to each replica's energy
AddWork(work, new, old) == [r \in 0 .. R_MAX - 1 |-> work[r] + new[r] - old[r]]

\* Each section that the flags name replaces its part of the machine; bias: by site.
\* A word whose slot is not valid leaves neighbour and coupling zero.
RowsRead(g, words, p, flags, row_words, bias) ==
  IF "ROWS" \in flags
  THEN [g EXCEPT !.slots = [i \in GSites(g) |-> [k \in Slots |->
                              IF words[p.rows + i * row_words + k - 1].valid
                              THEN words[p.rows + i * row_words + k - 1] ELSE NoSlot]],
                 !.bias = bias]
  ELSE g
OrderRead(g, words, p, flags, n_colors) ==
  IF "ORDER" \in flags
  THEN [g EXCEPT !.bounds = SubSeq(words, p.order + 1, p.order + n_colors),
                 !.order = SubSeq(words, p.order + 1 + COLORS_MAX, p.sched - 1)]
  ELSE g
SchedRead(g, words, p, flags) ==
  IF "SCHED" \in flags
  THEN [g EXCEPT !.sched = SubSeq(words, p.sched, p.sched + words[3].n_sched - 1)] ELSE g
StateRead(g, words, p, flags, per) ==
  IF "STATE" \in flags THEN [g EXCEPT !.s = Unpacked(words, p.state, g.n, per)] ELSE g
RidRead(g, words, p, flags) ==
  IF "RID" \in flags THEN [g EXCEPT !.rid = Unpacked(words, p.rid, g.n, RID_SITES)] ELSE g
RestRead(g, words, p, flags, n_colors, per) ==
  RidRead(StateRead(SchedRead(OrderRead(g, words, p, flags, n_colors), words, p, flags),
                    words, p, flags, per), words, p, flags)

\* The header: replicas beyond the smaller count lose their work.
HeaderRead(g, h2, h3) ==
  [g EXCEPT !.bipolar = h2.bipolar, !.work_track = h2.work_track, !.n_replicas = h3.n_replicas,
            !.work = [r \in 0 .. R_MAX - 1 |->
                        IF r < g.n_replicas /\ r < h3.n_replicas THEN @[r] ELSE 0]]
\* Work is measured when the machine tracked it before the image.
Worked(g, old, flags) ==
  IF old.work_track /\ "ROWS" \in flags
  THEN [g EXCEPT !.work = AddWork(@, _energy2(g), _energy2(old))] ELSE g
Finished(g, words, reset) ==
  [g EXCEPT !.work = IF reset THEN [r \in 0 .. R_MAX - 1 |-> 0] ELSE @,
            !.cfg_words = @ + Len(words) - 3]
Loaded(old, words, p, flags) ==
  RestRead(Worked(RowsRead(HeaderRead(old, words[2], words[3]), words, p, flags, DEG_MAX + 1,
                           [i \in GSites(old) |-> << words[p.rows + i * (DEG_MAX + 1) + DEG_MAX][1] >>]),
                  old, flags),
           words, p, flags, words[3].n_colors, STATE_SITES(2))
pconfig(g0, words, flags, reset) ==
  LET old == IF g0.n = 0 THEN _init(words[2].n, 2) ELSE g0
  IN  Finished(Loaded(old, words, Positions(old.n, words, flags, DEG_MAX + 1, STATE_SITES(2)), flags),
               words, reset)

\* What the golden model asserts after an image: no coupling joins two replicas,
\* and the sites of one colour are not neighbours.
_check_invariants(g, flags) ==
  LET color(c) == ToSet(SubSeq(g.order, g.bounds[c].lo + 1, g.bounds[c].hi))
      pairs == {x \in GSites(g) \X Slots : g.slots[x[1]][x[2]].valid}
      nbr(x) == g.slots[x[1]][x[2]].nbr
  IN  /\ g.work_track \/ "RID" \in flags => \A x \in pairs : g.rid[nbr(x)] = g.rid[x[1]]
      /\ \A x \in pairs, c \in DOMAIN g.bounds : ~({x[1], nbr(x)} \subseteq color(c))

(***************************************************************************)
(* PSAMPLE.  The loops over entries, sweeps and chunks are a sequence of   *)
(* steps, so that another machine's steps can be laid beside them.         *)
(***************************************************************************)

\* cmd: reset, record, imm and, for an immediate entry, sweeps t_m and beta t_k
StatsReset(g, cmd) ==
  IF cmd.reset
  THEN [g EXCEPT !.cnt = 0,
                 !.m1 = [i \in GSites(g) |-> [a \in 1 .. g.q - 1 |-> 0]],
                 !.m2 = [i \in GSites(g) |-> [k \in Slots |-> 0]]]
  ELSE g
Entries(g, cmd) == IF cmd.imm THEN << [beta |-> cmd.t_k, sweeps |-> cmd.t_m] >> ELSE g.sched

\* A colour's chunks: up to P_LANES sites each; an empty colour has none.
Chunks(g, b) ==
  [k \in 1 .. CeilDiv(b.hi - b.lo, P_LANES) |->
    SubSeq(g.order, b.lo + (k - 1) * P_LANES + 1,
           Min({b.lo + k * P_LANES, b.hi}))]
SweepSteps(g, beta) ==
  Append(FlattenSeq([c \in DOMAIN g.bounds |->
           LET cs == Chunks(g, g.bounds[c])
           IN  [k \in DOMAIN cs |-> [beta |-> beta, chunk |-> cs[k]]]]),
         [beta |-> beta, chunk |-> <<>>])
psample_steps(g, cmd) ==
  LET es == Entries(g, cmd)
  IN  FlattenSeq([e \in DOMAIN es |->
        FlattenSeq([k \in 1 .. es[e].sweeps |-> SweepSteps(g, es[e].beta)])])

_acc(g, i) ==
  g.bias[i][1] + SlotSum(LAMBDA k :
    IF g.slots[i][k].valid
    THEN Contribution(g.slots[i][k].j, g.s[g.slots[i][k].nbr], g.bipolar) ELSE 0)

\* The chunk's sites take their new values together; words: one for each lane.
Updated(g, chunk, val) ==
  [g EXCEPT !.s = FoldLeft(LAMBDA s, l : [s EXCEPT ![chunk[l]] = val[l]], @, [l \in DOMAIN chunk |-> l]),
            !.upd_cnt = @ + Len(chunk),
            !.flip_cnt = @ + Cardinality({l \in DOMAIN chunk : val[l] # g.s[chunk[l]]})]
_sweep_chunk(g, beta, chunk, words) ==
  Updated(g, chunk, [l \in DOMAIN chunk |-> decision(_acc(g, chunk[l]), beta, words[l])])

_accumulate(g) ==
  [g EXCEPT !.cnt = @ + 1,
            !.m1 = [i \in GSites(g) |-> << @[i][1] + g.s[i] >>],
            !.m2 = [i \in GSites(g) |-> [k \in Slots |->
                      IF g.slots[i][k].valid /\ g.s[i] = 1 /\ g.s[g.slots[i][k].nbr] = 1
                      THEN @[i][k] + 1 ELSE @[i][k]]]]

(***************************************************************************)
(* PDRAIN.  A 64-bit value is two words, its halves.                       *)
(***************************************************************************)

Halves(v) == << <<"lo", v>>, <<"hi", v>> >>
\* Every site's lanes, then every site's slots
PerSite(f, g) == FlattenSeq([i \in 1 .. g.n |-> f[i - 1]])
MomentWords(g) == <<g.cnt>> \o PerSite(g.m1, g) \o PerSite(g.m2, g)
CovWords(g) ==
  LET m(i) == g.m1[i][1]
      diag(i) == g.cnt * m(i) - m(i) * m(i)
      slot(i, k) == IF g.slots[i][k].valid
                    THEN g.cnt * g.m2[i][k] - m(i) * m(g.slots[i][k].nbr) ELSE 0
  IN  <<g.cnt>> \o FlattenSeq([i \in 1 .. g.n |->
        Halves(diag(i - 1)) \o FlattenSeq([k \in Slots |-> Halves(slot(i - 1, k))])])
WorkWords(g) == <<g.n_replicas>> \o FlattenSeq([r \in 1 .. g.n_replicas |-> Halves(g.work[r - 1])])
TelemetryWords(g) ==
  <<g.sweeps_done, g.upd_cnt, 0, g.flip_cnt, 0, g.cfg_words, g.drain_words, g.cnt, 0, 0, 0, 0>>

pdrain_words(g, mode) ==
  CASE mode = "STATE"     -> Packed(g.s, g.n, STATE_SITES(g.q))
    [] mode = "MOMENTS"   -> MomentWords(g)
    [] mode = "COV"       -> CovWords(g)
    [] mode = "WORK"      -> WorkWords(g)
    [] mode = "TELEMETRY" -> TelemetryWords(g)
pdrain(g, mode) == [g EXCEPT !.drain_words = @ + Len(pdrain_words(g, mode))]
===============================================================================
