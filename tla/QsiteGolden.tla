----------------------------- MODULE QsiteGolden -----------------------------
(***************************************************************************)
(* The golden model of the sampling instructions on sites of four or eight *)
(* values (golden/qsite_golden.py).  Its machine is the record of          *)
(* SamplingGolden; a site's bias has a lane for every value but zero.      *)
(***************************************************************************)
EXTENDS SamplingGolden

CONSTANTS GLUT, BYTES     \* the Gumbel table and the values of a byte

STATES_A_WORD == 4        \* a farm word holds one byte for each of four values
LANES_A_WORD == 3         \* a bias word holds the lanes of three values

BiasWordCount(q) == CeilDiv(q - 1, LANES_A_WORD)
_bias_words(bias, q) ==
  [w \in 1 .. BiasWordCount(q) |->
    [l \in 1 .. LANES_A_WORD |->
      IF (w - 1) * LANES_A_WORD + l < q THEN bias[(w - 1) * LANES_A_WORD + l] ELSE 0]]
BiasOf(words, at, q) ==
  [a \in 1 .. q - 1 |->
    words[at + (a - 1) \div LANES_A_WORD][((a - 1) % LANES_A_WORD) + 1]]

\* The replica count is one more than the largest replica named.
qsite_image(img) ==
  LET nrep == IF "RID" \in img.flags
              THEN 1 + Max({img.rid[i] : i \in 0 .. img.n - 1}) ELSE 1
  IN  Header(img, nrep, FALSE)
      \o When("ROWS", img, FlattenSeq([i \in 1 .. img.n |->
           SlotWords(img.rows[i - 1].slots) \o _bias_words(img.rows[i - 1].bias, img.q)]))
      \o When("ORDER", img, OrderWords(img))
      \o When("SCHED", img, img.sched)
      \o When("SEEDS", img, [k \in 1 .. SEED_WORDS |-> k])
      \o When("STATE", img, Packed(img.state, img.n, STATE_SITES(img.q)))
      \o When("RID", img, Packed(img.rid, img.n, RID_SITES))

\* A slot counts where the neighbour has the site's own value.
q_energy2(g) ==
  LET own(i) == IF g.s[i] = 0 THEN 0 ELSE g.bias[i][g.s[i]]
      pair(i) == SlotSum(LAMBDA k : IF g.slots[i][k].valid /\ g.s[g.slots[i][k].nbr] = g.s[i]
                                    THEN g.slots[i][k].j ELSE 0)
      term(i) == pair(i) + 2 * own(i)
  IN  [r \in 0 .. R_MAX - 1 |->
        -MapThenSumSet(term, {i \in GSites(g) : g.rid[i] = r})]

\* All the bounds are kept, whatever the header's count, and no work is lost
\* with a replica.
q_HeaderRead(g, h2, h3) == [g EXCEPT !.work_track = h2.work_track, !.n_replicas = h3.n_replicas]
q_Worked(g, old, flags) ==
  IF old.work_track /\ "ROWS" \in flags
  THEN [g EXCEPT !.work = AddWork(@, q_energy2(g), q_energy2(old))] ELSE g
q_Loaded(old, words, p, flags, q, row_words) ==
  RestRead(q_Worked(RowsRead(q_HeaderRead(old, words[2], words[3]), words, p, flags, row_words,
                             [i \in GSites(old) |-> BiasOf(words, p.rows + i * row_words + DEG_MAX, q)]),
                    old, flags),
           words, p, flags, COLORS_MAX, STATE_SITES(q))
q_pconfig(g0, words, flags, reset) ==
  LET q   == words[3].q
      rw  == DEG_MAX + BiasWordCount(q)
      old == IF g0.n = 0 THEN _init(words[2].n, q) ELSE g0
  IN  Finished(q_Loaded(old, words, Positions(old.n, words, flags, rw, STATE_SITES(q)), flags, q, rw),
               words, reset)

\* The field of every value; a neighbour adds its coupling to its own value's.
_accs(g, i) ==
  [a \in 0 .. g.q - 1 |->
    (IF a = 0 THEN 0 ELSE g.bias[i][a])
    + SlotSum(LAMBDA k : IF g.slots[i][k].valid /\ g.s[g.slots[i][k].nbr] = a
                         THEN g.slots[i][k].j ELSE 0)]

\* ws: the lane's farm words; the least value of the highest score wins.
Byte(w, a) == (w \div (BYTES ^ (a % STATES_A_WORD))) % BYTES
Score(acc, beta, ws, a) == beta * acc[a] + 32 * GLUT[Byte(ws[a \div STATES_A_WORD + 1], a)]
Argmax(acc, beta, ws) ==
  CHOOSE a \in DOMAIN acc :
    \A b \in DOMAIN acc :
      \/ Score(acc, beta, ws, a) > Score(acc, beta, ws, b)
      \/ Score(acc, beta, ws, a) = Score(acc, beta, ws, b) /\ a <= b
q_sweep_chunk(g, beta, chunk, words) ==
  Updated(g, chunk, [l \in DOMAIN chunk |-> Argmax(_accs(g, chunk[l]), beta, words[l])])

q_accumulate(g) ==
  [g EXCEPT !.cnt = @ + 1,
            !.m1 = [i \in GSites(g) |-> [a \in 1 .. g.q - 1 |->
                      IF g.s[i] = a THEN @[i][a] + 1 ELSE @[i][a]]],
            !.m2 = [i \in GSites(g) |-> [k \in Slots |->
                      IF g.slots[i][k].valid /\ g.s[i] = g.s[g.slots[i][k].nbr]
                      THEN @[i][k] + 1 ELSE @[i][k]]]]

\* The covariance drain is refused; the others are laid out as for binary sites.
q_drain_modes == {"STATE", "MOMENTS", "WORK", "TELEMETRY"}
q_pdrain(g, mode) == IF mode \in q_drain_modes THEN pdrain(g, mode) ELSE g
==============================================================================
