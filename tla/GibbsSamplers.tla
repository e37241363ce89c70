---------------------------- MODULE GibbsSamplers ----------------------------
(***************************************************************************)
(* The two reference chains: the fabric of one king's graph with its exact *)
(* sweep kernel (golden/gibbs.py), and the general grid with its lanes     *)
(* (golden/gibbs_grid.py).  The code's grid has four rows and columns.     *)
(* Probabilities are numerators over ONE, a distribution gives each state  *)
(* a whole number.                                                         *)
(***************************************************************************)
EXTENDS PBit, GibbsSchedule, FiniteSetsExt

CONSTANTS ROWS, COLS, LANES

N == ROWS * COLS
FabricSites == 0 .. N - 1
States == [FabricSites -> {0, 1}]
OFFS == << <<-1, -1>>, <<-1, 0>>, <<-1, 1>>, <<0, -1>>, <<0, 1>>, <<1, -1>>, <<1, 0>>, <<1, 1>> >>

site(r, c) == r * COLS + c
\* A site's slots with the neighbour in each; slots over the border are left out.
neighbors(i) ==
  {<<k, site(i \div COLS + OFFS[k][1], (i % COLS) + OFFS[k][2])>> :
     k \in {n \in DOMAIN OFFS : /\ i \div COLS + OFFS[n][1] \in 0 .. ROWS - 1
                                /\ (i % COLS) + OFFS[n][2] \in 0 .. COLS - 1}}
color(i) == ((i \div COLS) % 2) * 2 + ((i % COLS) % 2)
COLOR_SITES == [c \in 0 .. 3 |-> {i \in FabricSites : color(i) = c}]

\* edge: a coupling for each pair of neighbours, the lower site first
Symmetric(edge) ==
  [i \in FabricSites |-> [j \in FabricSites |->
     IF j \notin {x[2] : x \in neighbors(i)} THEN 0
     ELSE edge[<<Min({i, j}), Max({i, j})>>]]]
KingEdges == {<<i, j>> \in FabricSites \X FabricSites : i < j /\ \E x \in neighbors(i) : x[2] = j}

(***************************************************************************)
(* The exact kernel of a sweep                                             *)
(***************************************************************************)

acc_table(J, h) ==
  [x \in States |-> [i \in FabricSites |->
     h[i] + MapThenSumSet(LAMBDA j : J[i][j] * x[j], FabricSites)]]
p17_table(acc_all, beta) ==
  [x \in States |-> [i \in FabricSites |-> p17(acc_all[x][i], beta)]]

Context(x, c) == [i \in FabricSites |-> IF color(i) = c THEN 0 ELSE x[i]]
\* One colour: the mass of each context, spread by its sites' probabilities
ColorKernel(pi, q_all, c) ==
  LET mass == [m \in {Context(x, c) : x \in States} |->
                 MapThenSumSet(LAMBDA x : pi[x], {x \in States : Context(x, c) = m})]
      chance(x, i) == LET q == q_all[Context(x, c)][i] IN IF x[i] = 1 THEN q ELSE ONE - q
  IN  [x \in States |->
        mass[Context(x, c)] * FoldSet(LAMBDA i, n : n * chance(x, i), 1, COLOR_SITES[c])]
\* (mutant) The colours in another order than the sampler's.
OtherOrder(pi, q_all) == FoldLeft(LAMBDA d, c : ColorKernel(d, q_all, c), pi, <<0, 2, 1, 3>>)
sweep_kernel_apply(pi, q_all) ==
  FoldLeft(LAMBDA d, c : ColorKernel(d, q_all, c), pi, <<0, 1, 2, 3>>)

\* The sampler: words[c][i] is site i's word in the phase of colour c.  The sites
\* of a colour are updated one after the other in the state itself.
UpdateSite(J, h, beta, st, i, word) ==
  LET acc == h[i] + MapThenSumSet(LAMBDA x : IF st[x[2]] = 1 THEN J[i][x[2]] ELSE 0, neighbors(i))
  IN  [st EXCEPT ![i] = decision(acc, beta, word)]
ColorPhase(J, h, beta, st, clamp, c, words) ==
  FoldLeft(LAMBDA s, i : UpdateSite(J, h, beta, s, i, words[i]), st,
           SetToSortSeq(COLOR_SITES[c] \ clamp, <))
sweep(J, h, beta, st, clamp, words) ==
  FoldLeft(LAMBDA s, c : ColorPhase(J, h, beta, s, clamp, c, words[c]), st, <<0, 1, 2, 3>>)

(***************************************************************************)
(* The grid of any graph: chunks of up to LANES sites of a colour, one     *)
(* word a lane, and a chunk's sites take their new values together.        *)
(***************************************************************************)

\* (mutant) A spin of zero never counts against.
ZeroCountsNothing(g, h, bipolar, s, i) ==
  FoldLeft(LAMBDA acc, e : acc + Contribution(e.j, s[e.nbr], FALSE), h[i], g.adj[i])
GridAcc(g, h, bipolar, s, i) ==
  FoldLeft(LAMBDA acc, e : acc + Contribution(e.j, s[e.nbr], bipolar), h[i], g.adj[i])
Starts(b) == [k \in 1 .. (b.hi - b.lo + LANES - 1) \div LANES |-> b.lo + (k - 1) * LANES]
Chunks(order, b) == [k \in DOMAIN Starts(b) |-> SubSeq(order, Starts(b)[k] + 1, Min({Starts(b)[k] + LANES, b.hi}))]
ScheduledChunks(sched) == FlattenSeq([c \in DOMAIN sched.bounds |-> Chunks(sched.order, sched.bounds[c])])
GridChunks(g, clamp) == ScheduledChunks(build_schedule(g, clamp))
GridChunk(g, h, beta, bipolar, s, chunk, words) ==
  [i \in DOMAIN s |->
    IF i \in ToSet(chunk)
    THEN decision(GridAcc(g, h, bipolar, s, i), beta, words[CHOOSE l \in DOMAIN chunk : chunk[l] = i])
    ELSE s[i]]
\* words: for each chunk in turn, one for each lane
ChunkSweep(g, h, beta, bipolar, s, chunks, words) ==
  FoldLeft(LAMBDA st, k : GridChunk(g, h, beta, bipolar, st, chunks[k], words[k]), s, [k \in DOMAIN chunks |-> k])
grid_sweep(g, h, beta, bipolar, s, clamp, words) ==
  ChunkSweep(g, h, beta, bipolar, s, GridChunks(g, clamp), words)
==============================================================================
