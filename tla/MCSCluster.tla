------------------------------ MODULE MCSCluster ------------------------------
(***************************************************************************)
(* Small images and command sequences for the model checker.  A word of    *)
(* four base-4 bytes serves both kinds of decision: its top byte is the    *)
(* binary decision field, its bytes index the Gumbel table.                *)
(***************************************************************************)
EXTENDS SCluster

MCStateSites(arity) == CASE arity = 2 -> 8 [] arity = 4 -> 4 [] arity = 8 -> 2
MCAccMin == -64
MCLut == [k \in 0 .. 2 |-> k + 2]
MCGlut == [b \in 0 .. 3 |-> <<-2, 0, 1, 3>>[b + 1]]
MCWords == {64 * 1 + 16 * 0 + 4 * 2 + 1, 64 * 2 + 16 * 3}

Edges(n, es) == FoldLeft(LAMBDA gr, x : add_edge(gr, x[1], x[2], x[3]), Graph(n), es)
Star(n) == Edges(n, [k \in 1 .. n - 1 |-> <<0, k, ((k + 1) % 3) - 1>>])
\* The centre comes last and reads the last leaf first.
Inward(n) == Edges(n, [k \in 1 .. n - 1 |-> <<n - 1, n - 1 - k, ((k + 1) % 3) - 1>>])
\* Two couples, one in each replica
Couples(j) == Edges(4, << <<0, 1, j>>, <<2, 3, j + 1>> >>)
Bias(n) == [i \in 0 .. n - 1 |-> ((i + 1) % 3) - 1]
QBias(n, arity) == [i \in 0 .. n - 1 |-> [a \in 1 .. arity - 1 |-> ((a + i) % 3) - 1]]

Rest(n, arity) ==
  [q |-> arity, state |-> [i \in 0 .. n - 1 |-> (i + 1) % arity], rid |-> [i \in 0 .. n - 1 |-> 0],
   n_replicas |-> 1, bipolar |-> FALSE, work_track |-> FALSE]
TwoReplicas ==
  [Rest(4, 2) EXCEPT !.rid = [i \in 0 .. 3 |-> i \div 2], !.n_replicas = 2, !.work_track = TRUE]

Config(img) == [op |-> "PCONFIG", img |-> img]
Drain(mode) == [op |-> "PDRAIN", mode |-> mode]
Sample(reset, record) ==
  [op |-> "PSAMPLE", reset |-> reset, record |-> record, imm |-> FALSE, t_m |-> 0, t_k |-> 0]
Sweep(reset, record, sweeps, beta) ==
  [op |-> "PSAMPLE", reset |-> reset, record |-> record, imm |-> TRUE, t_m |-> sweeps, t_k |-> beta]
One1 == << [beta |-> 1, sweeps |-> 1] >>
Anneal == << [beta |-> 0, sweeps |-> 1], [beta |-> 2, sweeps |-> 1] >>
Bare(img) == [img EXCEPT !.flags = {}]

\* A star, and a star whose leaves take two chunks
Plain(gr) == << Config(image_from_graph(gr, Bias(gr.n), One1, {}, Rest(gr.n, 2), {"STATE", "RID"})),
               Sample(TRUE, TRUE), Drain("MOMENTS"), Drain("STATE") >>
\* One site to update of many to count: the next sweep is over before this one
\* is counted.
Sparse == << Config(image_from_graph(Edges(40, << <<37, 39, 1>> >>), Bias(40), One1, 0 .. 38,
                                     Rest(40, 2), {"STATE"})),
             Sweep(FALSE, TRUE, 2, 1), Drain("MOMENTS") >>
Clamped == << Config(image_from_graph(Star(4), Bias(4), One1, {0}, Rest(4, 2), {"STATE"})),
              Sweep(FALSE, TRUE, 2, 1), Drain("COV"), Drain("MOMENTS") >>
\* Work is measured in the state before the image's own, then reset.
Rewrites == << Config(image_from_graph(Couples(3), Bias(4), One1, {}, TwoReplicas, {"STATE", "RID"})),
               Sweep(TRUE, FALSE, 1, 2),
               Config(rows_only_image(Couples(-2), Bias(4), FALSE,
                        [TwoReplicas EXCEPT !.state = [i \in 0 .. 3 |-> 1],
                                            !.rid = [i \in 0 .. 3 |-> 1 - i \div 2]], {"STATE", "RID"})),
               Drain("WORK"),
               Config(rows_only_image(Couples(1), Bias(4), FALSE, TwoReplicas, {})), Drain("WORK"),
               Config(rows_only_image(Couples(2), Bias(4), TRUE, TwoReplicas, {})), Drain("WORK") >>
\* Replicas dropped and taken back
Resized == << Config(image_from_graph(Couples(3), Bias(4), One1, {}, TwoReplicas, {"STATE", "RID"})),
              Config(rows_only_image(Couples(1), Bias(4), FALSE, TwoReplicas, {})),
              Config(Bare(rows_only_image(Couples(1), Bias(4), FALSE,
                                          [TwoReplicas EXCEPT !.n_replicas = 1], {}))),
              Config(Bare(rows_only_image(Couples(1), Bias(4), FALSE, TwoReplicas, {}))),
              Drain("WORK"), Drain("TELEMETRY") >>
Bipolar == << Config(image_from_graph(Star(3), Bias(3), Anneal, {2}, [Rest(3, 2) EXCEPT !.bipolar = TRUE],
                                      {"STATE"})),
              Sample(FALSE, TRUE), Sample(TRUE, TRUE), Drain("TELEMETRY"), Drain("MOMENTS") >>
\* An image without colours and schedule keeps the old ones.
Many(arity, n, clamp) ==
  << Config(image_from_graph(Star(n), QBias(n, arity), One1, clamp,
                             [Rest(n, arity) EXCEPT !.work_track = TRUE], {"STATE"})),
     Sweep(FALSE, TRUE, 1, 1), Drain("MOMENTS"),
     Config(rows_only_image(Edges(n, [k \in 1 .. n - 1 |-> <<0, k, 4 - k>>]), QBias(n, arity), FALSE,
                            Rest(n, arity), {})),
     Drain("WORK"), Sample(TRUE, TRUE), Drain("STATE"), Drain("MOMENTS") >>

MCPlans == {Plain(Inward(4)), Plain(Star(5)), Sparse, Clamped, Rewrites, Resized, Bipolar, Many(4, 3, {1}), Many(8, 2, {0})}
==============================================================================
