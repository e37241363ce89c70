---------------------------- MODULE GibbsSchedule ----------------------------
(***************************************************************************)
(* Graphs of sites, their greedy colouring and the order in which a sweep  *)
(* visits them (golden/gibbs_grid.py).  A sweep visits colour after        *)
(* colour; the sites of one colour are updated together.                   *)
(***************************************************************************)
EXTENDS Integers, Sequences, FiniteSets, SequencesExt

\* adj[i]: the slots of site i, each a neighbour and a coupling
Graph(n) == [n |-> n, adj |-> [i \in 0 .. n - 1 |-> <<>>]]
GraphSites(g) == 0 .. g.n - 1

add_edge(g, i, j, jr) ==
  [g EXCEPT !.adj[i] = Append(@, [nbr |-> j, j |-> jr]),
            !.adj[j] = Append(@, [nbr |-> i, j |-> jr])]

check_degree(g, dmax) == \A i \in GraphSites(g) : Len(g.adj[i]) <= dmax

Adjacent(g, i) == {e.nbr : e \in ToSet(g.adj[i])}

\* In ascending order each site takes the least colour that no neighbour
\* coloured before it has.
coloring(g) ==
  LET col[i \in GraphSites(g)] ==
        Min((0 .. g.n) \ {col[j] : j \in {k \in Adjacent(g, i) : k < i}})
  IN  col

\* A torus of w x h sites, each tied to the next one right and below, and
\* diagonally too when it is a king's graph; J by <<row, column, row step, column step>>
Offsets(deg4) ==
  IF deg4 THEN << <<0, 1>>, <<1, 0>> >> ELSE << <<0, 1>>, <<1, 0>>, <<1, 1>>, <<1, -1>> >>
torus_king(w, h, J, deg4) ==
  LET d == Len(Offsets(deg4))
      tie(g, k) ==
        LET r == k \div (w * d)
            c == (k \div d) % w
            o == Offsets(deg4)[(k % d) + 1]
        IN  add_edge(g, r * w + c, ((r + o[1]) % h) * w + ((c + o[2]) % w), J[<<r, c, o[1], o[2]>>])
  IN  FoldLeft(tie, Graph(w * h), [k \in 1 .. w * h * d |-> k - 1])

\* A benchmark file's lines <<i, j, weight>>, its sites from 1; a weight of one
\* is eight units.
load_gset(n, lines) ==
  FoldLeft(LAMBDA g, l : add_edge(g, l[1] - 1, l[2] - 1, l[3] * 8), Graph(n), lines)

\* The weight of the edges between the two halves of m, a 0 or 1 for each site;
\* \div rounds down, as Python's // does.
cut_value(g, m) ==
  LET crossing(i) ==
        FoldLeft(LAMBDA t, e : IF e.nbr > i /\ m[i] # m[e.nbr] THEN t + e.j \div 8 ELSE t,
                 0, g.adj[i])
  IN  FoldLeft(LAMBDA t, i : t + crossing(i), 0, [k \in 1 .. g.n |-> k - 1])

\* The order lists the unclamped sites by colour and then by number; colour c
\* owns the positions from its bound's lo up to hi, counted from zero.
NumColors(g) == 1 + Max({coloring(g)[i] : i \in GraphSites(g)})
ColorClass(g, clamp, c) ==
  SetToSortSeq({i \in GraphSites(g) \ clamp : coloring(g)[i] = c}, <)
build_schedule(g, clamp) ==
  LET class == [c \in 1 .. NumColors(g) |-> ColorClass(g, clamp, c - 1)]
      upto(c) == FoldLeft(LAMBDA t, s : t + Len(s), 0, SubSeq(class, 1, c))
  IN  [order  |-> FlattenSeq(class),
       bounds |-> [c \in 1 .. NumColors(g) |-> [lo |-> upto(c - 1), hi |-> upto(c)]]]
==============================================================================
