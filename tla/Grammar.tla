------------------------------- MODULE Grammar -------------------------------
(***************************************************************************)
(* The toy grammar on which learning is judged (golden/grammar.py): a      *)
(* probabilistic automaton, the exact distribution of its windows, their   *)
(* encoding as visible bits and the exact likelihood of a window under a   *)
(* model of visible and hidden sites.  A probability is a numerator.       *)
(***************************************************************************)
EXTENDS GibbsSchedule, FiniteSetsExt

CONSTANTS N_STATES, SYM_BITS, L, N_HID, DEG,
          STATIONARY,  \* what the stationary weights add up to
          TOP          \* an energy no state exceeds in magnitude

N_SYM == 2 ^ SYM_BITS
N_VIS == SYM_BITS * L
AutStates == 0 .. N_STATES - 1
Syms == 0 .. N_SYM - 1
Windows == 0 .. N_SYM ^ L - 1
Sigma(Op(_), S) == MapThenSumSet(Op, S)
Bits(count) == [0 .. count - 1 -> {0, 1}]

\* trans[q]: a sequence of rules [sym, p, next]
state_matrix(trans) ==
  [q \in AutStates |-> [s \in Syms |-> [qn \in AutStates |->
     FoldLeft(LAMBDA t, r : IF r.sym = s /\ r.next = qn THEN t + r.p ELSE t, 0, trans[q])]]]
Total(T) == Sigma(LAMBDA s : Sigma(LAMBDA qn : T[0][s][qn], AutStates), Syms)
stationary(T) ==
  LET P(q, qn) == Sigma(LAMBDA s : T[q][s][qn], Syms)
  IN  CHOOSE pi \in [AutStates -> 0 .. STATIONARY] :
        /\ Sigma(LAMBDA q : pi[q], AutStates) = STATIONARY
        /\ \A qn \in AutStates : Sigma(LAMBDA q : pi[q] * P(q, qn), AutStates) = Total(T) * pi[qn]

\* The i-th symbol of a window, from zero, the first in the highest digit
Symbol(widx, i) == (widx \div 2 ^ (SYM_BITS * (L - 1 - i))) % N_SYM
\* The weights of the automaton states, added up, after the window's symbols
window_weight(trans, widx) ==
  LET T == state_matrix(trans)
      alpha[i \in 0 .. L] ==
        IF i = 0 THEN stationary(T)
        ELSE [qn \in AutStates |->
               Sigma(LAMBDA q : alpha[i - 1][q] * T[q][Symbol(widx, i - 1)][qn], AutStates)]
  IN  Sigma(LAMBDA q : alpha[L][q], AutStates)
window_dist(trans) == [w \in Windows |-> window_weight(trans, w)]

\* (mutant) The lowest bit first.
LowestFirst(widx) == [k \in 0 .. N_VIS - 1 |-> (widx \div 2 ^ k) % 2]
\* The highest bit comes first.
encode_window(widx) == [k \in 0 .. N_VIS - 1 |-> (widx \div 2 ^ (N_VIS - 1 - k)) % 2]

(***************************************************************************)
(* The model                                                               *)
(***************************************************************************)

\* Hidden site after hidden site ties itself to the visible sites picked for it,
\* as long as neither end has all the slots it may have.
build_model_graph(picks) ==
  LET Tie(gr, v, hid) ==
        IF Len(gr.adj[v]) < DEG /\ Len(gr.adj[hid]) < DEG THEN add_edge(gr, v, hid, 0) ELSE gr
  IN  FoldLeft(LAMBDA gr, m : FoldLeft(LAMBDA g2, v : Tie(g2, v, N_VIS + m - 1), gr, picks[m]),
               Graph(N_VIS + N_HID), [m \in 1 .. N_HID |-> m])
edge_list(gr) ==
  FlattenSeq([i \in 1 .. gr.n |->
    LET higher == SelectSeq(gr.adj[i - 1], LAMBDA e : e.nbr > i - 1)
    IN  [k \in DOMAIN higher |-> <<i - 1, higher[k].nbr>>]])

\* J: symmetric, of whole numbers, and a unit of energy halves a weight.
Half(J, x, lo, count) ==
  Sigma(LAMBDA i : Sigma(LAMBDA j : J[lo + i][lo + j] * x[i] * x[j], 0 .. count - 1),
        0 .. count - 1) \div 2
BlockEnergy(J, h, x, lo, count) ==
  -Half(J, x, lo, count) - Sigma(LAMBDA i : x[i] * h[lo + i], 0 .. count - 1)
Cross(J, v, x) ==
  Sigma(LAMBDA i : v[i] * Sigma(LAMBDA j : J[i][N_VIS + j] * x[j], 0 .. N_HID - 1), 0 .. N_VIS - 1)
\* A visible state's weight adds up its hidden states.
VisibleWeight(J, h, v) ==
  Sigma(LAMBDA x : 2 ^ (TOP - (BlockEnergy(J, h, v, 0, N_VIS) + BlockEnergy(J, h, x, N_VIS, N_HID)
                               - Cross(J, v, x))), Bits(N_HID))
\* The tables are indexed by a number whose bit k is visible site k.
RowOf(v) == Sigma(LAMBDA k : v[k] * 2 ^ k, 0 .. N_VIS - 1)
RowState(row) == [k \in 0 .. N_VIS - 1 |-> (row \div 2 ^ k) % 2]
exact_ll(J, h, widx) ==
  LET table == [row \in 0 .. 2 ^ N_VIS - 1 |-> VisibleWeight(J, h, RowState(row))]
  IN  [p |-> table[RowOf(encode_window(widx))],
       z |-> Sigma(LAMBDA row : table[row], 0 .. 2 ^ N_VIS - 1)]
==============================================================================
