----------------------------- MODULE FabricAnchor -----------------------------
(***************************************************************************)
(* The floating-point anchor of the sampling fabric                        *)
(* (golden/fabric_anchor.py): an ensemble of replicas of n sites under     *)
(* symmetric couplings J and biases b.  Couplings are whole numbers here,  *)
(* energies are doubled, and a drawn bit is an input: at any temperature   *)
(* both values of it have a chance.                                        *)
(***************************************************************************)
EXTENDS Integers, Sequences, FiniteSets, FiniteSetsExt, SequencesExt

CONSTANTS n, R, DENSE

Sites == 0 .. n - 1
Replicas == 0 .. R - 1
Unset == <<>>
ZeroJ == [i \in Sites |-> [j \in Sites |-> 0]]
ZeroB == [i \in Sites |-> 0]
SumOver(Op(_), S) == MapThenSumSet(Op, S)

Coupled(J, i) == {j \in Sites : J[i][j] # 0}
greedy_coloring(J) ==
  LET col[i \in Sites] == Min((0 .. n) \ {col[j] : j \in {k \in Coupled(J, i) : k < i}})
      last == Max({col[i] : i \in Sites})
  IN  [c \in 1 .. last + 1 |-> {i \in Sites : col[i] = c - 1}]

Fabric(S0) ==
  [J |-> ZeroJ, b |-> ZeroB, S |-> S0, pattern |-> Unset, colors |-> <<Sites>>,
   coupling_writes |-> 0, border_bytes |-> 0, total_sweeps |-> 0,
   work |-> [r \in Replicas |-> 0], m1 |-> ZeroB, m2 |-> ZeroJ, cnt |-> 0]

\* Twice the energy of a state
Energy2(J, b, s) ==
  -SumOver(LAMBDA i : s[i] * (SumOver(LAMBDA j : J[i][j] * s[j], Sites) + 2 * b[i]), Sites)
energy(f) == [r \in Replicas |-> Energy2(f.J, f.b, f.S[r])]

(***************************************************************************)
(* The interface                                                           *)
(***************************************************************************)

NoDiagonal(J) == [i \in Sites |-> [j \in Sites |-> IF i = j THEN 0 ELSE J[i][j]]]
Degrees(J) == [i \in Sites |-> Cardinality(Coupled(J, i))]
NewColors(J) ==
  IF Max({Degrees(J)[i] : i \in Sites}) > DENSE THEN [c \in 1 .. n |-> {c - 1}]
  ELSE greedy_coloring(J)
\* The colours are made again when the degrees have changed.
SetJ(f, J) ==
  LET K == NoDiagonal(J)
  IN  [f EXCEPT !.J = K,
                !.coupling_writes = @ + SumOver(LAMBDA i : Degrees(K)[i], Sites) \div 2,
                !.pattern = Degrees(K),
                !.colors = IF Degrees(K) # f.pattern THEN NewColors(K) ELSE @]
SetB(f, b) == [f EXCEPT !.b = b, !.coupling_writes = @ + n]
\* Unset stands for an argument that is not given.
pconfig(f, J, b) ==
  LET f1 == IF J # Unset THEN SetJ(f, J) ELSE f
      f2 == IF b # Unset THEN SetB(f1, b) ELSE f1
  IN  [f2 EXCEPT !.work = [r \in Replicas |-> @[r] + energy(f2)[r] - energy(f)[r]]]

\* One colour after the other: draw[r][i] is the bit drawn for a site, a clamped
\* site takes the value it is held at.
SweepColors(f, clamp, held, draw) ==
  FoldLeft(LAMBDA S, C : [r \in Replicas |-> [i \in Sites |->
             IF i \notin C THEN S[r][i] ELSE IF i \in clamp THEN held[i] ELSE draw[r][i]]],
           f.S, f.colors)
Accumulate(f) ==
  [f EXCEPT !.m1 = [i \in Sites |-> @[i] + SumOver(LAMBDA r : f.S[r][i], Replicas)],
            !.m2 = [i \in Sites |-> [j \in Sites |->
                      @[i][j] + SumOver(LAMBDA r : f.S[r][i] * f.S[r][j], Replicas)]],
            !.cnt = @ + R]
\* draws: for each sweep in turn
psample(f, clamp, held, record, thin, draws) ==
  LET f1 == [f EXCEPT !.S = [r \in Replicas |-> [i \in Sites |->
                               IF i \in clamp THEN held[i] ELSE @[r][i]]]]
      one(g, t) ==
        LET g1 == [g EXCEPT !.S = SweepColors(g, clamp, held, draws[t]), !.total_sweeps = @ + 1]
        IN  IF record /\ (t - 1) % thin = 0 THEN Accumulate(g1) ELSE g1
  IN  FoldLeft(one, f1, [t \in DOMAIN draws |-> t])

\* A drain of moments counts the present state when nothing has been counted.
Counted(f) == IF f.cnt = 0 THEN Accumulate(f) ELSE f
pdrain(f, mode) ==
  CASE mode = "state" -> [f EXCEPT !.border_bytes = @ + R * n]
    [] mode = "mean"  -> [Counted(f) EXCEPT !.border_bytes = @ + n * 4]
    [] OTHER          -> [Counted(f) EXCEPT !.border_bytes = @ + n * n * 4]
\* The covariance times the square of the count
Covariance(f) ==
  [i \in Sites |-> [j \in Sites |-> f.cnt * f.m2[i][j] - f.m1[i] * f.m1[j]]]

reset_stats(f) == [f EXCEPT !.m1 = ZeroB, !.m2 = ZeroJ, !.cnt = 0]
reset_work(f) == [f EXCEPT !.work = [r \in Replicas |-> 0]]
\* (mutant) The replicas are drawn again, their work stays.
WorkStays(f, idx) == [f EXCEPT !.S = [r \in Replicas |-> @[idx[r]]]]
resample(f, idx) ==
  [f EXCEPT !.S = [r \in Replicas |-> @[idx[r]]], !.work = [r \in Replicas |-> @[idx[r]]]]
reset_state(f, S) == [f EXCEPT !.S = S]

(***************************************************************************)
(* Oracles                                                                 *)
(***************************************************************************)

all_states == [Sites -> {0, 1}]
\* Twice each state's energy above the lowest one, what its weight depends on
ExcessEnergy(J, b) ==
  LET least == Min({Energy2(J, b, s) : s \in all_states})
  IN  [s \in all_states |-> Energy2(J, b, s) - least]

\* From spins of -1 and 1 to bits; A: doubled once, made symmetric by adding its
\* transpose, so J and b come out doubled.
quadratic_to_ising(A, h) ==
  LET off == [i \in Sites |-> [j \in Sites |-> IF i = j THEN 0 ELSE A[i][j] + A[j][i]]]
  IN  [J2 |-> [i \in Sites |-> [j \in Sites |-> -8 * off[i][j]]],
       b2 |-> [i \in Sites |-> 4 * SumOver(LAMBDA j : off[i][j], Sites) - 4 * h[i]]]
===============================================================================
