--------------------------------- MODULE PBit ---------------------------------
(***************************************************************************)
(* The probabilistic bit's frozen arithmetic (golden/pbit.py), with the    *)
(* widths as constants: the sigmoid table has LUT_N entries in units of    *)
(* 1/ONE, and a random word's decision field is what is left above LOW.    *)
(***************************************************************************)
EXTENDS Integers, Sequences, SequencesExt

CONSTANTS LUT, LUT_N, ONE, LOW, ACC_MIN, ACC_MAX

ASSUME LutAssumption ==
  /\ LUT_N \in Nat \ {0} /\ ONE \in Nat /\ LOW \in Nat \ {0}
  /\ LUT \in [0 .. LUT_N - 1 -> 0 .. ONE]

\* Saturating quantizers of a coupling and an inverse temperature, their
\* argument a number of eighths or sixty-fourths already rounded
q_s163(r) == IF r < -511 THEN -511 ELSE IF r > 511 THEN 511 ELSE r
q_beta(r) == IF r < 0 THEN 0 ELSE IF r > 255 THEN 255 ELSE r

\* neighbors: a sequence of couplings with the neighbour's spin
Contribution(j, s, bipolar) == IF s = 1 THEN j ELSE IF bipolar THEN -j ELSE 0
mac(bias, neighbors, bipolar) ==
  FoldLeft(LAMBDA acc, e : acc + Contribution(e.j, e.s, bipolar), bias, neighbors)
MacInRange(bias, neighbors, bipolar) == mac(bias, neighbors, bipolar) \in ACC_MIN .. ACC_MAX

\* Sign and magnitude, halves away from zero, saturated at the table's end; a
\* negative product reads the table from the other side.
Magnitude(prod) ==
  LET half == ((IF prod < 0 THEN -prod ELSE prod) + 1) \div 2
  IN  IF half > LUT_N - 1 THEN LUT_N - 1 ELSE half
p17(acc, beta) ==
  LET prod == acc * beta
      pl   == LUT[Magnitude(prod)]
  IN  IF prod < 0 THEN ONE - pl ELSE pl

decision(acc, beta, rnd) == IF rnd \div LOW < p17(acc, beta) THEN 1 ELSE 0
===============================================================================
