------------------------------ MODULE MCSimtCore ------------------------------
(***************************************************************************)
(* Programs for the model checker.  Warp 0 runs every program of a family: *)
(* nested and adjacent if-then and if-then-else regions whose branches     *)
(* skip at least one instruction, with memory instructions, traps, forward *)
(* jumps and a loop, while the others spin.                                *)
(***************************************************************************)
EXTENDS SimtCore, TLC

\* Lanes are interchangeable: no instruction of the model names one.
LaneSymmetry == Permutations(Lanes)

Program(a, b, c, d) ==
  [p \in 0 .. 5 |-> CASE p = 0 -> a [] p = 1 -> b [] p = 2 -> c [] p = 3 -> d
                      [] p = 4 -> Iss!Alu [] p = 5 -> Iss!Jump(0)]

Family ==
  {Program(a, b, c, Iss!Mem) :
     a \in {Iss!Branch(2), Iss!Branch(4), Iss!Branch(5)},
     b \in {Iss!Mem, Iss!Jump(4)} \union {Iss!Branch(t) : t \in 3 .. 5},
     c \in {Iss!Alu, Iss!Illegal, Iss!Branch(1)} \union {Iss!Branch(t) : t \in 4 .. 5}}

Spin == [p \in 0 .. 5 |-> Iss!Jump(p)]

MCPrograms == {[w \in Warps |-> IF w = 0 THEN f ELSE Spin] : f \in Family}

(***************************************************************************)
(* Load for the walker.  A warp of Nest(...) runs some instructions once    *)
(* and then loops: d branches to one place, each taken by the lowest lane   *)
(* that is left, the instruction that all of these skip, and the place.     *)
(* An iteration pushes d entries and keeps the walker busy for 2 * d + 1    *)
(* cycles at its end.                                                       *)
(***************************************************************************)

\* A branch on the number of the lane: the lowest takes it, the last does not.
Peeled(mask) ==
  IF Cardinality(mask) <= 1 THEN {} ELSE {CHOOSE l \in mask : \A k \in mask : l <= k}

Nest(first, pad, d) ==
  LET loop == first + pad
      place == loop + d + 1
  IN  [p \in 0 .. place |-> IF p = place THEN Iss!Jump(first)
                            ELSE IF p \in loop .. place - 2 THEN Iss!Branch(place)
                            ELSE Iss!Alu]

\* Six warps whose walks fill every cycle: five nests of seven with walks of 15
\* cycles and one of six with 13, in a period of 88.  The walks start in turn,
\* highest warp first; the other two warps loop over one branch.
MCLoad ==
  {[w \in Warps |-> CASE w = 0 -> Nest(10, 1, 6)
                      [] w \in 1 .. 5 -> Nest(2 * (5 - w), 0, 7)
                      [] w > 5 -> Nest(0, 0, 1)]}

\* The edges at which every branch is on the number of the lane.
LaneNext == Edge(IF MayTake = {{}} THEN {} ELSE Peeled(stage["EX"].mask), TRUE)
LaneSpec == Init /\ [][LaneNext]_vars /\ WF_vars(LaneNext)
==============================================================================
