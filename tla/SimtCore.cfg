CONSTANTS
  W = 5
  Lanes = {l0, l1, l2, l3}
  STK = 2
  Handler = 5
  Programs <- MCPrograms
SYMMETRY LaneSymmetry
SPECIFICATION Spec
INVARIANTS OnePlace StackNested
PROPERTIES GoldenTrajectory
