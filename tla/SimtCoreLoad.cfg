CONSTANTS
  W = 8
  Lanes = {0, 1, 2, 3, 4, 5, 6, 7}
  STK = 8
  Handler = 0
  Programs <- MCLoad
SPECIFICATION LaneSpec
PROPERTIES ReadyWarpRetires
