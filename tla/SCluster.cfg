CONSTANTS
  LUT <- MCLut
  LUT_N = 3
  ONE = 4
  LOW = 64
  ACC_MIN <- MCAccMin
  ACC_MAX = 64
  P_LANES = 3
  DEG_MAX = 4
  COLORS_MAX = 3
  R_MAX = 2
  SEED_WORDS = 2
  STATE_SITES <- MCStateSites
  RID_SITES = 2
  GLUT <- MCGlut
  BYTES = 4
  NB = 6
  WORDS <- MCWords
  FACE_CRED = 2
  ROW_SITES = 16
  Plans <- MCPlans
SPECIFICATION FairClusterSpec
INVARIANTS FaceCredits ArchGolden DrainGolden
PROPERTIES CommandEnds
