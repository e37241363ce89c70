CONSTANTS
  Commands <- MCCommands
  NoCommand = NoCommand
  CRED = 4
  LANES = 2
  WordBytes = 4
  TileBytes = 12
SPECIFICATION FairSpec
INVARIANTS ResultGolden
PROPERTIES EveryCommandEnds
