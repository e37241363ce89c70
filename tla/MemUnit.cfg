CONSTANTS
  Unit = 2
  Old = Old
  L = 3
  Words = 3
  Sizes = {1, 2}
SPECIFICATION FairSpec
INVARIANTS LaneSerialEffect BeatsInGoldenOrder
PROPERTIES EveryInstructionDrains
