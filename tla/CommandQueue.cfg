CONSTANTS
  W = 5
  QDEPTH = 2
  Args = {x}
  NoCommand = NoCommand
SPECIFICATION FairSpec
INVARIANTS OneCommandAtATime
PROPERTIES ProgramOrder PollEnds
