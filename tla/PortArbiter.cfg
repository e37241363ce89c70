CONSTANTS
  CRED = 4
  CRED_B = 4
  CRED_C = 4
  MaxPhase = 8
  Overlap = FALSE
SPECIFICATION FairSpec
INVARIANTS AnswerRouted NoOverrun InOrderExactlyOnce
PROPERTIES CoreServed EveryBeatAnswered
