CONSTANTS
  ScratchAddrs = {s1}
  ExtAddrs = {e1}
  Values = {v0, v1}
  Initial = v0
  CRED = 4
  Ack = Ack
  NoAnswer = NoAnswer
  NoBeat = NoBeat
  Junk = Junk
SPECIFICATION FairSpec
INVARIANTS OneResponsePerBeat
PROPERTIES FlatMemoryFace EveryBeatFires
