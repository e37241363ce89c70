CONSTANTS
  Addrs = {a1}
  Values = {v0, v1}
  Initial = v0
  Ack = Ack
  NoAnswer = NoAnswer
  NoBeat = NoBeat
  CRED = 3
  DEPTH = 4
  HostWaits = TRUE
SPECIFICATION FairSpec
INVARIANTS CreditsCoverRing
PROPERTIES FlatMemoryFace EveryBeatAcked
