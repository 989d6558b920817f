SPECIFICATION FairSpec
CONSTANTS
  e1 = e1
  foreign = foreign
  bad = bad
  deposit = deposit
  unknown = unknown
  Events = {e1, foreign, bad}
  Kinds = {deposit}
  KindOf <- MCKindOf
  Malformed = {bad}
  Threads = {c1, c2}
  MaxMessages = 3
  MaxLapses = 2
  MaxRestarts = 1
INVARIANTS
  AckedWasCounted
  TotalsWithinBounds
PROPERTIES
  EveryMessageIsAcked
