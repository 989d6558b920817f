SPECIFICATION Spec
CONSTANTS
  e1 = e1
  foreign = foreign
  bad = bad
  deposit = deposit
  unknown = unknown
  Events = {e1}
  Kinds = {deposit}
  KindOf <- MCKindOf
  Malformed = {}
  Threads = {c1, c2}
  MaxMessages = 2
  MaxLapses = 0
  MaxRestarts = 0
INVARIANTS
  RedeliveryIsNoOp
