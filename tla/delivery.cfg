SPECIFICATION FairSpec
CONSTANTS
  deposit = deposit
  Transactions = {t1, t2}
  Relays = {r1}
  Limits = {2}
  MaxFaults = 1
  Kinds = {deposit}
  KindOf <- MCKindOf
  Threads = {c1}
  MaxMessages = 4
  MaxLapses = 0
  MaxRestarts = 1
INVARIANTS
  NothingInventedNothingLost
PROPERTIES
  EveryCommitIsHandled
