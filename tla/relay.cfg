SPECIFICATION FairSpec
CONSTANTS
  Transactions = {t1, t2}
  Relays = {r1, r2}
  Limits = {1, 2}
  MaxFaults = 2
INVARIANTS
  OlderFirst
  OvertakesOnlyUnread
  DuplicatesAreBounded
PROPERTIES
  ImplementsQueue
  EveryEventIsSent
