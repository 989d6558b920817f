SPECIFICATION ReadsSpec
SYMMETRY Symmetry
CONSTANTS
  alice = alice
  bob = bob
  clearing = clearing
  nobody = nobody
  Accounts = {alice, bob, clearing}
  Overdrawable = {clearing}
  Transactions = {t1, t2, t3}
  Amounts = {1}
  Clients = {c1}
  Queries <- MCQueries
  Limits = {1, 2}
  Unset = Unset
  DayLength = 2
  LastInstant = 4
INVARIANTS
  ReadsTypeOK
  WalkMissesOnlyTies
  StatementsAddUp
  OverdrawnOnlyWhenOvertaken
