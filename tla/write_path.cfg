SPECIFICATION MCFairSpec
CONSTANTS
  k1 = k1
  k2 = k2
  k3 = k3
  ten = ten
  five = five
  Attempts = {1, 2, 3}
  Customers <- MCCustomers
  ClearingIds <- MCClearingIds
  Keys = {k1, k2, k3}
  Texts = {ten, five}
  Bodies <- MCBodySet
  NoAccount = NoAccount
  NoTransaction = NoTransaction
  MaxCrashes = 1
INVARIANTS
  TypeOK
  NoOverdraft
  CheckedBalanceHolds
  KeyAppliedOnce
  ChainLinear
  TipIsFinal
  LocksInOrder
  ColdStartNeverCollides
  AnswersAreTrue
  OutboxMirrorsLedger
PROPERTIES
  ImplementsLedger
  EveryCallEnds
