SPECIFICATION MCSpec
CONSTANTS
  k1 = k1
  k2 = k2
  k3 = k3
  ten = ten
  five = five
  Attempts = {1, 2}
  Customers <- MCCustomers
  ClearingIds <- MCClearingIds
  Keys = {k1, k2, k3}
  Texts = {ten, five}
  Bodies <- MCBodySet
  NoAccount = NoAccount
  NoTransaction = NoTransaction
  MaxCrashes = 0
PROPERTIES
  DuplicateGetsOriginal
