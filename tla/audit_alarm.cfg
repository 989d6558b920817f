SPECIFICATION Spec
CONSTANTS
  Accounts = {a, b}
  Transactions = {t1, t2}
  Amounts = {1}
  MaxDamages = 0
INVARIANTS
  SoundLedgerPasses
