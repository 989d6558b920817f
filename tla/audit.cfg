SPECIFICATION Spec
SYMMETRY Symmetry
CONSTANTS
  Accounts = {a, b}
  Transactions = {t1, t2, t3}
  Amounts = {1, 2}
  MaxDamages = 2
INVARIANTS
  TypeOK
  AlarmsOnlyByCommits
  UnbalancedIsReported
  QuietAuditIsRight
