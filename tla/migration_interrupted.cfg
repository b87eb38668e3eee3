SPECIFICATION Spec
CONSTANTS
  a = a
  b = b
  late = late
  t1 = t1
  t2 = t2
  n1 = n1
  Accounts = {a, b, late}
  InitialAccounts = {a, b}
  Transfers = {t1, t2}
  NewTransfers = {n1}
  Parties <- MCParties
  MaxFails = 1
  MaxCuts = 0
INVARIANT AllTransfersMoved
