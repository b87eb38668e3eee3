SPECIFICATION FairSpec
CONSTANTS
  a = a
  b = b
  late = late
  t1 = t1
  t2 = t2
  n1 = n1
  Accounts = {a, b, late}
  InitialAccounts = {a, b}
  Transfers = {t1, t2}
  NewTransfers = {n1}
  Parties <- MCParties
  MaxFails = 2
  MaxCuts = 1
INVARIANT TypeOK
INVARIANT PostedMeansCounted
INVARIANT CleanRunExplains
PROPERTY MovedOnce
PROPERTY ImplementsMove
PROPERTY MigrationEnds
