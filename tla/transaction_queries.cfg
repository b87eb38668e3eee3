SPECIFICATION Spec
CONSTANTS
  Ids = {1, 2}
  TransferOf <- MCTransferOf
  Account = 1
  MigratedRows <- MCMigratedRows
  StartTime = 0
  PageSizes = {1, 2}
  MaxAttempts = 2
INVARIANT TypeOK
INVARIANT NoneSkipped
INVARIANT RepeatsExplained
INVARIANT TwiceMeansUnsettled
