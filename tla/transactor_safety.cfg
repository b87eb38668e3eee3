SPECIFICATION Spec
CONSTANTS
  OnChain = chain
  alice = alice
  bob = bob
  sups = sups
  unused = unused
  Users = {chain, alice, bob}
  Ledgers = {sups, unused}
  Scale = 1
  NumericLimit = 100
  Calls = {c1, c2, c3}
  NoCall = NoCall
  Requests <- MCRequests
  Unparsable = Unparsable
  QueueCap = 1
  FeedCap = 1
  MaxCrashes = 1
  Seeds <- MCSeeds
  OpeningDebits <- MCOpeningDebits
  OpeningCredits <- MCOpeningCredits
SYMMETRY CallSymmetry
INVARIANT TypeOK
INVARIANT Lifecycle
INVARIANT OverdraftNeedsOrphan
INVARIANT RunnerFindsAccounts
PROPERTY DriftCauses
PROPERTY ImplementsBank
