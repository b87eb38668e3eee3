SPECIFICATION Spec
CONSTANTS
  OnChain = chain
  alice = alice
  bob = bob
  sups = sups
  unused = unused
  Users = {chain, alice, bob}
  Ledgers = {sups, unused}
  Scale = 1
  NumericLimit = 100
  Calls = {c1, c2}
  NoCall = NoCall
  Requests <- NegativeRequests
  Unparsable = Unparsable
  QueueCap = 1
  FeedCap = 1
  MaxCrashes = 0
  Seeds <- MCSeeds
  OpeningDebits <- MCOpeningDebits
  OpeningCredits <- MCOpeningCredits
SYMMETRY CallSymmetry
INVARIANT OnlyOnChainNegative
