SPECIFICATION FairSpec
CONSTANTS
  OnChain = chain
  alice = alice
  bob = bob
  sups = sups
  unused = unused
  Users = {chain, alice, bob}
  Ledgers = {sups, unused}
  Scale = 1
  NumericLimit = 100
  Calls = {c1, c2}
  NoCall = NoCall
  Requests <- LiveRequests
  Unparsable = Unparsable
  QueueCap = 1
  FeedCap = 1
  MaxCrashes = 1
  Seeds <- MCSeeds
  OpeningDebits <- MCOpeningDebits
  OpeningCredits <- MCOpeningCredits
PROPERTY CallsAnswered
INVARIANT ClosedMeansQuiet
INVARIANT NobodyForgotten
