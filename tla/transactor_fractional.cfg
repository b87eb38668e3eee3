SPECIFICATION Spec
CONSTANTS
  OnChain = chain
  alice = alice
  bob = bob
  sups = sups
  unused = unused
  Users = {chain, alice, bob}
  Ledgers = {sups, unused}
  Scale = 2
  NumericLimit = 6
  Calls = {c1, c2}
  NoCall = NoCall
  Requests <- FractionalRequests
  Unparsable = Unparsable
  QueueCap = 1
  FeedCap = 1
  MaxCrashes = 1
  Seeds <- MCSeeds
  OpeningDebits <- MCOpeningDebits
  OpeningCredits <- MCOpeningCredits
SYMMETRY CallSymmetry
PROPERTY DriftCauses
PROPERTY ImplementsBank
