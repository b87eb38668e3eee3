SPECIFICATION Spec
CONSTANTS
  s1 = s1
  s2 = s2
  id1 = id1
  id2 = id2
  payer = payer
  payee = payee
  Streams = {s1, s2}
  Ids = {id1, id2}
  IdOf <- OwnIds
  NoStream = NoStream
  Accounts = {payer, payee}
  Lookups = {f1, f2}
  FeedCap = 1
  MaxRows = 2
  MaxObjects = 3
  Torn = Torn
CONSTRAINT Scenes
SYMMETRY Handlers
INVARIANT TypeOK
INVARIANT NoneMissed
INVARIANT NeverStale
INVARIANT OneCountedTwice
