SPECIFICATION Spec
CONSTANTS
  s1 = s1
  s2 = s2
  id1 = id1
  id2 = id2
  payer = payer
  payee = payee
  Streams = {s1, s2}
  Ids = {id1}
  IdOf <- SameId
  NoStream = NoStream
  Accounts = {payer, payee}
  Lookups = {}
  FeedCap = 1
  MaxRows = 1
  MaxObjects = 1
  Torn = Torn
INVARIANT NoneMissed
