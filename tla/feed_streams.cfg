SPECIFICATION FairSpec
CONSTANTS
  s1 = s1
  s2 = s2
  id1 = id1
  id2 = id2
  payer = payer
  payee = payee
  Streams = {s1, s2}
  Ids = {id1}
  IdOf <- SameId
  NoStream = NoStream
  Accounts = {payer}
  Lookups = {}
  FeedCap = 1
  MaxRows = 2
  MaxObjects = 1
  Torn = Torn
PROPERTY EventsHandled
INVARIANT ReceivedInOrder
