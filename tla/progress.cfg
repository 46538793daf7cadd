SPECIFICATION FairSpec
CONSTANTS
  Clients = {c1,c2}
  Local = {u1}
  Foreign = {}
  Senders = {s1}
  NoAddress = NoAddress
  MaxUsers = 1
  SelectorSlots = 100
  Pipelining = FALSE
  MaxConnections = 2
  MaxLines = 6
  MaxWire = 1
CHECK_DEADLOCK FALSE
PROPERTIES
  EveryLineTaken
  EveryReplySent
  EndedMailDelivered
