SPECIFICATION FairSpec
CONSTANTS
  Clients = {c1}
  Local = {u1}
  Foreign = {}
  Senders = {s1}
  NoAddress = NoAddress
  MaxUsers = 1
  SelectorSlots = 100
  Pipelining = TRUE
  MaxConnections = 1
  MaxLines = 2
  MaxWire = 2
CHECK_DEADLOCK FALSE
PROPERTY PipelinedLinesTaken
