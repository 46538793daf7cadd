SPECIFICATION Spec
CONSTANTS
  Clients = {c1}
  Local = {u1}
  Foreign = {f1}
  Senders = {s1}
  NoAddress = NoAddress
  MaxUsers = 1
  SelectorSlots = 100
  Pipelining = FALSE
  MaxConnections = 1
  MaxLines = 6
  MaxWire = 1
CHECK_DEADLOCK FALSE
INVARIANT NoForeignRecipient
