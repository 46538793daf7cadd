SPECIFICATION Spec
CONSTANTS
  Clients = {c1}
  Local = {u1,u2}
  Foreign = {f1}
  Senders = {s1}
  NoAddress = NoAddress
  MaxUsers = 1
  SelectorSlots = 100
  Pipelining = TRUE
  MaxConnections = 1
  MaxLines = 9
  MaxWire = 2
SYMMETRY Symmetry
CHECK_DEADLOCK FALSE
INVARIANTS
  DispatchSafe
  AckedRecipientsKept
  TransactionOrder
PROPERTIES
  QueuedMeansDelivered
