SPECIFICATION SupervisionSpec
CONSTANTS
  Clients = {c1,c2,c3}
  Local = {u1}
  Foreign = {}
  Senders = {s1}
  NoAddress = NoAddress
  MaxUsers = 1
  SelectorSlots = 2
  Pipelining = FALSE
  MaxConnections = 4
  MaxLines = 1
  MaxWire = 1
  Peers = {p1,p2}
SYMMETRY Symmetry
CHECK_DEADLOCK FALSE
INVARIANTS
  SupervisionTypeOK
  ServedWithinLimit
  LoggedInByTwoWords
  ToldUsers
  ToldBytes
PROPERTIES
  RejectedStayRejected
