SPECIFICATION Spec
CONSTANTS
  Clients = {c1,c2}
  Local = {u1,u2}
  Foreign = {}
  Senders = {s1}
  NoAddress = NoAddress
  MaxUsers = 2
  SelectorSlots = 100
  Pipelining = FALSE
  MaxConnections = 2
  MaxLines = 9
  MaxWire = 1
SYMMETRY Symmetry
CHECK_DEADLOCK FALSE
INVARIANTS
  TypeOK
  FilesMatchRecipients
  FilesNotShared
  NewMailComplete
  MailsCounted
  OnlyNamedRecipients
PROPERTIES
  OnlyOwnerChangesFile
  TransactionSpec
