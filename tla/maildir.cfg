SPECIFICATION FairSpec
CONSTANTS
  m1 = m1
  m2 = m2
  Mails <- MCMails
  Nodes <- MCNodes
  MaxPieces = 2
  MaxRestarts = 1
CHECK_DEADLOCK FALSE
INVARIANTS
  TypeOK
  NewIsWhole
  AnsweredIsInNew
PROPERTIES
  ChildrenFinish
