SPECIFICATION Spec
CONSTANTS
  DomainRoom = 2
  ArgRoom = 3
INVARIANTS
  TypeOK
  CommandAsSpelled
  DoneAtLineEnd
