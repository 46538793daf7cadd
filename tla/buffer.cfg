SPECIFICATION Spec
CONSTANTS
  Bytes = {0, 1}
  Capacity = 4
INVARIANTS
  TypeOK
  EmptyIsRewound
PROPERTY
  QueueSpec
