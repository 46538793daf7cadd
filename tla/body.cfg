SPECIFICATION Spec
CONSTANTS
  CR = CR
  LF = LF
  Dot = Dot
  Others = {x}
  BufferSize = 4
  MaxBody = 8
CHECK_DEADLOCK FALSE
INVARIANTS
  TypeOK
  DoneAtTerminator
  OnlyExcessLost
