SPECIFICATION Spec
CONSTANTS
  CR = CR
  LF = LF
  Dot = Dot
  Others = {x}
  BufferSize = 5
  MaxBody = 7
CHECK_DEADLOCK FALSE
INVARIANT TerminatorEnds
