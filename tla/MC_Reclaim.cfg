CONSTANTS
  NHarts = 2
  NFrames = 3
  Pids = {p}
  Object = Object
  StageMax = 2
  CommitMax = 1
SPECIFICATION Spec
INVARIANTS
  InFlightOnce
  FreeZero
  QuietDrained
PROPERTY AllocAnswered
