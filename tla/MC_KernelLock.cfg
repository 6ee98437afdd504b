CONSTANTS
  N = 2
  W = 3
  Others = {0, 1}
SPECIFICATION LockSpec
INVARIANTS
  LockTypeOK
  MutualExclusion
  FifoBound
  NoHaltPastTurn
PROPERTIES
  EveryTurnComes
  ImplementsFifo
