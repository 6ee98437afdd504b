CONSTANTS
  Blocks = {b1, b2, b3}
  Inodes = {i1, i2}
  Root = Root
  Names = {x, y}
  Direct = 1
  Per = 2
  Slots = 1
  Handles = {h, g}
  MaxSize = 3
  MaxOps = 7
  MaxCuts = 2
  None = None
SPECIFICATION Spec
CHECK_DEADLOCK FALSE
INVARIANTS
  Sound
  TreeAtomic
  HandlesHold
PROPERTY EndsServing
