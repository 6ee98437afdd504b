CONSTANTS
  Harts = {h1, h2}
  Pids = {p, q}
  Frames = {f}
  MaxThreads = 2
  None = None
SPECIFICATION Spec
SYMMETRY Sym
INVARIANTS
  TranslationsCurrent
  FreeUnreachable
  RunsOnlyTheLiving
  NoLostWork
  NoLostInterrupt
