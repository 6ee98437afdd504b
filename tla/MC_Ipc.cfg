CONSTANTS
  ta = ta  tb = tb  ts = ts  tr = tr  ti = ti  PA = PA
  PB = PB  PS = PS  PI = PI  BA = BA  BB = BB  BS = BS
  BI = BI  E = E  X = X  g = g  f1 = f1  f2 = f2
  None = None
  Threads = {ta, tb, ts, ti}
  Pids = {PA, PS, PI}
  Endpoints = {E, X}
  Budgets = {BA, BB, BS, BI}
  Pages = {g}
  Frames = {f1, f2}
  ProcOf <- JointProcOf
  BudgetOf <- MCBudgetOf
  GroupOf <- MCGroupOf
  OwnerOf <- MCOwnerOf
  ExitTo <- MCExitTo
  Handles <- EndHandles
  Receives <- MCReceives
  Flows <- MCFlows
  Subtree <- Nested
  FirstOwner <- MCFirstOwner
  Limit <- MCLimit
  Mortal = {BA, BB, BS}
  WaitCap = 1
  MaxOpenCalls = 1
  Deadlines = {"later", "now"}
  MaxBuffer = 1
  Maxes = {1}
  Turners = {ts, ti}
  Mappers = {ts}
  Exiting = {tb}
  Dying = {ta, ts}
SPECIFICATION Spec
CHECK_DEADLOCK FALSE
INVARIANTS
  TypeOK
  ChargesBalance
  LendsHeld
  ListsAgree
  NothingDeadAwaited
  LendTold
  NothingStranded
PROPERTIES
  EntriesEnd
  CallsReturn
