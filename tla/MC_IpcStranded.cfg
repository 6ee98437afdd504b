CONSTANTS
  ta = ta  tb = tb  ts = ts  tr = tr  ti = ti  PA = PA
  PB = PB  PS = PS  PI = PI  BA = BA  BB = BB  BS = BS
  BI = BI  E = E  X = X  g = g  f1 = f1  f2 = f2
  None = None
  Threads = {ta, tb, ts, tr}
  Pids = {PA, PB, PS}
  Endpoints = {E}
  Budgets = {BA, BB, BS}
  Pages = {}
  Frames = {f1, f2}
  ProcOf <- MCProcOf
  BudgetOf <- MCBudgetOf
  GroupOf <- MCGroupOf
  OwnerOf <- MCOwnerOf
  ExitTo <- NoExitTo
  Handles <- MCHandles
  Receives <- MCReceives
  Flows <- MCFlows
  Subtree <- Flat
  FirstOwner <- MCFirstOwner
  Limit <- MCLimit
  Mortal = {}
  WaitCap = 2
  MaxOpenCalls = 1
  Deadlines = {"never"}
  MaxBuffer = 1
  Maxes = {1}
  Turners = {}
  Mappers = {}
  Exiting = {ts}
  Dying = {}
INIT Init
NEXT Next
CHECK_DEADLOCK FALSE
INVARIANTS
  NothingStranded
