CONSTANTS
  t1 = t1  t2 = t2  t3 = t3  u = u  v = v
  None = None
  Senders = {t1, t2, t3, u, v}
  GroupOf <- MCGroupOf
  WaitCap = 2
  MaxClock = 6
SYMMETRY Sym
SPECIFICATION QueueSpec
CHECK_DEADLOCK FALSE
INVARIANTS
  AuditHolds
  FairTurns
PROPERTY
  ImplementsOrder
