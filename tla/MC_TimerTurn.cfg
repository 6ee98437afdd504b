CONSTANTS
  u = u
  t1 = t1
  t2 = t2
  Harts = {h1, h2}
  Root = Root
  None = None
  Threads = {t1, t2}
  Budgets = {Root, u}
  BudgetOf <- UserBudgetOf
  Parent <- UserParent
  Slice = 1
  MaxTime = 2
SPECIFICATION Spec
SYMMETRY Sym
INVARIANT
  Covered
