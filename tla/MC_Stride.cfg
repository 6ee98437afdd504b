SPECIFICATION Spec
CONSTANTS STRIDE = 6
          RUNTIME_CAP = 8
          Budgets = {1, 2, 3}
          MaxHarts = 3
          Boot <- BootOf
          ParentOf <- ParentsOf
          Awake = {1, 2}
          Runs = {0, 2}
          Carves = {1}
          MaxThreads = 2
          Fuel = 3
INVARIANTS QueueInStep RanksAgree RepickAsRoundTrip DebtExact
PROPERTY CapsFilled
CHECK_DEADLOCK FALSE
