CONSTANTS
  Blocks = {a, b}
  MaxTx = 2
  FaultSets = {{"power", "restart"}}
  MaxFaults = 2
  Hash = Hash
  Header = Header
  Torn = Torn
  None = None
SPECIFICATION Spec
CHECK_DEADLOCK FALSE
INVARIANT BeforeOrAfter
