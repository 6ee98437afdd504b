CONSTANTS
  Blocks = {a, b}
  MaxTx = 3
  FaultSets = {{"power", "io"}, {"restart", "io"}}
  MaxFaults = 3
  Hash = Hash
  Header = Header
  Torn = Torn
  None = None
SPECIFICATION Spec
CHECK_DEADLOCK FALSE
INVARIANT BeforeOrAfter
PROPERTY ImplementsAtomicStore
