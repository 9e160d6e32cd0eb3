SPECIFICATION LiveSpec
INVARIANT GuardsSound
INVARIANT DeletedStaysEmpty
PROPERTY HistoryKept
PROPERTY EventuallySettled
CHECK_DEADLOCK FALSE
CONSTANT n1 = n1
CONSTANT n2 = n2
CONSTANT h1 = h1
CONSTANT h2 = h2
CONSTANT w1 = w1
CONSTANTS
  Nodes = {n1, n2}
  Starters = {n1}
  Admins = {h1, h2}
  Writers = {w1}
  Nobody = Nobody
  MaxOps = 2
  MaxFaults = 2
