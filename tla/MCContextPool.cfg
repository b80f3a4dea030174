SPECIFICATION Spec
CONSTANTS
  g1 = g1
  g2 = g2
  c1 = c1
  c2 = c2
  Goroutines = {g1, g2}
  Contexts = {c1, c2}
  MaxLength = 2
  BufSize = 2
  MaxCalls = 2
  Nobody = Nobody
  NoContext = NoContext
SYMMETRY Symmetry
INVARIANTS TypeOK Exclusive ReadsOwnWrites CellsExist
CHECK_DEADLOCK FALSE
