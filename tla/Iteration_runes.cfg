SPECIFICATION FairSpec
CONSTANTS
  MaxLength = 3
  MaxTrailing = 1
  MaxLimit = 2
INVARIANTS TypeOK InOrder NothingSkipped KeepsOutside
PROPERTIES Terminates Implements
