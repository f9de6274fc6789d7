SPECIFICATION BarFairSpec
CONSTANTS
  b1 = b1  b2 = b2  b3 = b3  NOBODY = NOBODY
  Bar = {b1, b2, b3}
  Tries = 3
INVARIANTS OneBar HolderIsNamed
PROPERTIES StartRuns
