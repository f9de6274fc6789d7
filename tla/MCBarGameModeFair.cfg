SPECIFICATION FairSpec
CONSTANTS
  w1 = w1  w2 = w2
  NULL = NULL
  Window = {w1}
  Child = {}
  Lossy = FALSE
  MaxQueue = 2
INVARIANTS NoRedrawLost
PROPERTIES BarReturns
