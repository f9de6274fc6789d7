SPECIFICATION Spec
CONSTANTS
  w1 = w1  w2 = w2
  NULL = NULL
  Window = {w1, w2}
  Child = {w2}
  Lossy = FALSE
  MaxQueue = 3
INVARIANTS BarBackAfterGame
