SPECIFICATION Spec
CONSTANTS
  w1 = w1  w2 = w2  w3 = w3  w4 = w4
  NULL = NULL
  Window = {w1, w2, w3}
  Size = {1}
  Floater = {}
  Capped = {w2}
  Unruly = {}
  Dialog = {w2}
  Game = {w2}
  Iconic = {w2}
  Titles <- TwoTitled
  Key = {}
  MaxDepth = 3
  MaxBatch = 2
INVARIANTS TypeOK NoDangling FocusFollowsTarget NoLostWakeup
INVARIANTS BarHiddenOnlyForFullscreen
