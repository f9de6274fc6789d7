SPECIFICATION Spec
CONSTANTS
  w1 = w1  w2 = w2  w3 = w3  w4 = w4
  NULL = NULL
  Window = {w1, w2, w3, w4}
  Size = {1}
  Floater = {}
  Capped = {}
  Unruly = {}
  Dialog = {}
  Game = {}
  Iconic = {w1, w2, w3, w4}
  Titles <- NoTitles
  Key = {"TOGGLE_TARGET", "SWAP_MAIN_DECK", "DECK_NEXT", "DECK_PREV", "CLOSE_TARGET",
         "SEND_TARGET_TO_DECK_BOTTOM", "PROMOTE_TARGET_TO_MAIN", "MAXIMIZE_TARGET",
         "RESTORE", "TOGGLE_MAXIMIZE"}
  MaxDepth = 3
  MaxBatch = 2
INVARIANTS TargetIsShown
PROPERTIES ActivationLands ListIsSound ImplementsDeck
SYMMETRY PlainWindows
