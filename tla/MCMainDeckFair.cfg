SPECIFICATION FairSpec
CONSTANTS
  w1 = w1  w2 = w2  w3 = w3  w4 = w4
  NULL = NULL
  Window = {w1, w2}
  Size = {1}
  Floater = {w2}
  Capped = {w1}
  Unruly = {w1}
  Dialog = {w2}
  Game = {w1}
  Iconic = {w2}
  Titles <- NoTitles
  Key = {"SWAP_MAIN_DECK"}
  MaxDepth = 3
  MaxBatch = 2
PROPERTIES ActivationTaken ClosedWindowGoes
