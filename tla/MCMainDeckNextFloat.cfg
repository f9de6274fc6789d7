SPECIFICATION Spec
CONSTANTS
  w1 = w1  w2 = w2  w3 = w3  w4 = w4
  NULL = NULL
  Window = {w1, w2, w3, w4}
  Size = {1}
  Floater = {w4}
  Capped = {}
  Unruly = {}
  Dialog = {}
  Game = {}
  Iconic = {}
  Titles <- NoTitles
  Key = {}
  MaxDepth = 3
  MaxBatch = 1
INVARIANTS DeckNextRotates
