SPECIFICATION ScreenFairSpec
CONSTANTS
  w1 = w1  w2 = w2  w3 = w3
  o1 = o1  o2 = o2
  NULL = NULL
  Window = {w1, w2}
  Size = {1}
  Floater = {}
  Capped = {w2}
  Unruly = {}
  Dialog = {w2}
  Game = {w1}
  Iconic = {w1}
  Titles <- NoTitles
  Key = {"TOGGLE_TARGET", "DECK_NEXT"}
  MaxDepth = 3
  MaxBatch = 1
  Output = {o1}
  Removable = {}
  Box = {1}
  Async = {w1}
INVARIANTS LayoutIsShown StackMatches FullscreenMatches
PROPERTIES ActivationTaken ClosedWindowGoes
