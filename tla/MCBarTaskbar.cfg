SPECIFICATION MCFairSpec
CONSTANTS
  w1 = w1  w2 = w2  w3 = w3  ghost = ghost
  NULL = NULL
  Window = {w1, w2, ghost}
  Leaked = {ghost}
  BAR_MAX_TOPLEVELS = 3
  Lossy = FALSE
  MaxQueue = 2
INVARIANTS PairedRight
PROPERTIES LiveEntriesStay GhostsGo
