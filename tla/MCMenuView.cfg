SPECIFICATION FairSpec
CONSTANTS
  a1 = a1  a2 = a2  a3 = a3  small = small  large = large
  UNSIZED = UNSIZED
  App = {a1, a2, a3}
  Name <- Names  Exec <- Execs  Alphabetical <- ByName
  Separator = {" ", "-", "_"}
  Letter = {"a", "b"}
  MaxQuery = 2
  Size = {small, large}
  MAX_ITEMS = 2
  MaxMaps = 2
  MaxUps = 1
  Calm = TRUE
CHECK_DEADLOCK FALSE
INVARIANTS FrameIsCurrent ListIsFiltered SelectionIsDrawn
PROPERTIES DrawsIntoMapping DirtyIsDrawn
