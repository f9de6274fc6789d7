SPECIFICATION MenuFairSpec
CONSTANTS
  p1 = p1  p2 = p2  p3 = p3  p4 = p4
  NONE = NONE
  Proc = {p1, p2, p3, p4}
  MaxQueue = 2
  Alone = TRUE
  Kills = TRUE
CHECK_DEADLOCK FALSE
INVARIANTS OneMenu MenuReachable
PROPERTIES StartOpens StartCloses
