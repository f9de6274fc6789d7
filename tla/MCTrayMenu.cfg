SPECIFICATION Spec
CONSTANTS
  s1 = s1  s2 = s2  s3 = s3
  NONE = NONE
  Service = {s1, s2, s3}
  TRAY_MAX = 3
  MaxCalls = 2
  Patient = TRUE
  Stays = TRUE
  Games = TRUE
INVARIANTS TrayShowsServices OnePopup
PROPERTIES MenuOpensOnItsItem
