SPECIFICATION FairSpec
CONSTANTS
  Binding = {"Tab", "Right", "F23"}
  tap_action <- Taps
  hold_action <- Holds
  HOLD_THRESHOLD_MS = 2
  DOUBLE_TAP_MS = 1
  MaxLag = 1
  MaxWire = 1
INVARIANTS OneActionPerPress
PROPERTIES HoldWasHeld HoldFires
