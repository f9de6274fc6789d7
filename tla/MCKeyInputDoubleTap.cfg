SPECIFICATION Spec
CONSTANTS
  Binding = {"Tab"}
  tap_action <- Taps
  hold_action <- Holds
  HOLD_THRESHOLD_MS = 3
  DOUBLE_TAP_MS = 2
  MaxLag = 1
  MaxWire = 2
PROPERTIES DoubleTapCycles
