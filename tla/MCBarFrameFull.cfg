SPECIFICATION Spec
CONSTANTS
  w1 = w1  w2 = w2  s1 = s1  s2 = s2  noon = noon  one = one
  NULL = NULL
  Window = {w1, w2}
  Dialog = {w1}
  Service = {s1}
  Reading = {noon, one}
  TextWidth <- ClockWidth
  Launchers <- TwoLaunchers
  Modules <- ClockAndPower
  Width = {300}
  Place = {0}
  Column = {92, 140, 162}
  MaxBatch = 2
INVARIANTS ShownIsDrawn
