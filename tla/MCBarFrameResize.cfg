SPECIFICATION Spec
CONSTANTS
  w1 = w1  w2 = w2  s1 = s1  s2 = s2  noon = noon  one = one
  NULL = NULL
  Window = {w1, w2}
  Dialog = {}
  Service = {s1}
  Reading = {noon, one}
  TextWidth <- ClockWidth
  Launchers <- TwoLaunchers
  Modules <- ClockAndPower
  Width = {420, 440}
  Place = {0}
  Column = {92, 200, 282, 316, 350}
  MaxBatch = 1
INVARIANTS ShownIsDrawn ClickHitsShown PaintsIntoMapping
SYMMETRY Alike
