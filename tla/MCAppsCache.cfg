SPECIFICATION Spec
CONSTANTS
  m1 = m1  a1 = a1  m2 = m2  home = home  system = system
  Menu = {m1, m2}
  App = {a1}
  Dir = {home, system}
  Dirs <- MCDirs
  MaxSeconds = 1
SYMMETRY Symmetry
CONSTRAINT FewReused
INVARIANTS ListIsFresh CacheIsTrue
