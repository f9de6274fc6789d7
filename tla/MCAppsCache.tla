---------------------------- MODULE MCAppsCache ----------------------------
(* A small instance of AppsCache: two menus that look in the same two      *)
(* directories, as two starts in one session do.                           *)
EXTENDS AppsCache, TLC

CONSTANTS m1, m2, home, system, a1

MCDirs == [p \in Menu |-> <<home, system>>]

\* At most one directory takes a time again that was noted for it.
FewReused == Cardinality(reused) <= 1

Symmetry == Permutations(Menu)

============================================================================
