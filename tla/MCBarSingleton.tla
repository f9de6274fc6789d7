--------------------------- MODULE MCBarSingleton ---------------------------
(* Small instances of BarSingleton. *)
EXTENDS BarSingleton

CONSTANTS b1, b2, b3

=============================================================================
