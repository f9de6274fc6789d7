-------------------------- MODULE MCBarGameMode --------------------------
(* Small instances of BarGameMode. *)
EXTENDS BarGameMode

CONSTANTS w1, w2

==========================================================================
