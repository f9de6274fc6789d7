---------------------------- MODULE MCKeyInput ----------------------------
(* Bindings of seat_manage (wm-input.c 529-552): two with tap and hold, and  *)
(* one that toggles the target and has no hold.                             *)
EXTENDS KeyInput

Taps == [Tab |-> "TOGGLE_TARGET", Right |-> "DECK_NEXT", F23 |-> "TOGGLE_TARGET"]
Holds == [Tab |-> "SWAP_MAIN_DECK", Right |-> "SEND_TARGET_TO_DECK_BOTTOM", F23 |-> "NONE"]

============================================================================
