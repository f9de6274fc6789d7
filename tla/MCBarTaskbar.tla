--------------------------- MODULE MCBarTaskbar ---------------------------
(* Small instances of BarTaskbar. *)
EXTENDS BarTaskbar

CONSTANTS w1, w2, w3, ghost

\* w1 and w2 are alike: w1 is the first of the two to be opened.
MCNext == Next /\ (w1 \in unborn' => w2 \in unborn')

MCFairSpec == Init /\ [][MCNext]_vars /\ Fairness

===========================================================================
