------------------------------ MODULE MCScreen ------------------------------
(* Small instances of Screen. *)
EXTENDS Screen

CONSTANTS w1, w2, w3, o1, o2

NoTitles == [x \in Window |-> {}]

===========================================================================
