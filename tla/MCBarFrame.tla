----------------------------- MODULE MCBarFrame -----------------------------
(* Small instances of BarFrame. *)
EXTENDS BarFrame, TLC

CONSTANTS w1, w2, s1, s2, noon, one

\* Two buttons on the left, the clock and the power button on the right.
TwoLaunchers == <<34, 34>>
ClockAndPower == <<"CLOCK", "POWER">>
ClockWidth == noon :> 44 @@ one :> 36

Alike == Permutations({w1, w2})

===========================================================================
