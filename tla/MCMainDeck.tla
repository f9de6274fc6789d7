---------------------------- MODULE MCMainDeck ----------------------------
(* Small instances of MainDeck. *)
EXTENDS DeckRefinement

CONSTANTS w1, w2, w3, w4

\* Windows that differ in nothing may be exchanged.
PlainWindows == Permutations(Window)

\* No application is named by the rule; or w1 and w2 are its windows: w1 has the
\* title of the parent, w2 another.
NoTitles == [x \in Window |-> {}]
TwoTitled ==
  [x \in Window |-> CASE x = w1 -> {"parent"} [] x = w2 -> {"other"} [] OTHER -> {}]

===========================================================================
