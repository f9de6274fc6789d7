---------------------------- MODULE MCMenuView ----------------------------
(* Small instances of MenuView. *)
EXTENDS MenuView, TLC

CONSTANTS a1, a2, a3, small, large

\* "b" finds two by their names and one by its command, "ab" and "ba" two and
\* one, "bb" none.
Names == (a1 :> <<"a", " ", "b">>) @@ (a2 :> <<"b", "a">>) @@ (a3 :> <<"c", "a">>)
Execs == (a1 :> <<"a">>) @@ (a2 :> <<"c", "b">>) @@ (a3 :> <<"a", "b">>)
ByName == <<a1, a2, a3>>

===========================================================================
