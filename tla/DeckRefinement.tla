--------------------------- MODULE DeckRefinement ---------------------------
(***************************************************************************)
(* The window manager implements the deck.  The cards of the deck are the  *)
(* visible cards of wm.windows, which the code never has in one place: it  *)
(* finds them by counting, between the minimised windows of the same list. *)
(***************************************************************************)
EXTENDS MainDeck

TheDeck ==
  INSTANCE Deck WITH
    deck <- [cards |-> Shown(wm), icons |-> wm.minimized,
             target |-> wm.target_index + 1, zoomed |-> wm.maximized],
    asked <- [closed |-> wm.closed, click |-> wm.interacted,
              key |-> wm.pending_action, activate |-> wm.pending_activate]

\* Whatever order windows, keys, clicks and the taskbar come in, and however
\* many share a manage sequence, the cards move as the deck says: DECK_NEXT and
\* DECK_PREV rotate, a promoted or activated card comes to MAIN, closing and
\* minimising leave the order of the others alone.
ImplementsDeck == TheDeck!Spec

=============================================================================
