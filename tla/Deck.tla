-------------------------------- MODULE Deck --------------------------------
(***************************************************************************)
(* What the window manager promises to its user (README.md, STATUS.md): a  *)
(* deck of cards, the first MAIN, the second the visible card of the DECK, *)
(* the others hidden; icons, which are minimised; and a target (ALVO),     *)
(* which is MAIN or the visible DECK card, and may be zoomed.  There is no *)
(* list here in which icons, dialogs and cards share positions.            *)
(***************************************************************************)
EXTENDS WlList

CONSTANTS
  Window,    \* what can be a card
  NULL,      \* no window
  Key        \* the commands that keys give

VARIABLES
  deck,      \* [cards, icons, target, zoomed]
  asked      \* [closed, click, key, activate]: what the next sequence is to do

vars == <<deck, asked>>

Holds == {"SWAP_MAIN_DECK", "SEND_TARGET_TO_DECK_BOTTOM", "PROMOTE_TARGET_TO_MAIN"} \cap Key

MAIN == 1
DECK == 2

Init ==
  /\ deck = [cards |-> <<>>, icons |-> {}, target |-> MAIN, zoomed |-> FALSE]
  /\ asked = [closed |-> {}, click |-> NULL, key |-> "NONE", activate |-> NULL]

-----------------------------------------------------------------------------
(* The moves.                                                              *)

Aimed(d, t) == [d EXCEPT !.target = t, !.zoomed = FALSE]
HasTarget(d) == d.target \in DOMAIN d.cards

\* The target is a card on screen.
Steady(d) ==
  [d EXCEPT !.target = IF HasTarget(d) THEN @ ELSE MAIN,
            !.zoomed = @ /\ d.cards # <<>>]

\* x becomes MAIN, from wherever it was, and the target.
ToMain(d, x) ==
  [Aimed(d, MAIN) EXCEPT !.cards = <<x>> \o Without(@, x), !.icons = @ \ {x}]

\* x leaves the deck to be an icon.
ToIcon(d, x) ==
  [Aimed(d, MAIN) EXCEPT !.cards = Without(@, x), !.icons = @ \cup {x}]

Gone(d, D) ==
  [d EXCEPT !.cards = Drop(@, D), !.icons = @ \ D]

Other(t) == IF t = MAIN THEN DECK ELSE MAIN

Swap(d) ==
  IF Len(d.cards) < 2 THEN d
  ELSE [Aimed(d, Other(d.target)) EXCEPT
          !.cards = <<@[DECK], @[MAIN]>> \o SubSeq(@, 3, Len(@))]

\* The visible card of the DECK goes to the bottom; the next comes up.
Sink(d) == [d EXCEPT !.cards = <<@[MAIN]>> \o SubSeq(@, 3, Len(@)) \o <<@[DECK]>>]

\* The bottom card comes up.
Raise(d) ==
  [d EXCEPT !.cards = <<@[MAIN], @[Len(@)]>> \o SubSeq(@, 2, Len(@) - 1)]

\* MAIN goes to the DECK, or the visible card of the DECK to its bottom.
Send(d) ==
  IF Len(d.cards) < 2 \/ ~HasTarget(d) THEN d
  ELSE IF d.target = MAIN THEN Swap(d)
  ELSE IF Len(d.cards) > 2 THEN Aimed(Sink(d), DECK) ELSE d

Do(d, key) ==
  CASE key = "TOGGLE_TARGET" -> IF Len(d.cards) < 2 THEN d ELSE Aimed(d, Other(d.target))
    [] key = "SWAP_MAIN_DECK" -> Swap(d)
    [] key = "DECK_NEXT" -> IF Len(d.cards) <= 2 THEN d ELSE Aimed(Sink(d), DECK)
    [] key = "DECK_PREV" -> IF Len(d.cards) <= 2 THEN d ELSE Aimed(Raise(d), DECK)
    [] key = "SEND_TARGET_TO_DECK_BOTTOM" -> Send(d)
    [] key = "PROMOTE_TARGET_TO_MAIN" ->
         IF d.target = DECK /\ HasTarget(d) THEN ToMain(d, d.cards[DECK]) ELSE d
    [] key = "MAXIMIZE_TARGET" -> [d EXCEPT !.zoomed = @ \/ HasTarget(d)]
    [] key = "RESTORE" -> [d EXCEPT !.zoomed = FALSE]
    [] key = "TOGGLE_MAXIMIZE" -> IF HasTarget(d) THEN [d EXCEPT !.zoomed = ~@] ELSE d
    [] key = "CLOSE_TARGET" -> IF HasTarget(d) THEN [d EXCEPT !.zoomed = FALSE] ELSE d
    [] OTHER -> d

Fired(d, hold, due) == IF hold \in due THEN Steady(Do(d, hold)) ELSE d

\* Several keys may have been held long enough; they act in this order.
Held(d, due) ==
  Fired(Fired(Fired(d, "SWAP_MAIN_DECK", due), "SEND_TARGET_TO_DECK_BOTTOM", due),
        "PROMOTE_TARGET_TO_MAIN", due)

\* A click on a card on screen makes it the target.  A window that was minimised
\* after the click stands where no card is, next to the cards that are left: the
\* commands that follow may find no target there.
Clicked(d, x) ==
  LET on == {t \in DOMAIN d.cards \cap {MAIN, DECK} : d.cards[t] = x}
      at == IF on # {} THEN on
            ELSE IF x \in d.icons THEN {MAIN, DECK} \ DOMAIN d.cards ELSE {}
  IN  {[d EXCEPT !.target = t, !.zoomed = @ /\ t = d.target] : t \in at}
        \cup IF on = {} THEN {d} ELSE {}

\* The taskbar: a card on screen becomes the target where it is, any other
\* window comes to MAIN.
Activated(d, x) ==
  LET on == {t \in DOMAIN d.cards \cap {MAIN, DECK} : d.cards[t] = x}
  IN IF on # {} THEN Aimed(d, CHOOSE t \in on : TRUE)
     ELSE IF x \in d.icons \cup Range(d.cards) THEN ToMain(d, x) ELSE d

-----------------------------------------------------------------------------

Ask(request) == asked' = request /\ UNCHANGED deck

Windows == deck.icons \cup Range(deck.cards)

Next ==
  \/ \E x \in Window \ Windows : deck' = ToMain(deck, x) /\ UNCHANGED asked
  \/ \E x \in Range(deck.cards) : deck' = ToIcon(deck, x) /\ UNCHANGED asked
  \/ UNCHANGED asked /\ \E due \in SUBSET Holds : deck' = Held(deck, due)
  \/ \E x \in Windows : \/ Ask([asked EXCEPT !.closed = @ \cup {x}])
                        \/ Ask([asked EXCEPT !.click = x])
  \/ \E key \in Key : Ask([asked EXCEPT !.key = key])
  \/ \E x \in Window : Ask([asked EXCEPT !.activate = x])
  \/ \* The sequence: each of the things asked for, in this order.
     /\ asked' = [closed |-> {}, click |-> NULL, key |-> "NONE", activate |-> NULL]
     /\ \E due \in SUBSET Holds :
          \E d \in Clicked(Held(Gone(deck, asked.closed), due), asked.click) :
            deck' = Steady(Activated(Do(d, asked.key), asked.activate))

Spec == Init /\ [][Next]_vars

=============================================================================
