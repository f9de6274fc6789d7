------------------------------ MODULE MainDeck ------------------------------
(***************************************************************************)
(* The window manager of maindeck-wm: the ordered list of windows, the     *)
(* ALVO (target), floating windows, dialogs, minimised and fullscreen      *)
(* windows, keyboard focus, and the manage sequence that turns the events  *)
(* received since the last one into a layout (types.h, wm-layout.c,        *)
(* wm-handlers.c, wm-input.c, wm-ipc.c).                                   *)
(*                                                                         *)
(* The C program keeps this in one `struct WindowManager wm' that every    *)
(* handler and layout operation updates in place.  Here `wm' is a record   *)
(* and each operation a function from records to records, so that a        *)
(* handler which calls three of them is the composition of the three.      *)
(* Addresses of windows are members of Window; an address that is not in   *)
(* the list is free memory and its attributes read as calloc leaves them.  *)
(* One seat is modelled; its fields are part of the record.                *)
(***************************************************************************)
EXTENDS WlList

CONSTANTS
  Window,     \* the windows that can exist
  NULL,       \* the null pointer
  Size,       \* the sizes a client can take, other than "not known yet"
  Floater,    \* windows whose app_id is in the float list of the configuration
  Capped,     \* windows that advertise a maximum size smaller than the output
  Unruly,     \* windows that may answer a tile proposal with a size of their own
  Dialog,     \* windows whose client may set or clear a parent
  Game,       \* windows that may enter or leave fullscreen
  Iconic,     \* windows whose client may ask to be minimised
  Titles,     \* the titles a window may take; of interest are those of the
              \* application of MAINDECK_IMPLICIT_PARENT_APP_ID only
  Key,        \* the actions that keys are bound to
  MaxDepth,   \* links followed by the walks up a parent chain (32 in the code)
  MaxBatch    \* events between two manage sequences (a bound of the model)

(* Actions a key can be bound to; those of HoldAction also to a held key. *)
HoldAction == {"SWAP_MAIN_DECK", "SEND_TARGET_TO_DECK_BOTTOM", "PROMOTE_TARGET_TO_MAIN"}
KeyAction ==
  HoldAction \cup {"TOGGLE_TARGET", "DECK_NEXT", "DECK_PREV", "CLOSE_TARGET",
                   "MAXIMIZE_TARGET", "RESTORE", "TOGGLE_MAXIMIZE"}

ASSUME WindowAssumption ==
  /\ NULL \notin Window
  /\ Floater \subseteq Window /\ Capped \subseteq Window
  /\ Unruly \subseteq Window /\ Dialog \subseteq Window
  /\ Game \subseteq Window /\ Iconic \subseteq Window

\* The title of a window of that application: none yet, one of those that
\* MAINDECK_IMPLICIT_PARENT_TITLES lists, or another.
Title == {"none", "parent", "other"}

ASSUME TitleAssumption == Titles \in [Window -> SUBSET (Title \ {"none"})]

ASSUME BoundAssumption ==
  /\ Size \subseteq Nat \ {0}
  /\ Key \subseteq KeyAction
  /\ MaxDepth \in Nat \ {0}
  /\ MaxBatch \in Nat \ {0}

VARIABLES
  wm,                \* struct WindowManager, with the fields of its one seat
  last_layout_sig,   \* layout signature of the last manage sequence
  batch              \* events handled since that sequence

vars == <<wm, last_layout_sig, batch>>

Pointer == Window \cup {NULL}

\* The windows of that application.
Ruled == {x \in Window : Titles[x] # {}}

\* Those of them that may be given an implicit parent.
Adoptable == {x \in Window : "other" \in Titles[x]}

\* What a window is known to have done with the tile size proposed to it.
TileReply == {"none", "proposed", "settled"}

WMState ==
  [windows             : Seq(Window),
   parent              : [Window -> Pointer],
   implicit_parent     : SUBSET Window,
   named               : SUBSET Window,
   title               : [Window -> Title],
   floating            : SUBSET Window,
   autofloat           : SUBSET Window,
   minimized           : SUBSET Window,
   fullscreen          : SUBSET Window,
   closed              : SUBSET Window,
   size                : [Window -> Size \cup {0}],
   tile                : [Window -> TileReply],
   target_index        : Nat,
   maximized           : BOOLEAN,
   focus_dirty         : BOOLEAN,
   pending_float_focus : Pointer,
   focused             : Pointer,
   interacted          : Pointer,
   pending_action      : KeyAction \cup {"NONE"},
   pending_activate    : Pointer,
   manage_dirty        : BOOLEAN,
   bar_fullscreen      : BOOLEAN]

-----------------------------------------------------------------------------
(* The list: wm.windows is kept in MainDeck order.                         *)

Live(w) == Range(w.windows)

\* A window that takes a MainDeck index: neither a child nor floating.
IsCard(w, x) == w.parent[x] = NULL /\ x \notin w.floating
IsShown(w, x) == IsCard(w, x) /\ x \notin w.minimized

Cards(w) == At(w.windows, {i \in DOMAIN w.windows : IsCard(w, w.windows[i])})
Shown(w) == At(w.windows, {i \in DOMAIN w.windows : IsShown(w, w.windows[i])})

window_count(w) == Len(Cards(w))
visible_window_count(w) == Len(Shown(w))

\* Where the region of visible cards ends: before the first minimised,
\* child or floating window, wherever it stands in the list.
visible_region_end(w) ==
  LET tail == {i \in DOMAIN w.windows : ~IsShown(w, w.windows[i])}
  IN  IF tail = {} THEN Len(w.windows) + 1 ELSE Min(tail)

window_at(w, n) == IF n < window_count(w) THEN Cards(w)[n + 1] ELSE NULL

window_index(w, x) ==
  LET at == {n \in DOMAIN Cards(w) : Cards(w)[n] = x}
  IN  IF at = {} THEN -1 ELSE Min(at) - 1

target_window(w) ==
  IF w.target_index >= visible_window_count(w) THEN NULL
  ELSE window_at(w, w.target_index)

clamp_target(w) ==
  LET count == visible_window_count(w)
  IN  IF count = 0 THEN [w EXCEPT !.target_index = 0, !.maximized = FALSE]
      ELSE IF w.target_index > 1 \/ w.target_index >= count
           THEN [w EXCEPT !.target_index = 0]
           ELSE w

move_first(w, x) == [w EXCEPT !.windows = <<x>> \o Without(@, x)]
move_last(w, x) == [w EXCEPT !.windows = Append(Without(@, x), x)]

\* (Slip: x is linked in a second time.)
move_after_Linked(w, x, y) ==
  [w EXCEPT !.windows = InsertAt(@, 1 + (CHOOSE i \in DOMAIN @ : @[i] = y), x)]

\* x leaves its place and is linked in right after y.
move_after(w, x, y) ==
  LET rest == Without(w.windows, x)
  IN  [w EXCEPT !.windows = InsertAt(rest, 1 + (CHOOSE i \in DOMAIN rest : rest[i] = y), x)]

\* x leaves its place and is linked in at the end of the visible region of
\* the list that remains.
move_to_region_end(w, x) ==
  LET rest == [w EXCEPT !.windows = Without(@, x)]
  IN  [w EXCEPT !.windows = InsertAt(rest.windows, visible_region_end(rest), x)]

Aim(w, n) == [w EXCEPT !.target_index = n, !.maximized = FALSE]

md_insert_new_window(w, x) ==
  LET rest == Without(w.windows, x)
      others == window_count([w EXCEPT !.windows = rest])
  IN  [Aim(w, 0) EXCEPT
         !.windows = IF others = 0 THEN Append(rest, x) ELSE <<x>> \o rest,
         !.focus_dirty = TRUE]

-----------------------------------------------------------------------------
(* The operations of the deck, each with the early returns of the code.    *)

md_swap_main_deck(w) ==
  IF visible_window_count(w) < 2 THEN w
  ELSE Aim(move_first(w, window_at(w, 1)), IF w.target_index = 0 THEN 1 ELSE 0)

md_deck_next(w) ==
  IF visible_window_count(w) <= 2 THEN w
  ELSE Aim(move_to_region_end(w, window_at(w, 1)), 1)

\* (Slip: the last card of all, minimised or not.)
md_deck_prev_LastCard(w) ==
  IF visible_window_count(w) <= 2 THEN w
  ELSE Aim(move_after(w, window_at(w, window_count(w) - 1), window_at(w, 0)), 1)

md_deck_prev(w) ==
  IF visible_window_count(w) <= 2 THEN w
  ELSE Aim(move_after(w, window_at(w, visible_window_count(w) - 1), window_at(w, 0)), 1)

md_send_target_to_deck_bottom(w) ==
  LET target == target_window(w)
      count == visible_window_count(w)
  IN  IF count <= 1 \/ target = NULL \/ (w.target_index = 1 /\ count <= 2) THEN w
      ELSE IF w.target_index = 0
           THEN Aim(move_after(w, target, window_at(w, 1)), 1)
           ELSE [clamp_target(move_to_region_end(w, target)) EXCEPT !.maximized = FALSE]

md_promote_target_to_main(w) ==
  LET target == target_window(w)
  IN  IF target = NULL \/ w.target_index = 0 THEN w
      ELSE Aim(move_first(w, target), 0)

-----------------------------------------------------------------------------
(* Dialogs, the layout view and keyboard focus.                            *)

\* The chain of parents of x, stopping at the root or after MaxDepth links.
Lineage(w, x) ==
  LET up[n \in 0..MaxDepth] ==
        IF n = 0 THEN x
        ELSE IF w.parent[up[n - 1]] = NULL THEN up[n - 1] ELSE w.parent[up[n - 1]]
  IN  up

top_window(w, x) == Lineage(w, x)[MaxDepth]

\* A dialog is laid out over the window found one link earlier.
root_window(w, x) == Lineage(w, x)[MaxDepth - 1]

single(w) == visible_window_count(w) <= 1 \/ w.maximized
MainAndDeck(w) == {Shown(w)[n] : n \in DOMAIN Shown(w) \cap {1, 2}}

window_is_really_visible(w, x) ==
  /\ Range(Lineage(w, x)) \cap w.minimized = {}
  /\ top_window(w, x) \in IF single(w) THEN {target_window(w)} ELSE MainAndDeck(w)

\* The window keyboard focus belongs to: the target, or the last dialog in
\* the list that is visible over it.
FocusOf(w) ==
  LET target == target_window(w)
      over == {i \in DOMAIN w.windows :
                 /\ w.parent[w.windows[i]] # NULL
                 /\ window_is_really_visible(w, w.windows[i])
                 /\ top_window(w, w.windows[i]) = target}
  IN  IF target = NULL \/ over = {} THEN target ELSE w.windows[Max(over)]

\* A live floating window that holds the focus keeps it, unless focus_dirty.
KeepsFloatFocus(w) ==
  /\ w.focused # NULL
  /\ w.focused \in w.floating
  /\ w.focused \notin w.closed
  /\ ~w.focus_dirty

focus_target_on_seats(w) ==
  LET c == clamp_target(w)
  IN  IF KeepsFloatFocus(c) THEN c ELSE [c EXCEPT !.focused = FocusOf(c)]

\* What compute_layout_signature mixes in; the counts and pointers it adds
\* are functions of these.
LayoutOf(w) ==
  [target_index |-> w.target_index, maximized |-> w.maximized, windows |-> w.windows,
   fullscreen |-> w.fullscreen, minimized |-> w.minimized, floating |-> w.floating,
   parent |-> w.parent]

\* (Slip: the parents are not mixed in.)
compute_layout_signature_NoParents(w) ==
  <<[LayoutOf(w) EXCEPT !.parent = <<>>],
    {<<x, w.size[x]>> : x \in {y \in Live(w) : ~IsCard(w, y)}}>>

\* (Slip: the fullscreen windows are not mixed in.)
compute_layout_signature_NoFullscreen(w) ==
  <<[LayoutOf(w) EXCEPT !.fullscreen = {}],
    {<<x, w.size[x]>> : x \in {y \in Live(w) : ~IsCard(w, y)}}>>

compute_layout_signature(w) ==
  <<LayoutOf(w),
    {<<x, w.size[x]>> : x \in {y \in Live(w) : ~IsCard(w, y)}}>>

\* The tiles on screen get a size proposal, fullscreen windows excepted.  Of a
\* window that will obey the proposal nothing is kept.
window_manage_layout(w) ==
  LET shown == IF w.maximized THEN {target_window(w)} ELSE MainAndDeck(w)
      tiled == (shown \ w.fullscreen) \cap Unruly
  IN  [w EXCEPT !.tile = [x \in Window |-> IF x \in tiled /\ w.tile[x] = "none"
                                           THEN "proposed" ELSE w.tile[x]]]

-----------------------------------------------------------------------------
(* Changes of a window's kind.                                             *)

window_designate_floating(w, x, steal_focus) ==
  IF x \in w.floating \/ w.parent[x] # NULL \/ x \in w.closed THEN w
  ELSE [move_last(w, x) EXCEPT
          !.floating = @ \cup {x},
          !.autofloat = IF steal_focus THEN @ \ {x} ELSE @ \cup {x},
          !.pending_float_focus = IF steal_focus THEN x ELSE @,
          !.manage_dirty = TRUE]

\* (Slip: the children of a destroyed window keep their parent.)
window_destroy_closed_Orphans(w, D) ==
  LET Forget(p) == IF p \in D THEN NULL ELSE p
  IN  [w EXCEPT
         !.windows = Drop(@, D),
         !.parent = [x \in Window |-> IF x \in D THEN NULL ELSE @[x]],
         !.implicit_parent = @ \ D, !.named = @ \ D,
         !.title = [x \in Window |-> IF x \in D THEN "none" ELSE @[x]],
         !.floating = @ \ D, !.autofloat = @ \ D, !.minimized = @ \ D,
         !.fullscreen = @ \ D, !.closed = @ \ D,
         !.size = [x \in Window |-> IF x \in D THEN 0 ELSE @[x]],
         !.tile = [x \in Window |-> IF x \in D THEN "none" ELSE @[x]],
         !.pending_float_focus = Forget(@), !.focused = Forget(@), !.interacted = Forget(@),
         !.bar_fullscreen = @ /\ D \cap w.fullscreen = {}]

\* The rule of MAINDECK_IMPLICIT_PARENT_*: the first root in the list with one of
\* the titles for parents becomes the parent of every other root of that
\* application with another title; these go to the tail, in their order.
maybe_apply_implicit_parenting(w) ==
  LET Candidate(i) == /\ w.windows[i] \in w.named \ w.floating
                      /\ w.parent[w.windows[i]] = NULL
      parents == {i \in DOMAIN w.windows : Candidate(i) /\ w.title[w.windows[i]] = "parent"}
      children == {i \in DOMAIN w.windows : Candidate(i) /\ w.title[w.windows[i]] = "other"}
      adopted == {w.windows[i] : i \in children}
  IN  IF parents = {} \/ children = {} THEN w
      ELSE [w EXCEPT
              !.windows = At(@, DOMAIN @ \ children) \o At(@, children),
              !.parent = [x \in Window |-> IF x \in adopted THEN w.windows[Min(parents)]
                                           ELSE w.parent[x]],
              !.implicit_parent = @ \cup adopted,
              !.manage_dirty = TRUE]

\* relevant: the signal about x may make it a child, whatever its title.
maybe_apply_implicit_parenting_for(w, x, relevant) ==
  IF \/ x \in w.closed \cup w.floating
     \/ w.parent[x] # NULL
     \/ x \notin w.named
     \/ ~relevant /\ w.title[x] # "parent"
  THEN w ELSE maybe_apply_implicit_parenting(w)

\* The windows of D are unlinked, every pointer to them is cleared and their
\* children become roots where they stand in the list.
window_destroy_closed(w, D) ==
  LET Forget(p) == IF p \in D THEN NULL ELSE p
  IN  [w EXCEPT
         !.windows = Drop(@, D),
         !.parent = [x \in Window |-> IF x \in D THEN NULL ELSE Forget(w.parent[x])],
         !.implicit_parent = {x \in @ \ D : w.parent[x] \notin D},
         !.named = @ \ D,
         !.title = [x \in Window |-> IF x \in D THEN "none" ELSE w.title[x]],
         !.floating = @ \ D,
         !.autofloat = @ \ D,
         !.minimized = @ \ D,
         !.fullscreen = @ \ D,
         !.closed = @ \ D,
         !.size = [x \in Window |-> IF x \in D THEN 0 ELSE w.size[x]],
         !.tile = [x \in Window |-> IF x \in D THEN "none" ELSE w.tile[x]],
         !.pending_float_focus = Forget(@),
         !.focused = Forget(@),
         !.interacted = Forget(@),
         !.bar_fullscreen = @ /\ D \cap w.fullscreen = {}]

\* Taskbar activation of a window that still exists.
\* (Slip: whether x is MAIN or the DECK card is looked at first.)
activate_window_from_taskbar_IndexFirst(w, x) ==
  LET idx == window_index(w, x)
  IN  IF x \in w.floating
      THEN [move_last(w, x) EXCEPT !.minimized = @ \ {x}, !.focused = x]
      ELSE IF idx < 0 THEN w
      ELSE IF idx <= 1 THEN Aim(w, idx)
      ELSE [Aim(move_first(w, x), 0) EXCEPT !.minimized = @ \ {x}]

activate_window_from_taskbar(w, x) ==
  LET idx == window_index(w, x)
  IN  IF x \in w.floating
      THEN [move_last(w, x) EXCEPT !.minimized = @ \ {x}, !.focused = x]
      ELSE IF idx < 0 THEN w
      ELSE IF x \in w.minimized THEN [Aim(move_first(w, x), 0) EXCEPT !.minimized = @ \ {x}]
      ELSE IF idx <= 1 THEN Aim(w, idx)
      ELSE Aim(move_first(w, x), 0)

apply_pending_taskbar_activation(w) ==
  LET x == w.pending_activate
      taken == [w EXCEPT !.pending_activate = NULL]
  IN  IF x \in Live(w) \ w.closed THEN activate_window_from_taskbar(taken, x) ELSE taken

-----------------------------------------------------------------------------
(* Seats: what a key does, and what the seat does in a manage sequence.    *)

seat_action(w, action) ==
  LET Dirty(v) == [v EXCEPT !.focus_dirty = TRUE]
      target == target_window(w)
      floatFocused == w.focused # NULL /\ w.focused \in w.floating /\ w.focused \notin w.closed
  IN  CASE action = "CLOSE_TARGET" ->
             IF floatFocused \/ target = NULL THEN w ELSE [w EXCEPT !.maximized = FALSE]
        [] action = "TOGGLE_TARGET" ->
             IF visible_window_count(w) < 2 THEN w
             ELSE Dirty(Aim(w, IF w.target_index = 0 THEN 1 ELSE 0))
        [] action = "SWAP_MAIN_DECK" -> Dirty(md_swap_main_deck(w))
        [] action = "DECK_NEXT" -> Dirty(md_deck_next(w))
        [] action = "DECK_PREV" -> Dirty(md_deck_prev(w))
        [] action = "SEND_TARGET_TO_DECK_BOTTOM" -> Dirty(md_send_target_to_deck_bottom(w))
        [] action = "PROMOTE_TARGET_TO_MAIN" -> Dirty(md_promote_target_to_main(w))
        [] action = "MAXIMIZE_TARGET" ->
             IF target = NULL \/ w.maximized THEN w ELSE Dirty([w EXCEPT !.maximized = TRUE])
        [] action = "RESTORE" ->
             IF w.maximized THEN Dirty([w EXCEPT !.maximized = FALSE]) ELSE w
        [] action = "TOGGLE_MAXIMIZE" ->
             IF target = NULL THEN w ELSE Dirty([w EXCEPT !.maximized = ~@])
        [] OTHER -> w

hold_fires(w, hold, due) ==
  IF hold \in due THEN [clamp_target(seat_action(w, hold)) EXCEPT !.manage_dirty = TRUE]
  ELSE w

\* The hold bindings that have been held long enough fire, in the order in which
\* seat_init makes them: Tab, Right, Left.
process_hold_timers(w, due) ==
  hold_fires(hold_fires(hold_fires(w, "SWAP_MAIN_DECK", due),
                        "SEND_TARGET_TO_DECK_BOTTOM", due),
             "PROMOTE_TARGET_TO_MAIN", due)

\* The window last clicked becomes the target if it is MAIN or the visible
\* DECK card, and gets the focus if it floats; then the key pressed acts.
seat_interaction(w) ==
  LET x == w.interacted
      idx == window_index(w, x)
      done == [w EXCEPT !.interacted = NULL]
  IN  IF x = NULL THEN w
      ELSE IF idx \in {0, 1}
           THEN [done EXCEPT !.focus_dirty = TRUE,
                             !.target_index = idx,
                             !.maximized = @ /\ idx = w.target_index]
      ELSE IF x \in w.floating THEN [done EXCEPT !.focused = x]
      ELSE done

seat_manage(w) ==
  LET v == seat_interaction(w)
  IN  [seat_action(v, v.pending_action) EXCEPT !.pending_action = "NONE"]

apply_pending_float_focus(w) ==
  LET x == w.pending_float_focus
  IN  [w EXCEPT !.pending_float_focus = NULL,
                !.focused = IF x # NULL /\ x \notin w.closed /\ x \in w.floating THEN x ELSE @]

\* (Slip: closed windows are not destroyed.)
Settled_KeepsClosed(w, due) ==
  LET begun == [w EXCEPT !.manage_dirty = FALSE]
  IN  clamp_target(
        apply_pending_float_focus(
          apply_pending_taskbar_activation(
            seat_manage(
              process_hold_timers(begun, due)))))

\* The state in which the manage sequence takes the layout signature.
Settled(w, due) ==
  LET begun == [w EXCEPT !.manage_dirty = FALSE]
  IN  clamp_target(
        apply_pending_float_focus(
          apply_pending_taskbar_activation(
            seat_manage(
              process_hold_timers(
                window_destroy_closed(begun, w.closed), due)))))

-----------------------------------------------------------------------------
(* Initial state and handlers.  The server follows every event it sends,   *)
(* window dimensions excepted, with a manage sequence; whatever else needs *)
(* one has to ask for it (manage_dirty).                                   *)

Init ==
  /\ wm = [windows |-> <<>>,
           parent |-> [x \in Window |-> NULL],
           implicit_parent |-> {}, named |-> {}, title |-> [x \in Window |-> "none"],
           floating |-> {}, autofloat |-> {}, minimized |-> {},
           fullscreen |-> {}, closed |-> {},
           size |-> [x \in Window |-> 0],
           tile |-> [x \in Window |-> "none"],
           target_index |-> 0, maximized |-> FALSE, focus_dirty |-> FALSE,
           pending_float_focus |-> NULL, focused |-> NULL, interacted |-> NULL,
           pending_action |-> "NONE", pending_activate |-> NULL,
           manage_dirty |-> FALSE, bar_fullscreen |-> FALSE]
  /\ last_layout_sig = <<>>
  /\ batch = 0

\* The handler turned wm into w; at most MaxBatch run between two sequences.
Handled(w) ==
  /\ batch < MaxBatch
  /\ batch' = batch + 1
  /\ wm' = w
  /\ UNCHANGED last_layout_sig

Event(w) == Handled([w EXCEPT !.manage_dirty = TRUE])

\* Windows the server still sends events for.
Open == Live(wm) \ wm.closed

wm_handle_window(x) ==
  /\ x \notin Live(wm)
  /\ x # wm.pending_activate      \* identifiers are never reused
  /\ Event(md_insert_new_window(wm, x))

window_handle_closed(x) ==
  /\ x \in Open
  /\ LET w == [wm EXCEPT !.closed = @ \cup {x}]
     IN  Event(IF wm.parent[x] # NULL THEN window_destroy_closed(w, {x}) ELSE w)

window_handle_app_id(x) ==
  /\ x \in Open \cap (Floater \cup Ruled)
  /\ LET w == [wm EXCEPT !.named = @ \cup ({x} \cap Ruled)]
     IN  Event(maybe_apply_implicit_parenting_for(
                 IF x \in Floater THEN window_designate_floating(w, x, TRUE) ELSE w, x, TRUE))

window_handle_title(x, t) ==
  /\ x \in Open
  /\ Event(maybe_apply_implicit_parenting_for(
             [wm EXCEPT !.title[x] = t], x, wm.title[x] = "none" \/ t = "parent"))

window_handle_dimensions_hint(x) ==
  /\ x \in Open \cap Capped
  /\ x \notin wm.fullscreen
  /\ Event(window_designate_floating(wm, x, FALSE))

\* reply: how the size compares to the last two tile proposals.  The size of
\* a window that stays a well-behaved tile is recorded and never used, and only
\* an unruly one answers a proposal otherwise than with the size proposed.
window_handle_dimensions(x, s, reply) ==
  /\ x \in Open \cap (Floater \cup Capped \cup Unruly \cup Dialog \cup Adoptable)
  /\ s # wm.size[x]
  /\ reply # "match" => x \in Unruly
  /\ LET sized == [wm EXCEPT !.size[x] = s]
         judged == IsShown(wm, x) /\ x \notin wm.fullscreen /\ wm.tile[x] = "proposed"
         tiled == IF judged /\ reply = "match" THEN [sized EXCEPT !.tile[x] = "settled"]
                  ELSE IF judged /\ reply = "mismatch"
                       THEN window_designate_floating(sized, x, FALSE)
                  ELSE sized
         shown == IF wm.parent[x] # NULL /\ window_is_really_visible(wm, x)
                  THEN [tiled EXCEPT !.manage_dirty = TRUE] ELSE tiled
         firstFloat == wm.size[x] = 0 /\ x \in shown.floating \ shown.autofloat
     IN  Handled(IF firstFloat
                 THEN [shown EXCEPT !.pending_float_focus = x, !.manage_dirty = TRUE]
                 ELSE shown)

\* The parents the server knows of; those of the rule are the program's own.
Announced(w) ==
  [w EXCEPT !.parent = [x \in Window |-> IF x \in w.implicit_parent THEN NULL ELSE @[x]]]

\* A client sets (p a window) or clears (p = NULL) the parent of x; the
\* xdg-shell protocol forbids a parent that descends from x, as far as the server
\* knows.
window_handle_parent(x, p) ==
  /\ x \in Open \cap Dialog
  /\ p # Announced(wm).parent[x]
  /\ p # NULL => p \in Open /\ x \notin Range(Lineage(Announced(wm), p))
  /\ LET w == [wm EXCEPT !.parent[x] = p, !.implicit_parent = @ \ {x}]
         child == [w EXCEPT !.floating = @ \ {x}, !.autofloat = @ \ {x}]
         root == [w EXCEPT !.tile[x] = "none"]
     IN  Event(IF p = wm.parent[x] THEN w
               ELSE IF p = NULL THEN md_insert_new_window(root, x)
               ELSE IF wm.parent[x] = NULL THEN move_last(child, x)
               ELSE child)

\* (Slip: a window without an index is taken for MAIN or DECK.)
window_handle_fullscreen_requested_AnyIndex(x) ==
  /\ x \in Open \cap Game
  /\ LET w == [wm EXCEPT !.fullscreen = @ \cup {x}]
         idx == window_index(w, x)
         raised == IF idx <= 1 THEN Aim(w, idx) ELSE Aim(move_first(w, x), 0)
     IN  Event(IF x \in wm.minimized THEN w ELSE [raised EXCEPT !.bar_fullscreen = TRUE])

window_handle_fullscreen_requested(x) ==
  /\ x \in Open \cap Game
  /\ LET w == [wm EXCEPT !.fullscreen = @ \cup {x}]
         idx == window_index(w, x)
         raised == IF idx \in {0, 1} THEN Aim(w, idx)
                   ELSE IF idx >= 2 THEN Aim(move_first(w, x), 0)
                   ELSE [w EXCEPT !.maximized = FALSE]
     IN  Event(IF x \in wm.minimized THEN w ELSE [raised EXCEPT !.bar_fullscreen = TRUE])

window_handle_exit_fullscreen_requested(x) ==
  /\ x \in Open \cap Game
  /\ Event([wm EXCEPT !.fullscreen = @ \ {x}, !.bar_fullscreen = FALSE])

\* (Slip: the window stays where it is in the list.)
window_handle_minimize_requested_InPlace(x) ==
  /\ x \in (Open \cap Iconic) \ wm.minimized
  /\ Event([Aim(wm, 0) EXCEPT !.minimized = @ \cup {x},
                              !.fullscreen = @ \ {x},
                              !.bar_fullscreen = @ /\ x \notin wm.fullscreen])

\* (Slip: the bar is not told.)
window_handle_minimize_requested_Untold(x) ==
  /\ x \in (Open \cap Iconic) \ wm.minimized
  /\ Event([Aim(move_last(wm, x), 0) EXCEPT !.minimized = @ \cup {x}, !.fullscreen = @ \ {x}])

window_handle_minimize_requested(x) ==
  /\ x \in (Open \cap Iconic) \ wm.minimized
  /\ Event([Aim(move_last(wm, x), 0) EXCEPT
              !.minimized = @ \cup {x},
              !.fullscreen = @ \ {x},
              !.bar_fullscreen = @ /\ x \notin wm.fullscreen])

\* A tap, or the press of a binding without hold: the last one before the
\* manage sequence wins.
xkb_binding_handle(action) == Event([wm EXCEPT !.pending_action = action])

seat_handle_window_interaction(x) ==
  /\ x \in Open
  /\ Event([wm EXCEPT !.interacted = x])

layer_shell_seat_handle_focus_none == Event([wm EXCEPT !.focus_dirty = TRUE])

\* The poll of the main loop timed out on held keys.
hold_timeout(due) == due # {} /\ Handled(process_hold_timers(wm, due))

\* (Slip: no manage sequence is asked for.)
ipc_handle_message_Quiet(x) == Handled([wm EXCEPT !.pending_activate = x])

\* A datagram "activate <id>" from the bar; x may be gone already.
ipc_handle_message(x) ==
  Handled([wm EXCEPT !.pending_activate = x, !.manage_dirty = TRUE])

\* due: the bindings whose hold time elapsed by now; moved: the outputs or their
\* geometry, which the signature covers too, changed since the last one.
wm_handle_manage_start(due, moved) ==
  LET w == Settled(wm, due)
      sig == compute_layout_signature(w)
      changed == moved \/ sig # last_layout_sig
      laid == IF changed THEN window_manage_layout(w) ELSE w
  IN  /\ wm' = IF changed \/ w.focus_dirty
               THEN [focus_target_on_seats(laid) EXCEPT !.focus_dirty = FALSE]
               ELSE laid
      /\ last_layout_sig' = sig
      /\ batch' = 0

WindowEvent(x) ==
  \/ wm_handle_window(x)
  \/ window_handle_closed(x)
  \/ window_handle_app_id(x)
  \/ \E t \in Titles[x] : window_handle_title(x, t)
  \/ window_handle_dimensions_hint(x)
  \/ \E s \in Size, reply \in {"match", "late", "mismatch"} :
       window_handle_dimensions(x, s, reply)
  \/ \E p \in Pointer : window_handle_parent(x, p)
  \/ window_handle_fullscreen_requested(x)
  \/ window_handle_exit_fullscreen_requested(x)
  \/ window_handle_minimize_requested(x)

SeatEvent ==
  \/ \E action \in Key : xkb_binding_handle(action)
  \/ \E x \in Window : seat_handle_window_interaction(x)
  \/ layer_shell_seat_handle_focus_none
  \/ \E due \in SUBSET (Key \cap HoldAction) : hold_timeout(due)

ManageSequence ==
  \E due \in SUBSET (Key \cap HoldAction), moved \in BOOLEAN :
    wm_handle_manage_start(due, moved)

Next ==
  \/ \E x \in Window : WindowEvent(x)
  \/ SeatEvent
  \/ \E x \in Window : ipc_handle_message(x)
  \/ ManageSequence

Spec == Init /\ [][Next]_vars

\* The server may start a manage sequence whenever it likes and does not for
\* ever leave one owing (weak fairness of the owed sequence, which is enabled
\* whenever manage_dirty is set); nothing is assumed of clients, keys and bar.
ServesOwedSequences ==
  []<>(~wm.manage_dirty) \/ []<><<ManageSequence>>_vars

FairSpec == Spec /\ ServesOwedSequences

-----------------------------------------------------------------------------
(* What must hold.                                                         *)

TypeOK ==
  /\ wm \in WMState
  /\ batch \in 0..MaxBatch

\* Every pointer to a window that the program keeps, in another window, in the
\* seat or in the manager, points to a window of the list: nothing refers to a
\* struct that window_destroy_closed has freed.
NoDangling ==
  Range(wm.parent) \cup {wm.focused, wm.interacted, wm.pending_float_focus}
    \subseteq Live(wm) \cup {NULL}

\* Once no manage sequence is owed, the focus is where the layout wants it:
\* on the target, on the topmost dialog over it, or on a floating window.
\* focus_target_on_seats only runs when the layout signature changed or
\* focus_dirty is set; the two together must miss no reason to move focus.
FocusFollowsTarget ==
  ~wm.manage_dirty => wm.focused \in wm.floating \cup {FocusOf(wm)}

\* Work left for the manage sequence always has one coming: the slots that
\* only wm_handle_manage_start empties, closed windows, and any change of
\* layout, wherever it was made (bar datagram, poll timeout, handler).
NoLostWakeup ==
  ~wm.manage_dirty =>
    /\ wm.pending_action = "NONE"
    /\ wm.pending_activate = NULL /\ wm.pending_float_focus = NULL
    /\ wm.interacted = NULL
    /\ wm.closed = {} /\ ~wm.focus_dirty
    /\ last_layout_sig # <<>> => LayoutOf(wm) = last_layout_sig[1]

\* Every window hangs from a root, so that it is shown when the root is: the
\* parents do not go round in a circle.
Rooted == \A x \in Live(wm) : wm.parent[top_window(wm, x)] = NULL

\* No operation links a window twice or unlinks one that was not closed.
ListIsSound ==
  [][/\ IsInjective(wm'.windows)
     /\ \A x \in Live(wm) \ Live(wm') : x \in wm.closed \/ wm.parent[x] # NULL]_vars

\* The bar is told to hide only while a window on screen is fullscreen, so it
\* never stays hidden once the last one left, was minimised or closed.
BarHiddenOnlyForFullscreen ==
  wm.bar_fullscreen => \E x \in Live(wm) : x \in wm.fullscreen \ wm.minimized

\* The target is MAIN or the visible DECK card, never a hidden or minimised one.
TargetIsShown ==
  target_window(wm) \in MainAndDeck(wm) \cup {NULL}

\* DECK_NEXT takes the visible DECK card to the bottom and brings up the next
\* one, so that every hidden card can be reached by it.
DeckNextRotates ==
  LET c == Shown(wm)
      n == Len(c)
  IN  n > 2 => Shown(md_deck_next(wm)) = <<c[1]>> \o SubSeq(c, 3, n) \o <<c[2]>>

\* A click on the taskbar brings its window up as the target, whatever keys and
\* clicks share the manage sequence with it, and takes the focus along unless
\* a floating window has it.
ActivationLands ==
  [][\A x \in Open :
       (wm.pending_activate = x /\ wm'.pending_activate = NULL /\ IsCard(wm, x)) =>
         /\ target_window(wm') = x
         /\ x \notin wm'.minimized
         /\ wm'.focused \in wm'.floating \/ top_window(wm', wm'.focused) = x]_vars

\* New windows are said to leave the visible DECK card where it is (STATUS.md).
NewWindowKeepsDeck ==
  [][\A x \in Window \ Live(wm) :
       (x \in Live(wm') /\ visible_window_count(wm) >= 2) =>
         Shown(wm')[2] = Shown(wm)[2]]_vars

\* A taskbar click is taken up by a manage sequence, although it arrives on a
\* socket the display server knows nothing of.
ActivationTaken ==
  \A x \in Window : wm.pending_activate = x ~> wm.pending_activate # x

\* A window the server has closed is destroyed.
ClosedWindowGoes ==
  \A x \in Window : x \in wm.closed ~> x \notin wm.closed

=============================================================================
