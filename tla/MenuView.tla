------------------------------ MODULE MenuView ------------------------------
(***************************************************************************)
(* What the menu shows (maindeck-menu.c): the query and its list of        *)
(* applications, selection and scrolling by keys and pointer, and how it   *)
(* gets on screen: two shared-memory buffers, drawn into when something    *)
(* changed and not both are with the compositor, mapped anew when the      *)
(* compositor gives the surface another size.                              *)
(***************************************************************************)
EXTENDS FuzzyMatch

CONSTANTS
  Letter,              \* letters that are typed
  MaxQuery,            \* letters the search box holds
  Size, UNSIZED,       \* sizes of the surface; it has none yet
  MAX_ITEMS,           \* rows of the menu
  MaxMaps,             \* times the buffers are mapped, at most
  MaxUps,              \* how far below 0 the selection of an empty list goes
  Calm                 \* TRUE: the surface is only resized when it has been drawn
                       \* and its buffers are back

ASSUME MenuViewAssumption ==
  /\ UNSIZED \notin Size
  /\ MaxQuery \in Nat
  /\ MAX_ITEMS \in Nat \ {0} /\ MaxMaps \in Nat \ {0} /\ MaxUps \in Nat /\ Calm \in BOOLEAN

VARIABLES
  query, sel, scroll_offset,
  filtered,            \* the list
  focus_zone,          \* "search" or "list"
  running,             \* the loop goes on
  started,             \* the applications that were started
  dirty,
  menu,                \* menu_w and menu_h, or UNSIZED when not configured
  map,                 \* number of the mapping shm_data points to
  busy,                \* buffer_busy
  cur_buf,
  cairo,               \* for each buffer the mapping its cairo surface draws into,
                       \* 0 if it has none
  cairo_size,          \* s_cs_w and s_cs_h
  held,                \* buffers the compositor has: mapping and number
  attached,            \* the buffer it was given last
  frame                \* what that buffer shows

input == <<query, filtered, sel, focus_zone, running, started>>
drawing == <<scroll_offset, cur_buf, cairo, cairo_size, attached, frame>>
vars == <<input, drawing, dirty, menu, map, busy, held>>

Buffer == {0, 1}
nfiltered == Len(filtered)

\* What is to be seen: the list from the first row on, and the bar on a row.
View(offset) == [query |-> query, offset |-> offset,
                 bar |-> IF focus_zone = "list" THEN {sel} ELSE {}]

Init ==
  /\ query = <<>> /\ filtered = Filtered(<<>>) /\ sel = 0 /\ scroll_offset = 0
  /\ focus_zone = "search"
  /\ running = TRUE /\ started = {}
  /\ dirty = FALSE
  /\ menu = UNSIZED /\ map = 0
  /\ busy = [b \in Buffer |-> FALSE] /\ cur_buf = 0
  /\ cairo = [b \in Buffer |-> 0] /\ cairo_size = UNSIZED
  /\ held = {} /\ attached = <<0, 0>> /\ frame = View(0)

-----------------------------------------------------------------------------
(* Keys.                                                                   *)

Escape ==
  /\ running' = FALSE
  /\ UNCHANGED <<query, filtered, sel, focus_zone, started, dirty>>

Return ==
  /\ running' = FALSE
  /\ started' = IF nfiltered > 0 /\ sel < nfiltered THEN started \cup {filtered[sel + 1]} ELSE started
  /\ UNCHANGED <<query, filtered, sel, focus_zone, dirty>>

\* With an empty list the selection becomes -1.
Down ==
  /\ focus_zone' = "list"
  /\ sel' = IF focus_zone = "search" THEN 0
            ELSE IF sel + 1 < nfiltered THEN sel + 1 ELSE nfiltered - 1
  /\ dirty' = TRUE
  /\ UNCHANGED <<query, filtered, running, started>>

Up ==
  /\ sel > -MaxUps
  /\ focus_zone' = IF sel = 0 THEN "search" ELSE focus_zone
  /\ sel' = IF focus_zone = "list" /\ sel # 0 THEN sel - 1 ELSE sel
  /\ dirty' = TRUE
  /\ UNCHANGED <<query, filtered, running, started>>

\* A letter is typed or deleted; the list is filtered again.
Edit(q) ==
  /\ query' = q
  /\ filtered' = Filtered(q)
  /\ focus_zone' = "search"
  /\ sel' = 0
  /\ dirty' = TRUE
  /\ UNCHANGED <<running, started>>

-----------------------------------------------------------------------------
(* The pointer.                                                            *)

\* (Slip: leaving the list for the search box does not count as a change.)
pointer_motion_Unseen(row) ==
  LET hover_idx == scroll_offset + row
  IN  IF row \notin 0..(MAX_ITEMS - 1)
      THEN /\ focus_zone' = "search"
           /\ UNCHANGED <<query, filtered, sel, running, started, dirty>>
      ELSE /\ hover_idx < nfiltered
           /\ focus_zone' = "list"
           /\ sel' = hover_idx
           /\ dirty' = TRUE
           /\ UNCHANGED <<query, filtered, running, started>>

\* Over row number row, or over the search box (-1).
pointer_motion(row) ==
  LET hover_idx == scroll_offset + row
  IN  IF row = -1
      THEN /\ focus_zone # "search"
           /\ focus_zone' = "search"
           /\ dirty' = TRUE
           /\ UNCHANGED <<query, filtered, sel, running, started>>
      ELSE /\ hover_idx < nfiltered
           /\ focus_zone # "list" \/ sel # hover_idx
           /\ focus_zone' = "list"
           /\ sel' = hover_idx
           /\ dirty' = TRUE
           /\ UNCHANGED <<query, filtered, running, started>>

pointer_button(row) ==
  LET clicked_idx == scroll_offset + row
  IN  /\ clicked_idx < nfiltered
      /\ started' = started \cup {filtered[clicked_idx + 1]}
      /\ running' = FALSE
      /\ UNCHANGED <<query, filtered, sel, focus_zone, dirty>>

\* What is handled goes to a menu that is on screen.  No handler looks at
\* running: events that arrived together are all handled before the loop ends.
Input ==
  /\ attached # <<0, 0>>
  /\ \/ Escape \/ Return \/ Down \/ Up
     \/ \E c \in Letter : Len(query) < MaxQuery /\ Edit(Append(query, c))
     \/ query # <<>> /\ Edit(Front(query))
     \/ \E row \in -1..(MAX_ITEMS - 1) : pointer_motion(row)
     \/ \E row \in 0..(MAX_ITEMS - 1) : pointer_button(row)
  /\ UNCHANGED <<drawing, menu, map, busy, held>>

-----------------------------------------------------------------------------
(* The surface.                                                            *)

\* Another size: the buffers are destroyed and mapped anew.  Which of them were
\* busy is left as it is.
menu_layer_configure(size) ==
  /\ menu # size
  /\ map < MaxMaps
  /\ Calm => ~dirty /\ ~\E b \in Buffer : busy[b]
  /\ menu' = size
  /\ map' = map + 1
  /\ dirty' = TRUE
  /\ UNCHANGED <<input, drawing, busy, held>>

\* (Slip: a buffer that comes back stays busy.)
buffer_release_Kept(h) ==
  /\ h \in held
  /\ held' = held \ {h}
  /\ UNCHANGED <<input, drawing, dirty, menu, map, busy>>

\* The compositor is done with a buffer; of a buffer that was destroyed the menu
\* does not hear.
buffer_release(h) ==
  /\ h \in held
  /\ held' = held \ {h}
  /\ busy' = IF h[1] = map THEN [busy EXCEPT ![h[2]] = FALSE] ELSE busy
  /\ UNCHANGED <<input, drawing, dirty, menu, map>>

\* (Slip: one row too few is scrolled.)
ScrolledTo_OneShort ==
  IF sel > scroll_offset + MAX_ITEMS THEN sel - MAX_ITEMS
  ELSE IF sel < scroll_offset THEN (IF sel < 0 THEN 0 ELSE sel)
  ELSE scroll_offset

ScrolledTo ==
  IF sel >= scroll_offset + MAX_ITEMS THEN sel - MAX_ITEMS + 1
  ELSE IF sel < scroll_offset THEN (IF sel < 0 THEN 0 ELSE sel)
  ELSE scroll_offset

\* (Slip: the cairo surface of the other buffer is kept when the size changes.)
ensure_cairo_menu_KeepsOther(b) ==
  /\ cairo' = IF cairo[b] # 0 /\ cairo_size = menu THEN cairo
              ELSE [cairo EXCEPT ![b] = map]
  /\ cairo_size' = menu

\* A cairo surface is kept as long as the size stays the same.
ensure_cairo_menu(b) ==
  /\ cairo' = IF cairo[b] # 0 /\ cairo_size = menu THEN cairo
              ELSE [c \in Buffer |-> IF c = b THEN map
                                     ELSE IF cairo_size # menu THEN 0 ELSE cairo[c]]
  /\ cairo_size' = menu

\* The end of a turn of the loop.  With both buffers busy the menu stays dirty.
render ==
  /\ running /\ dirty /\ menu # UNSIZED
  /\ \E b \in Buffer :
       /\ ~busy[b] /\ (b = cur_buf \/ busy[cur_buf])
       /\ cur_buf' = b
       /\ busy' = [busy EXCEPT ![b] = TRUE]
       /\ held' = held \cup {<<map, b>>}
       /\ attached' = <<map, b>>
       /\ ensure_cairo_menu(b)
  /\ scroll_offset' = ScrolledTo
  /\ frame' = View(scroll_offset')
  /\ dirty' = FALSE
  /\ UNCHANGED <<input, menu, map>>

-----------------------------------------------------------------------------

Next ==
  \/ Input
  \/ \E size \in Size : menu_layer_configure(size)
  \/ \E h \in held : buffer_release(h)
  \/ render

Spec == Init /\ [][Next]_vars

\* The loop turns, and the compositor gives back what has been replaced.
FairSpec ==
  /\ Spec
  /\ WF_vars(render)
  /\ WF_vars(\E h \in held \ {attached} : buffer_release(h))

-----------------------------------------------------------------------------

\* Types; and the list is never scrolled to a row before the first.
TypeOK ==
  /\ query \in BoundedSeq(Letter, MaxQuery) /\ sel \in Int /\ scroll_offset \in Nat
  /\ focus_zone \in {"search", "list"}
  /\ {running, dirty} \subseteq BOOLEAN /\ started \subseteq App
  /\ menu \in Size \cup {UNSIZED} /\ cairo_size \in Size \cup {UNSIZED}
  /\ map \in 0..MaxMaps /\ cairo \in [Buffer -> 0..MaxMaps]
  /\ busy \in [Buffer -> BOOLEAN] /\ cur_buf \in Buffer
  /\ held \subseteq (0..MaxMaps) \X Buffer

\* Unless it is dirty, the menu shows what it would draw now: no key and no
\* movement changes the list, the selection or the zone unseen.
FrameIsCurrent == menu # UNSIZED /\ ~dirty => frame = View(scroll_offset)

\* The greedy search misses nothing: the list has, once each, the applications
\* whose name or command has the letters of the query in their order.
ListIsFiltered ==
  /\ Range(filtered) = {a \in App : IsSubsequence(query, Name[a]) \/ IsSubsequence(query, Exec[a])}
  /\ Len(filtered) = Cardinality(Range(filtered))

\* The selected row is among those that are drawn.
SelectionIsDrawn ==
  menu # UNSIZED /\ ~dirty /\ focus_zone = "list" /\ nfiltered > 0
    => sel \in scroll_offset..(scroll_offset + MAX_ITEMS - 1)

\* What is drawn goes to the memory that is mapped, not to what was unmapped.
DrawsIntoMapping ==
  [][\A h \in held' \ held : cairo'[h[2]] = h[1]]_vars

\* A menu that is dirty gets drawn.
DirtyIsDrawn == (dirty /\ menu # UNSIZED) ~> (~dirty \/ ~running)

=============================================================================
