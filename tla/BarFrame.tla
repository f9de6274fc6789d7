------------------------------ MODULE BarFrame ------------------------------
(***************************************************************************)
(* What the bar draws, what of it the compositor is told to look at again, *)
(* and what a click then hits (bar-render.c, bar-surface.c, bar-input.c).  *)
(*                                                                         *)
(* Every frame is painted whole, into one of two buffers in turn, but only *)
(* the sections that were asked to be redrawn, or whose edges moved, are   *)
(* damaged: elsewhere the frame before stays on screen.  Painting also     *)
(* leaves the areas in which a click is looked up until the next frame, by *)
(* the index the button had when it was painted.                           *)
(*                                                                         *)
(* Horizontal positions are the pixels of the source; the screen is        *)
(* observed at the columns of Column.  Indices count from 1.               *)
(***************************************************************************)
EXTENDS Integers, Sequences, FiniteSets, SequencesExt

CONSTANTS
  Window,      \* toplevels that can appear
  Dialog,      \* ... of which these can have a parent
  Service,     \* tray items that can appear
  Reading,     \* what the status modules can have to show
  TextWidth,   \* [Reading -> Nat]: the width of the clock's text
  NULL,
  Launchers,   \* config.ql: the widths of the quick-launch buttons
  Modules,     \* config.status
  Width,       \* widths the compositor can configure
  Place,       \* places where mmap can put a mapping of a given size
  Column,      \* columns at which the screen is observed
  MaxBatch     \* events dispatched in one turn of the loop

ASSUME FrameAssumption ==
  /\ Dialog \subseteq Window
  /\ TextWidth \in [Reading -> Nat]
  /\ \A i \in DOMAIN Launchers : Launchers[i] \in Nat
  /\ Range(Modules) \subseteq {"POWER", "CLOCK", "BATTERY", "VOLUME"}
  /\ Width \subseteq Nat \ {0} /\ Column \subseteq Nat
  /\ MaxBatch \in Nat \ {0}

VARIABLES
  bar,      \* struct BarState, and the cairo surfaces of bar-render.c
  screen,   \* [Column -> what the compositor shows there]
  batch     \* events dispatched in this turn of the loop

vars == <<bar, screen, batch>>

Section == {"QL", "TASKBAR", "TRAY", "STATUS"}

Blank == [c \in Column |-> <<>>]
NoHover == [hit |-> 0, type |-> "NONE", index |-> 0]

\* The loop starts with a surface that is not configured.
Init ==
  /\ \E r \in Reading :
       bar = [toplevels |-> <<>>,          \* [id, child, look]
              items |-> <<>>,              \* [id, look]
              reading |-> r,
              suppressed |-> FALSE,
              surface |-> TRUE, configured |-> FALSE,
              width |-> 0,                 \* buf_width
              map |-> NULL,                \* where shm_data points
              cs |-> [b \in 0..1 |-> NULL],\* where s_cs[b] paints
              cs_w |-> 0,
              cur_buf |-> 0,
              dirty |-> TRUE, dirty_flags |-> {"STATUS"},
              section_box_prev |-> <<>>,   \* <<>>: not prev_boxes_valid
              hit_areas |-> <<>>,
              hover |-> NoHover]
  /\ screen = Blank
  /\ batch = 0

-----------------------------------------------------------------------------
(* Geometry.                                                               *)

BTN_PAD == 8
ICON_SLOT == 18 + 2 * BTN_PAD
POWER_BTN_W == 34

ModuleWidth(b, m) ==
  CASE m = "POWER" -> POWER_BTN_W
    [] m = "CLOCK" -> TextWidth[b.reading] + 2 * BTN_PAD
    [] OTHER -> ICON_SLOT

Area(type, index, x, w) == [type |-> type, index |-> index, x |-> x, w |-> w]

\* From the left edge, with a larger gap after the start button.
draw_quicklaunch ==
  FoldLeft(LAMBDA acc, i :
             [areas |-> Append(acc.areas, Area("QL", i, acc.x, Launchers[i])),
              x |-> acc.x + Launchers[i] + IF i = 1 THEN 14 ELSE 4],
           [areas |-> <<>>, x |-> 4], [i \in DOMAIN Launchers |-> i])

\* From x_end to the left, the last button first.
ToTheLeft(type, widths, x_end) ==
  FoldLeft(LAMBDA acc, i :
             LET x == acc.x - widths[i] - 2
             IN  [areas |-> Append(acc.areas, Area(type, i, x, widths[i])), x |-> x],
           [areas |-> <<>>, x |-> x_end], Reverse([i \in DOMAIN widths |-> i]))

draw_status(b) ==
  ToTheLeft("STATUS", [i \in DOMAIN Modules |-> ModuleWidth(b, Modules[i])], b.width - 4)
draw_tray(b) ==
  ToTheLeft("TRAY", [i \in DOMAIN b.items |-> ICON_SLOT], draw_status(b).x - 4)

\* The space between is shared out; buttons have a least and a largest width.
draw_taskbar(b, x_start, x_end) ==
  LET shown == SelectSeq([i \in DOMAIN b.toplevels |-> i],
                         LAMBDA i : ~b.toplevels[i].child)
      share == (x_end - x_start - 4) \div Len(shown)
      btn_w == IF share > 160 THEN 160 ELSE IF share < 32 THEN 32 ELSE share
  IN  [k \in DOMAIN shown |->
         Area("TASKBAR", shown[k], x_start + 4 + (k - 1) * btn_w, btn_w - 2)]

\* Where everything is, in the order in which it is painted.
Layout(b) ==
  LET ql == draw_quicklaunch
      status == draw_status(b)
      tray == draw_tray(b)
  IN  [areas |-> <<ql.areas, <<Area("SEPARATOR", 0, ql.x + 2, 1)>>, status.areas, tray.areas,
                   <<Area("SEPARATOR", 0, tray.x - 4, 1)>>,
                   draw_taskbar(b, ql.x + 8, tray.x - 8)>>,
       box |-> [QL |-> <<-6, ql.x + 14>>,
                TASKBAR |-> <<ql.x - 2, tray.x + 2>>,
                TRAY |-> <<tray.x - 14, status.x + 6>>,
                STATUS |-> <<status.x - 14, b.width + 6>>]]

Covers(area, c) == area.x <= c /\ c < area.x + area.w

\* What a button shows.
Content(b, area) ==
  CASE area.type = "TASKBAR" -> b.toplevels[area.index]
    [] area.type = "TRAY" -> b.items[area.index]
    [] area.type = "STATUS" -> b.reading
    [] OTHER -> area.index

\* The picture in column c: what covers it, and how far in.
Picture(b, c) ==
  LET covering == SelectSeq(FlattenSeq(Layout(b).areas), LAMBDA area : Covers(area, c))
  IN  [i \in DOMAIN covering |->
         [area |-> covering[i], content |-> Content(b, covering[i]),
          hovered |-> /\ covering[i].type = b.hover.type
                      /\ covering[i].index = b.hover.index]]

-----------------------------------------------------------------------------
(* Redraws.                                                                *)

bar_request_redraw_flags(b, flags) ==
  [b EXCEPT !.dirty_flags = @ \cup flags, !.dirty = ~b.suppressed]

\* bar_surface_resize: the buffers are made anew, somewhere.
bar_surface_resize(b, w, place) ==
  [b EXCEPT !.width = w, !.map = <<w, place>>, !.cur_buf = 0]

\* A cairo surface is made again only when the size is another.
ensure_cairo(b) ==
  LET kept == IF b.cs_w = b.width THEN b.cs ELSE [i \in 0..1 |-> NULL]
  IN  [b EXCEPT !.cs = [kept EXCEPT ![b.cur_buf] = IF @ = NULL THEN b.map ELSE @],
                !.cs_w = b.width]

\* Column c lies where a section is or was.
InHull(c, new, old) ==
  (c >= new[1] \/ c >= old[1]) /\ (c < new[2] \/ c < old[2])

\* (Slip: a section whose edges moved is not damaged.)
Damaged_FlagsOnly(b, box) ==
  IF b.section_box_prev = <<>> \/ "ALL" \in b.dirty_flags THEN Column
  ELSE {c \in Column : \E s \in Section \cap b.dirty_flags :
          InHull(c, box[s], b.section_box_prev[s])}

\* The columns that bar_surface_commit damages: of each section to be redrawn,
\* or whose edges moved, all from where it began to where it ends or ended.
Damaged(b, box) ==
  IF b.section_box_prev = <<>> \/ "ALL" \in b.dirty_flags THEN Column
  ELSE {c \in Column : \E s \in Section :
          /\ s \in b.dirty_flags \/ box[s] # b.section_box_prev[s]
          /\ InHull(c, box[s], b.section_box_prev[s])}

\* (Slip: hit_n is not reset.)
HitAreas_Kept(b) ==
  b.hit_areas \o SelectSeq(FlattenSeq(Layout(b).areas), LAMBDA a : a.type # "SEPARATOR")

HitAreas(b) ==
  SelectSeq(FlattenSeq(Layout(b).areas), LAMBDA a : a.type # "SEPARATOR")

\* A surface over memory that is no longer mapped leaves the buffer blank, if
\* the program survives it.
bar_render ==
  LET b == ensure_cairo(bar)
      box == Layout(b).box
      painted == [c \in Column |-> IF b.cs[b.cur_buf] = b.map THEN Picture(b, c) ELSE <<>>]
  IN  /\ screen' = [c \in Column |-> IF c \in Damaged(b, box) THEN painted[c] ELSE screen[c]]
      /\ bar' = [b EXCEPT !.dirty = FALSE, !.dirty_flags = {},
                          !.section_box_prev = box,
                          !.hit_areas = HitAreas(b),
                          !.cur_buf = 1 - @]

\* The end of a turn of the loop of bar-main.c.
Turn ==
  /\ batch > 0 /\ batch' = 0
  /\ IF bar.dirty /\ bar.configured /\ ~bar.suppressed
     THEN bar_render
     ELSE UNCHANGED <<bar, screen>>

-----------------------------------------------------------------------------
(* Events.  Each is a handler called from the loop.                        *)

Handle(b) == batch < MaxBatch /\ batch' = batch + 1 /\ bar' = b

Here(list, x) == \E i \in DOMAIN list : list[i].id = x
Without(list, x) == SelectSeq(list, LAMBDA e : e.id # x)
Changed(list, x) == [i \in DOMAIN list |->
                       IF list[i].id = x THEN [list[i] EXCEPT !.look = 1 - @] ELSE list[i]]

mgr_toplevel(x) ==
  /\ ~Here(bar.toplevels, x)
  /\ Handle(bar_request_redraw_flags(
       [bar EXCEPT !.toplevels = Append(@, [id |-> x, child |-> FALSE, look |-> 0])],
       {"TASKBAR"}))
  /\ UNCHANGED screen

\* Its title, icon or state, which is what its button shows.
tl_title(x) ==
  /\ Here(bar.toplevels, x)
  /\ Handle(bar_request_redraw_flags([bar EXCEPT !.toplevels = Changed(@, x)], {"TASKBAR"}))
  /\ UNCHANGED screen

tl_parent(x) ==
  /\ Here(bar.toplevels, x)
  /\ Handle(bar_request_redraw_flags(
       [bar EXCEPT !.toplevels =
          [i \in DOMAIN @ |-> IF @[i].id = x THEN [@[i] EXCEPT !.child = ~@] ELSE @[i]]],
       {"TASKBAR"}))
  /\ UNCHANGED screen

\* tl_closed, and bar_taskbar_prune_ghosts for a ghost.
tl_closed(x) ==
  /\ Here(bar.toplevels, x)
  /\ Handle(bar_request_redraw_flags([bar EXCEPT !.toplevels = Without(@, x)], {"TASKBAR"}))
  /\ UNCHANGED screen

\* add_item, on_props_reply and remove_item.
tray_changed(s) ==
  /\ \E items \in IF Here(bar.items, s) THEN {Changed(bar.items, s), Without(bar.items, s)}
                  ELSE {Append(bar.items, [id |-> s, look |-> 0])} :
       Handle(bar_request_redraw_flags([bar EXCEPT !.items = items], {"TRAY"}))
  /\ UNCHANGED screen

bar_status_tick ==
  /\ \E r \in Reading :
       Handle(bar_request_redraw_flags([bar EXCEPT !.reading = r], {"STATUS"}))
  /\ UNCHANGED screen

\* The pointer is only over a surface that has a buffer.
Visible == bar.surface /\ screen # Blank

hit_test(c) ==
  LET hits == {i \in DOMAIN bar.hit_areas : Covers(bar.hit_areas[i], c)}
  IN  IF hits = {} THEN 0 ELSE CHOOSE i \in hits : \A j \in hits : i <= j

HoverOn(hit) ==
  IF hit = 0 THEN NoHover
  ELSE [hit |-> hit, type |-> bar.hit_areas[hit].type, index |-> bar.hit_areas[hit].index]

SetHover(hover) ==
  bar_request_redraw_flags([bar EXCEPT !.hover = hover],
                           {bar.hover.type, hover.type} \ {"NONE"})

\* Nothing is done when the area has the number of the one before.
ptr_motion(c) ==
  /\ Visible
  /\ Handle(IF hit_test(c) = bar.hover.hit THEN bar ELSE SetHover(HoverOn(hit_test(c))))
  /\ UNCHANGED screen

\* clear_bar_hover, on leaving the bar and on entering another surface.
ptr_leave ==
  /\ Visible
  /\ bar.hover.hit # 0
  /\ Handle(SetHover(NoHover))
  /\ UNCHANGED screen

layer_surface_configure(w) ==
  /\ bar.surface
  /\ \E place \in Place :
       Handle([IF bar.configured /\ w = bar.width THEN bar
               ELSE bar_request_redraw_flags(
                      bar_surface_resize([bar EXCEPT !.section_box_prev = <<>>], w, place),
                      {"ALL"})
               EXCEPT !.configured = TRUE])
  /\ UNCHANGED screen

\* The bar gives its surface up for a game and takes one again (BarGameMode).
bar_suppress(on) ==
  /\ bar.suppressed # on
  /\ IF on
     THEN /\ Handle([bar EXCEPT !.suppressed = TRUE, !.dirty = FALSE, !.surface = FALSE,
                                !.configured = FALSE, !.map = NULL])
          /\ screen' = Blank
     ELSE /\ Handle([bar EXCEPT !.suppressed = FALSE, !.surface = TRUE])
          /\ UNCHANGED screen

Next ==
  \/ \E x \in Window : mgr_toplevel(x) \/ tl_title(x) \/ tl_closed(x)
  \/ \E x \in Dialog : tl_parent(x)
  \/ \E s \in Service : tray_changed(s)
  \/ bar_status_tick
  \/ \E c \in Column : ptr_motion(c)
  \/ ptr_leave
  \/ \E w \in Width : layer_surface_configure(w)
  \/ \E on \in BOOLEAN : bar_suppress(on)
  \/ Turn

Spec == Init /\ [][Next]_vars

-----------------------------------------------------------------------------

\* No redraw is owed.
Fresh == bar.configured /\ ~bar.dirty

\* Although only parts of a frame are damaged, all of the screen is what the bar
\* would paint now.
ShownIsDrawn == Fresh => \A c \in Column : screen[c] = Picture(bar, c)

\* What a click in column c is done to, by the index the hit area holds.
Clicked(c) ==
  LET hit == hit_test(c)
      area == bar.hit_areas[hit]
  IN  IF hit = 0 THEN NULL
      ELSE IF area.type = "TASKBAR"
           THEN IF area.index \in DOMAIN bar.toplevels THEN bar.toplevels[area.index].id ELSE NULL
      ELSE IF area.type = "TRAY"
           THEN IF area.index \in DOMAIN bar.items THEN bar.items[area.index].id ELSE NULL
      ELSE <<area.type, area.index>>

\* What the user sees there: the button painted last.
Seen(c) ==
  LET buttons == SelectSeq(screen[c], LAMBDA p : p.area.type # "SEPARATOR")
      top == Last(buttons)
  IN  IF buttons = <<>> THEN NULL
      ELSE IF top.area.type \in {"TASKBAR", "TRAY"} THEN top.content.id
      ELSE <<top.area.type, top.area.index>>

\* A click is done to the button that is seen where it falls, once the bar has
\* nothing left to draw.
ClickHitsShown == Fresh => \A c \in Column : Clicked(c) = Seen(c)

\* ... and while it has.
ClickAlwaysHitsShown == Visible => \A c \in Column : Clicked(c) = Seen(c)

\* cairo never paints into memory that has been unmapped.
PaintsIntoMapping ==
  bar.configured => ensure_cairo(bar).cs[bar.cur_buf] = bar.map

\* Wherever the pointer moves, the button there is the one highlighted.
HoverFollows ==
  [][\A c \in Column : ptr_motion(c) =>
       /\ bar'.hover.type = HoverOn(hit_test(c)).type
       /\ bar'.hover.index = HoverOn(hit_test(c)).index]_vars

=============================================================================
