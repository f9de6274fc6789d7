---------------------------- MODULE BarGameMode ----------------------------
(***************************************************************************)
(* Game mode: while a game is fullscreen the bar draws nothing and gives   *)
(* up its layer surface, so that the compositor can scan the game out      *)
(* (bar-main.c, bar-taskbar.c, bar-surface.c, bar-state.h), told by two    *)
(* sources that race:                                                      *)
(*   - datagrams "fullscreen_on" and "fullscreen_off" that maindeck-wm     *)
(*     sends without blocking, whenever a window enters or leaves          *)
(*     fullscreen (wm-handlers.c);                                         *)
(*   - the states of the zwlr_foreign_toplevel handles.                    *)
(* The bar is the record `bar', each handler a function of it, and every   *)
(* turn of its loop ends by drawing if there is something to draw.         *)
(***************************************************************************)
EXTENDS Naturals, Sequences, FiniteSets

CONSTANTS
  Window,     \* the windows that can exist
  Child,      \* those whose toplevel handle has a parent
  NULL,       \* no window
  Lossy,      \* TRUE: a datagram that finds the socket full is lost, as in the
              \* code; FALSE: it never finds it full
  MaxQueue    \* datagrams the socket of the bar holds

ASSUME GameModeAssumption ==
  /\ NULL \notin Window
  /\ Child \subseteq Window
  /\ Lossy \in BOOLEAN
  /\ MaxQueue \in Nat \ {0}

VARIABLES
  mapped,             \* windows of the compositor
  windows,            \* windows of maindeck-wm: a closed one stays until it is destroyed
  fullscreen,         \* Window.fullscreen of maindeck-wm
  minimized,          \* Window.minimized of maindeck-wm
  applied,            \* windows the compositor was told to show fullscreen
  active,             \* the window with keyboard focus
  notify,             \* datagrams in the socket of the bar
  bar                 \* struct BarState

wm == <<mapped, windows, fullscreen, minimized, applied, active>>
vars == <<wm, notify, bar>>

Datagram == {"fullscreen_on", "fullscreen_off", "windows"}

\* The states of a toplevel that the bar looks at.  The window manager never
\* tells the compositor that a window is minimised: `minimized' is not reported.
Handle == SUBSET {"activated", "fullscreen"}

\* toplevels: the handles the bar knows, with the last state each reported.
\* surface: wl_surface # NULL.  shown: the frame on it has the present content.
BarState ==
  [toplevels         : UNION {[S -> Handle] : S \in SUBSET Window},
   wm_fullscreen     : BOOLEAN,
   render_suppressed : BOOLEAN,
   game_mode         : BOOLEAN,
   surface           : BOOLEAN,
   configured        : BOOLEAN,
   dirty             : BOOLEAN,
   dirty_deferred    : BOOLEAN,
   shown             : BOOLEAN]

-----------------------------------------------------------------------------
(* The bar: surface and drawing.                                           *)

bar_request_redraw(b) ==
  [b EXCEPT !.dirty = ~b.render_suppressed,
            !.dirty_deferred = @ \/ b.render_suppressed,
            !.shown = FALSE]

bar_surface_destroy(b) ==
  [b EXCEPT !.surface = FALSE, !.configured = FALSE, !.shown = FALSE]

bar_surface_restore(b) == [b EXCEPT !.surface = TRUE]

\* Both sources end here once they disagree with what the bar does.
SetSuppressed(b, on) ==
  LET c == [b EXCEPT !.render_suppressed = on,
                     !.game_mode = on,
                     !.dirty = @ /\ ~on,
                     !.dirty_deferred = on]
  IN  IF on THEN bar_surface_destroy(c) ELSE bar_surface_restore(c)

AnyActiveFullscreen(b) ==
  \E x \in DOMAIN b.toplevels \ Child : {"activated", "fullscreen"} \subseteq b.toplevels[x]

\* (Slip: only ever suppresses.)
bar_update_render_suppressed_OneWay(b) ==
  IF ~b.wm_fullscreen /\ AnyActiveFullscreen(b) /\ ~b.render_suppressed
  THEN SetSuppressed(b, TRUE) ELSE b

bar_update_render_suppressed(b) ==
  IF ~b.wm_fullscreen /\ AnyActiveFullscreen(b) # b.render_suppressed
  THEN SetSuppressed(b, AnyActiveFullscreen(b)) ELSE b

\* One datagram, as the loop of bar-main.c takes it.
OnNotify(b, m) ==
  LET on == m = "fullscreen_on"
      told == [b EXCEPT !.wm_fullscreen = on]
  IN  IF m = "windows" THEN b
      ELSE IF told.render_suppressed # on THEN SetSuppressed(told, on) ELSE told

\* The end of the loop: bar_render, which ends in bar_surface_commit.
Drawn(b) ==
  IF b.dirty /\ b.configured /\ ~b.render_suppressed
  THEN [b EXCEPT !.dirty = FALSE, !.shown = TRUE] ELSE b

\* At the start of the loop: the surface is created, nothing is drawn yet.
Fresh ==
  [toplevels |-> <<>>, wm_fullscreen |-> FALSE, render_suppressed |-> FALSE,
   game_mode |-> FALSE, surface |-> TRUE, configured |-> FALSE,
   dirty |-> FALSE, dirty_deferred |-> FALSE, shown |-> FALSE]

Init ==
  /\ mapped = {} /\ windows = {}
  /\ fullscreen = {} /\ minimized = {} /\ applied = {}
  /\ active = NULL
  /\ notify = <<>>
  /\ bar = Fresh

-----------------------------------------------------------------------------
(* The window manager.  A datagram that finds no room is lost.             *)

wm_notify_bar_send(queue, m) == IF Len(queue) < MaxQueue THEN Append(queue, m) ELSE queue

HasRoomFor(n) == Lossy \/ Len(notify) + n <= MaxQueue

Tell(m) == HasRoomFor(1) /\ notify' = wm_notify_bar_send(notify, m)

wm_handle_window(x) ==
  /\ x \notin windows
  /\ mapped' = mapped \cup {x}
  /\ windows' = windows \cup {x}
  /\ UNCHANGED <<fullscreen, minimized, applied, active, notify, bar>>

\* The compositor unmaps x and sends `closed' to both programs; maindeck-wm
\* destroys a child at once and any other window in the next manage sequence.
window_handle_closed(x) ==
  /\ x \in mapped
  /\ mapped' = mapped \ {x}
  /\ applied' = applied \ {x}
  /\ active' = IF active = x THEN NULL ELSE active
  /\ IF x \in Child
     THEN /\ windows' = windows \ {x}
          /\ fullscreen' = fullscreen \ {x}
          /\ minimized' = minimized \ {x}
          /\ IF x \in fullscreen THEN Tell("fullscreen_off") ELSE UNCHANGED notify
     ELSE UNCHANGED <<windows, fullscreen, minimized, notify>>
  /\ UNCHANGED bar

window_handle_fullscreen_requested(x) ==
  /\ x \in mapped
  /\ fullscreen' = fullscreen \cup {x}
  /\ IF x \in minimized THEN UNCHANGED notify ELSE Tell("fullscreen_on")
  /\ UNCHANGED <<mapped, windows, minimized, applied, active, bar>>

\* (Slip: the bar is only told when the compositor had shown x fullscreen.)
window_handle_exit_fullscreen_requested_IfApplied(x) ==
  /\ x \in mapped
  /\ fullscreen' = fullscreen \ {x}
  /\ IF x \in applied THEN Tell("fullscreen_off") ELSE UNCHANGED notify
  /\ UNCHANGED <<mapped, windows, minimized, applied, active, bar>>

window_handle_exit_fullscreen_requested(x) ==
  /\ x \in mapped
  /\ fullscreen' = fullscreen \ {x}
  /\ Tell("fullscreen_off")
  /\ UNCHANGED <<mapped, windows, minimized, applied, active, bar>>

window_handle_minimize_requested(x) ==
  /\ x \in mapped \ minimized
  /\ minimized' = minimized \cup {x}
  /\ fullscreen' = fullscreen \ {x}
  /\ IF x \in fullscreen THEN Tell("fullscreen_off") ELSE UNCHANGED notify
  /\ UNCHANGED <<mapped, windows, applied, active, bar>>

\* A manage sequence destroys the closed windows, may bring one back that was
\* clicked in the taskbar, applies fullscreen, gives the focus to one of the
\* windows on screen (MainDeck says which) and publishes the windows there are.
wm_handle_manage_start(restored, focus) ==
  LET closed == windows \ mapped
      iconic == (minimized \ closed) \ {restored}
      told == IF closed \cap fullscreen = {} THEN notify
              ELSE wm_notify_bar_send(notify, "fullscreen_off")
  IN  /\ restored \in minimized \cup {NULL}
      /\ focus \in (mapped \ iconic) \cup {NULL}
      /\ HasRoomFor(IF closed \cap fullscreen = {} THEN 1 ELSE 2)
      /\ windows' = mapped
      /\ fullscreen' = fullscreen \ closed
      /\ minimized' = iconic
      /\ applied' = (fullscreen \ closed) \ iconic
      /\ active' = focus
      /\ notify' = wm_notify_bar_send(told, "windows")
      /\ UNCHANGED <<mapped, bar>>

-----------------------------------------------------------------------------
(* The bar: one turn of its loop for each event.                           *)

Turn(b) == bar' = Drawn(b)

\* What the compositor has to say about x.
StateOf(x) ==
  (IF active = x THEN {"activated"} ELSE {}) \cup (IF x \in applied THEN {"fullscreen"} ELSE {})

Known == DOMAIN bar.toplevels
Told(x) == x \in Known /\ bar.toplevels[x] = StateOf(x)

\* mgr_toplevel for a new handle, then tl_state and tl_done.  A window the bar
\* is behind on gets the state it has by then.
tl_state(x) ==
  /\ x \in mapped /\ ~Told(x)
  /\ LET seen == [y \in Known \cup {x} |-> IF y = x THEN StateOf(x) ELSE bar.toplevels[y]]
     IN  Turn(bar_update_render_suppressed(bar_request_redraw([bar EXCEPT !.toplevels = seen])))
  /\ UNCHANGED <<wm, notify>>

tl_closed(x) ==
  /\ x \in Known \ mapped
  /\ LET left == [y \in Known \ {x} |-> bar.toplevels[y]]
     IN  Turn(bar_update_render_suppressed(bar_request_redraw([bar EXCEPT !.toplevels = left])))
  /\ UNCHANGED <<wm, notify>>

\* Only a configure that finds the bar not configured, or changes its size,
\* allocates buffers and asks for a redraw.
layer_surface_configure(resized) ==
  /\ bar.surface
  /\ LET b == IF ~bar.configured \/ resized THEN bar_request_redraw(bar) ELSE bar
     IN  Turn([b EXCEPT !.configured = TRUE])
  /\ UNCHANGED <<wm, notify>>

notify_readable ==
  /\ notify # <<>>
  /\ notify' = Tail(notify)
  /\ Turn(OnNotify(bar, Head(notify)))
  /\ UNCHANGED wm

\* The clock, volume, battery or a tray item changed.
bar_status_tick ==
  /\ Turn(bar_request_redraw(bar))
  /\ UNCHANGED <<wm, notify>>

\* The bar exits and is started again; datagrams to the old socket are lost.
restart ==
  /\ bar' = Fresh
  /\ notify' = <<>>
  /\ UNCHANGED wm

WM ==
  \E x \in Window :
    \/ wm_handle_window(x)
    \/ window_handle_closed(x)
    \/ window_handle_fullscreen_requested(x)
    \/ window_handle_exit_fullscreen_requested(x)
    \/ window_handle_minimize_requested(x)

Bar ==
  \/ \E x \in Window : tl_state(x) \/ tl_closed(x)
  \/ \E resized \in BOOLEAN : layer_surface_configure(resized)
  \/ notify_readable
  \/ bar_status_tick
  \/ restart

ManageSequence ==
  \E restored, focus \in Window \cup {NULL} : wm_handle_manage_start(restored, focus)

Next == WM \/ ManageSequence \/ Bar

Spec == Init /\ [][Next]_vars

\* poll serves every socket that keeps having something to read, and the server
\* follows what it sends maindeck-wm with a manage sequence.
FairSpec ==
  /\ Spec
  /\ SF_vars(ManageSequence)
  /\ \A x \in Window : SF_vars(tl_state(x)) /\ SF_vars(tl_closed(x))
  /\ SF_vars(layer_surface_configure(FALSE))
  /\ SF_vars(notify_readable)

-----------------------------------------------------------------------------

TypeOK ==
  /\ mapped \subseteq windows /\ windows \subseteq Window
  /\ fullscreen \subseteq windows /\ minimized \subseteq windows
  /\ applied \subseteq mapped
  /\ active \in mapped \cup {NULL}
  /\ Len(notify) <= MaxQueue /\ \A n \in DOMAIN notify : notify[n] \in Datagram
  /\ bar \in BarState

\* Whatever happened while the bar was away or not yet configured, the frame on
\* a configured surface is up to date: no redraw is lost.
NoRedrawLost == bar.configured => bar.shown

\* Everything the two sources have to say has arrived.
Settled ==
  /\ notify = <<>>
  /\ applied = fullscreen \ minimized
  /\ mapped = windows
  /\ Known = mapped
  /\ \A x \in mapped : Told(x)

\* Once all is said, the bar is back if nothing is fullscreen.
BarBackAfterGame == Settled /\ fullscreen = {} => bar.surface

\* Once all is said, the bar has made way for a game that is on screen and has
\* the focus ("while fullscreen is active", STATUS.md).
BarAwayDuringGame ==
  Settled /\ active \in applied \ Child => bar.render_suppressed

\* The bar is drawn again some time after the last game has gone, whatever the
\* order in which the two sources tell it.
BarReturns == fullscreen = {} ~> (bar.shown \/ fullscreen # {})

=============================================================================
