------------------------------- MODULE Screen -------------------------------
(***************************************************************************)
(* What the display server shows of the window manager's layout.           *)
(*                                                                         *)
(* The manager sends requests only where something changed since the last  *)
(* one: it remembers per window what it applied (applied_fullscreen,       *)
(* applied_visible), per output the presentation mode, the node it placed  *)
(* on top last, and a signature of the layout drawn last; a drawing whose  *)
(* signature is the same sends nothing.  `screen' is that memory and       *)
(* `server' the truth it has to agree with, kept by the rules of           *)
(* river-window-management-v1.xml.  Manage and render sequences alternate  *)
(* as the protocol has it: window, seat and output events are sent before  *)
(* manage_start, dimensions before render_start, and every manage sequence *)
(* is followed by a render sequence.  The bar's datagrams and the poll     *)
(* timeout of a held key fall anywhere.                                    *)
(***************************************************************************)
EXTENDS MainDeck

CONSTANTS
  Output,      \* the outputs that can exist
  Removable,   \* those that can be removed again
  Box,         \* the usable areas an output can have
  Async        \* windows presented without vsync when fullscreen: the client's
               \* hint, or an app_id that is likely a game's

ASSUME OutputAssumption ==
  /\ NULL \notin Output
  /\ Removable \subseteq Output /\ Async \subseteq Window
  /\ Box \subseteq Nat \ {0}

VARIABLES
  screen,   \* what maindeck-wm remembers
  server,   \* what the server has been told
  phase     \* where the server is between two sequences

svars == <<wm, last_layout_sig, batch, screen, server, phase>>

ScreenInit ==
  /\ Init
  /\ screen = [outputs |-> <<>>, removed |-> {},
               box |-> [o \in Output |-> 0],
               fs_output |-> [x \in Window |-> NULL],
               applied_fullscreen |-> {},
               applied_visible |-> {},
               last_placed_top |-> NULL,
               fresh_sig |-> <<>>,             \* g_layout_sig, <<>> when not fresh
               last_outputs |-> <<>>,          \* the rest of last_layout_sig
               last_render_sig |-> <<>>]
  /\ server = [stack |-> <<>>,                 \* rendering order, top last
               hidden |-> {},
               proposed |-> {},                \* may be displayed once it answers
               fullscreen |-> [x \in Window |-> NULL],
               place |-> [x \in Window |-> <<>>],
               presentation |-> [o \in Output |-> "vsync"]]
  /\ phase = "idle"

-----------------------------------------------------------------------------
(* Outputs.                                                                *)

\* The first that is there and has its area, or else the first that is there.
active_output(s) ==
  LET there == {i \in DOMAIN s.outputs : s.outputs[i] \notin s.removed}
      sized == {i \in there : s.box[s.outputs[i]] # 0}
  IN  IF sized # {} THEN s.outputs[Min(sized)]
      ELSE IF there # {} THEN s.outputs[Min(there)] ELSE NULL

output_box(s) ==
  LET o == active_output(s) IN IF o = NULL \/ s.box[o] = 0 THEN <<>> ELSE <<o, s.box[o]>>

\* (Slip: the areas are not mixed in.)
OutputsOf_NoAreas(s) == <<s.outputs, s.removed>>

\* What the signature takes from the outputs.
OutputsOf(s) == <<output_box(s), [i \in DOMAIN s.outputs |-> <<s.outputs[i], s.box[s.outputs[i]]>>],
                  s.removed>>

window_fullscreen_output(s, x) ==
  IF s.fs_output[x] # NULL THEN s.fs_output[x] ELSE active_output(s)

-----------------------------------------------------------------------------
(* Layout and drawing.                                                     *)

Roots(w) == {x \in Live(w) : w.parent[x] = NULL}

\* Fullscreen is entered and left on the edge, by roots only.
Entering(s, w) ==
  {x \in (Roots(w) \cap w.fullscreen) \ (w.minimized \cup s.applied_fullscreen) :
     window_fullscreen_output(s, x) # NULL}
Leaving(s, w) ==
  (Roots(w) \cap s.applied_fullscreen) \ (w.fullscreen \ w.minimized)

\* The windows that are sized: dialogs, floating windows and the tiles on screen.
Proposed(w) ==
  {x \in Live(w) : \/ w.parent[x] # NULL
                   \/ x \in w.floating
                   \/ x \in IF w.maximized THEN {target_window(w)} ELSE MainAndDeck(w)}

\* window_render_layout: whether x is shown.
IsDrawn(w, x) ==
  /\ x \notin w.minimized
  /\ IF w.parent[x] # NULL THEN window_is_really_visible(w, x)
     ELSE \/ x \in w.fullscreen \cup w.floating
          \/ x \in IF w.maximized THEN {target_window(w)} ELSE MainAndDeck(w)

\* Where a drawn window stands: a tile in its box, a dialog centred over the box
\* of its root, a floating window over the usable area once its size is known.
BoxOf(s, w, x) ==
  <<output_box(s), IF single(w) THEN "whole" ELSE IF x = Shown(w)[1] THEN "MAIN" ELSE "DECK">>
Spot(s, w, x) ==
  IF w.parent[x] # NULL THEN <<BoxOf(s, w, root_window(w, x)), w.size[x]>>
  ELSE IF x \in w.fullscreen THEN <<>>
  ELSE IF x \in w.floating THEN IF w.size[x] = 0 THEN <<>> ELSE <<output_box(s), w.size[x]>>
  ELSE BoxOf(s, w, x)

\* The order in which windows are placed on top: cards, the target, dialogs,
\* floating windows.
PlacingOrder(w) ==
  LET drawn == SelectSeq(w.windows, LAMBDA x : IsDrawn(w, x))
      target == target_window(w)
  IN  SelectSeq(drawn, LAMBDA x : IsCard(w, x))
        \o (IF target = NULL THEN <<>> ELSE <<target>>)
        \o SelectSeq(drawn, LAMBDA x : w.parent[x] # NULL)
        \o SelectSeq(drawn, LAMBDA x : w.parent[x] = NULL /\ x \in w.floating)

Raised(stack, x) == Append(SelectSeq(stack, LAMBDA y : y # x), x)

\* (Slip: what is on screen already keeps its place.)
wm_place_top_OnlyNew(placed, x) ==
  IF x \in screen.applied_visible THEN placed
  ELSE [stack |-> Raised(placed.stack, x), top |-> x]

\* A window that was placed last is not placed again.
wm_place_top(placed, x) ==
  IF placed.top = x THEN placed
  ELSE [stack |-> Raised(placed.stack, x), top |-> x]

Placed(w) ==
  FoldLeft(wm_place_top, [stack |-> server.stack, top |-> screen.last_placed_top],
           PlacingOrder(w))

\* The fullscreen window that decides the presentation of o: the target, or the
\* last one in the list.
fullscreen_window_for_output(s, w, o) ==
  LET controls == SelectSeq(w.windows, LAMBDA x :
                    /\ x \in (w.fullscreen \ w.minimized) \cap s.applied_fullscreen
                    /\ window_fullscreen_output(s, x) = o)
      target == target_window(w)
  IN  IF controls = <<>> THEN NULL
      ELSE IF target \in Range(controls) THEN target ELSE Last(controls)

-----------------------------------------------------------------------------
(* Steps.                                                                  *)

\* Windows that are destroyed are forgotten on both sides.
Forget(s, D) ==
  [s EXCEPT !.fs_output = [x \in Window |-> IF x \in D THEN NULL ELSE @[x]],
            !.applied_fullscreen = @ \ D,
            !.applied_visible = @ \ D,
            !.last_placed_top = IF @ \in D THEN NULL ELSE @]
Closed(t, D) ==
  [t EXCEPT !.stack = SelectSeq(@, LAMBDA x : x \notin D),
            !.hidden = @ \ D,
            !.proposed = @ \ D,
            !.fullscreen = [x \in Window |-> IF x \in D THEN NULL ELSE @[x]],
            !.place = [x \in Window |-> IF x \in D THEN <<>> ELSE @[x]]]

\* Events that precede a manage sequence.
Announce(s, t) ==
  /\ phase # "rendering" /\ phase' = "announcing"
  /\ screen' = Forget(s, Live(wm) \ Live(wm'))
  /\ server' = Closed(t, Live(wm) \ Live(wm'))

\* The server says nothing of the place a new node takes in the rendering order.
NewWindow(x) ==
  /\ wm_handle_window(x)
  /\ \E stack \in {<<x>> \o server.stack, Append(server.stack, x)} :
       Announce([screen EXCEPT !.last_placed_top = NULL], [server EXCEPT !.stack = stack])

Fullscreen(x) ==
  \/ /\ window_handle_fullscreen_requested(x)
     /\ \E o \in (Range(screen.outputs) \ screen.removed) \cup {NULL} :
          Announce([screen EXCEPT !.fs_output[x] = o], server)
  \/ /\ window_handle_exit_fullscreen_requested(x)
     /\ Announce([screen EXCEPT !.fs_output[x] = NULL], server)
  \/ /\ window_handle_minimize_requested(x)
     /\ Announce([screen EXCEPT !.fs_output[x] = IF x \in wm.fullscreen THEN NULL ELSE @], server)

Parent(x) ==
  \E p \in Pointer :
    /\ window_handle_parent(x, p)
    /\ Announce([screen EXCEPT !.last_placed_top =
                     IF p = NULL /\ p # wm.parent[x] THEN NULL ELSE @], server)

OtherEvent(x) ==
  /\ \/ window_handle_closed(x)
     \/ window_handle_app_id(x)
     \/ \E t \in Titles[x] : window_handle_title(x, t)
     \/ window_handle_dimensions_hint(x)
  /\ Announce(screen, server)

SeatInput ==
  /\ \/ \E action \in Key : xkb_binding_handle(action)
     \/ \E x \in Window : seat_handle_window_interaction(x)
     \/ layer_shell_seat_handle_focus_none
  /\ Announce(screen, server)

\* Outputs come, get their area (and another, when the bar appears) and go; a
\* window that was fullscreen on an output that goes no longer is.
OutputEvent ==
  /\ phase # "rendering" /\ phase' = "announcing"
  /\ UNCHANGED vars
  /\ \E o \in Output :
       \/ /\ o \notin Range(screen.outputs)
          /\ screen' = [screen EXCEPT !.outputs = Append(@, o)]
          /\ UNCHANGED server
       \/ /\ o \in Range(screen.outputs) \ screen.removed
          /\ \E b \in Box \ {screen.box[o]} : screen' = [screen EXCEPT !.box[o] = b]
          /\ UNCHANGED server
       \/ /\ o \in (Range(screen.outputs) \ screen.removed) \cap Removable
          /\ screen' = [screen EXCEPT !.removed = @ \cup {o}]
          /\ server' = [server EXCEPT
               !.fullscreen = [x \in Window |-> IF @[x] = o THEN NULL ELSE @[x]],
               !.place = [x \in Window |-> IF server.fullscreen[x] = o THEN <<>> ELSE @[x]]]

\* Neither the bar nor the poll timeout waits for the server.
Unannounced ==
  /\ \/ \E x \in Window : ipc_handle_message(x)
     \/ \E due \in SUBSET (Key \cap HoldAction) : hold_timeout(due)
  /\ UNCHANGED <<screen, server, phase>>

Dimensions ==
  /\ phase # "announcing" /\ phase' = "rendering"
  /\ \E x \in Window, s \in Size, reply \in {"match", "late", "mismatch"} :
       window_handle_dimensions(x, s, reply)
  /\ UNCHANGED <<screen, server>>

manage_start(due) ==
  /\ phase # "rendering" /\ phase' = "rendering"
  /\ LET D == wm.closed
         s == [Forget(screen, D) EXCEPT
                 !.outputs = Drop(@, screen.removed),
                 !.removed = {}, !.box = [o \in Output |-> IF o \in screen.removed THEN 0 ELSE @[o]]]
         w == Settled(wm, due)
         moved == OutputsOf(s) # s.last_outputs
         sig == compute_layout_signature(w)
         laid == moved \/ sig # last_layout_sig
         enter == IF laid THEN Entering(s, w) ELSE {}
         leave == IF laid THEN Leaving(s, w) ELSE {}
     IN  /\ wm_handle_manage_start(due, moved)
         /\ screen' = [s EXCEPT !.applied_fullscreen = (@ \cup enter) \ leave,
                                !.last_outputs = OutputsOf(s),
                                !.fresh_sig = <<sig, OutputsOf(s)>>]
         /\ server' = [Closed(server, D) EXCEPT
                         !.proposed = IF laid THEN @ \cup enter \cup Proposed(w) ELSE @,
                         !.fullscreen = [x \in Window |->
                            IF x \in enter THEN window_fullscreen_output(s, x)
                            ELSE IF x \in leave THEN NULL ELSE @[x]],
                         !.place = [x \in Window |-> IF x \in leave THEN <<>> ELSE @[x]]]

\* The signature is the one the manage sequence left, or is taken anew; the
\* windows are read as they are now.
wm_handle_render_start ==
  /\ phase = "rendering" /\ phase' = "idle"
  /\ UNCHANGED vars
  /\ LET sig == IF screen.fresh_sig # <<>> THEN screen.fresh_sig
                ELSE <<compute_layout_signature(wm), OutputsOf(screen)>>
         drawn == {x \in Live(wm) : IsDrawn(wm, x)}
         there == Range(screen.outputs) \ screen.removed
         presented == [server EXCEPT !.presentation = [o \in Output |->
                         IF o \notin there THEN @[o]
                         ELSE IF fullscreen_window_for_output(screen, wm, o) \in Async
                              THEN "async" ELSE "vsync"]]
     IN  IF sig = screen.last_render_sig
         THEN /\ screen' = [screen EXCEPT !.fresh_sig = <<>>]
              /\ server' = presented
         ELSE /\ screen' = [screen EXCEPT !.fresh_sig = <<>>,
                                          !.last_render_sig = sig,
                                          !.applied_visible = drawn,
                                          !.last_placed_top = Placed(wm).top]
              /\ server' = [presented EXCEPT
                              !.stack = Placed(wm).stack,
                              !.hidden = (@ \ drawn) \cup (screen.applied_visible \ drawn),
                              !.place = [x \in Window |->
                                 IF x \in drawn /\ Spot(screen, wm, x) # <<>>
                                 THEN Spot(screen, wm, x) ELSE @[x]]]

Manage == \E due \in SUBSET (Key \cap HoldAction) : manage_start(due)

ScreenNext ==
  \/ \E x \in Window : NewWindow(x) \/ Fullscreen(x) \/ Parent(x) \/ OtherEvent(x)
  \/ SeatInput
  \/ OutputEvent
  \/ Unannounced
  \/ Dimensions
  \/ Manage
  \/ wm_handle_render_start

ScreenSpec == ScreenInit /\ [][ScreenNext]_svars

ScreenFairSpec == ScreenSpec /\ ServesOwedSequences

-----------------------------------------------------------------------------
(* What must hold once nothing is announced, owed or being drawn.          *)

Settling == wm.manage_dirty \/ phase # "idle"

\* Every window of the layout is shown and stands where the layout has it now,
\* and every other has been hidden, although a drawing is skipped whenever its
\* signature is that of the last one.  (Floating windows keep their place when
\* they change size.)
LayoutIsShown ==
  ~Settling => \A x \in Live(wm) :
    /\ x \in screen.applied_visible <=> IsDrawn(wm, x)
    /\ IsDrawn(wm, x) => x \notin server.hidden
    /\ IsDrawn(wm, x) /\ x \notin wm.floating \cup wm.fullscreen =>
         server.place[x] = Spot(screen, wm, x)

\* What is drawn is stacked as the layout says: the target above the other
\* cards, dialogs above the target, floating windows above all.
StackMatches ==
  ~Settling =>
    SelectSeq(server.stack, LAMBDA x : x \in screen.applied_visible)
      = SelectSeq(FoldLeft(Raised, <<>>, PlacingOrder(wm)), LAMBDA x : IsDrawn(wm, x))

\* The server has fullscreen exactly the roots that are to be, once there is an
\* output to show them on.
FullscreenMatches ==
  ~Settling /\ active_output(screen) # NULL => \A x \in Roots(wm) :
    server.fullscreen[x] # NULL <=> x \in wm.fullscreen \ wm.minimized

\* An output runs without vsync only under a fullscreen window of its own.
AsyncOnlyUnderFullscreen ==
  ~Settling => \A o \in Range(screen.outputs) :
    server.presentation[o] = "async" => \E x \in Async : server.fullscreen[x] = o

\* Newly created windows are shown unless explicitly hidden
\* (river-window-management-v1.xml): none is displayed that the layout hides.
HiddenIsHidden ==
  ~Settling => \A x \in Live(wm) :
    x \in server.proposed \ server.hidden => IsDrawn(wm, x)

\* Floating windows are centred.
FloatsCentred ==
  ~Settling => \A x \in Live(wm) \cap wm.floating :
    IsDrawn(wm, x) /\ Spot(screen, wm, x) # <<>> => server.place[x] = Spot(screen, wm, x)

\* A window is fullscreen on an output that exists.
FullscreenOnLiveOutput ==
  \A x \in Window : server.fullscreen[x] \in Range(screen.outputs) \cup {NULL}

=============================================================================
