------------------------- MODULE BarGameModeProofs -------------------------
(***************************************************************************)
(* The bar is back after a game if no datagram is lost, and its frame is   *)
(* up to date whatever happens, for any windows, children and queue.       *)
(*                                                                         *)
(* The two sources never agree on what they have said: what counts is that *)
(* the last word of maindeck-wm, read or under way, is "on" only while a   *)
(* window is fullscreen, and that a bar that stays away without that word  *)
(* does so for a handle that says so.                                      *)
(***************************************************************************)
EXTENDS BarGameMode, SequenceTheorems, TLAPS

\* The last word about fullscreen in a queue is "on"; if there is none it is the
\* one before, which was "on" or not.
OnIsLast(queue, before) ==
  \E n \in 0..Len(queue) :
    /\ IF n = 0 THEN before ELSE queue[n] = "fullscreen_on"
    /\ \A m \in (n + 1)..Len(queue) : queue[m] = "windows"

\* The surface is there unless the bar is suppressed, and a frame on it is current.
Consistent(b) ==
  /\ b.surface = ~b.render_suppressed
  /\ b.configured => b.surface /\ b.shown

\* It is suppressed by maindeck-wm or by a handle.
HasReason(b) == b.render_suppressed => b.wm_fullscreen \/ AnyActiveFullscreen(b)

BarInv(b) == b \in BarState /\ Consistent(b) /\ HasReason(b)

IInv == TypeOK /\ notify \in Seq(Datagram) /\ BarInv(bar)

\* The last word of maindeck-wm is "on" only while a window is fullscreen.
WordInv == OnIsLast(notify, bar.wm_fullscreen) => fullscreen # {}

-----------------------------------------------------------------------------
(* The handlers of the bar.                                                *)

\* What a handler leaves to the end of the turn: drawing will make it current.
Pending(b) ==
  /\ b \in BarState
  /\ b.surface = ~b.render_suppressed
  /\ b.configured => b.surface /\ (b.shown \/ b.dirty)

LEMMA DrawnInv ==
  ASSUME NEW b, Pending(b), HasReason(b)
  PROVE  BarInv(Drawn(b)) /\ Drawn(b).wm_fullscreen = b.wm_fullscreen
<1>1. Drawn(b) \in BarState /\ Consistent(Drawn(b)) /\ Drawn(b).wm_fullscreen = b.wm_fullscreen
  BY DEF Drawn, Pending, Consistent, BarState
<1>2. /\ Drawn(b).render_suppressed = b.render_suppressed
      /\ Drawn(b).toplevels = b.toplevels
  BY DEF Drawn, Pending, BarState
<1> QED BY <1>1, <1>2 DEF BarInv, HasReason, AnyActiveFullscreen

LEMMA RedrawPending ==
  ASSUME NEW b \in BarState, Pending(b)
  PROVE  LET r == bar_request_redraw(b)
         IN  /\ Pending(r) /\ r.toplevels = b.toplevels
             /\ r.wm_fullscreen = b.wm_fullscreen /\ r.render_suppressed = b.render_suppressed
BY DEF bar_request_redraw, Pending, BarState

LEMMA SetPending ==
  ASSUME NEW b \in BarState, NEW on \in BOOLEAN, Pending(b), b.render_suppressed # on
  PROVE  LET s == SetSuppressed(b, on)
         IN  /\ Pending(s) /\ s.toplevels = b.toplevels
             /\ s.wm_fullscreen = b.wm_fullscreen /\ s.render_suppressed = on
<1>1. CASE on
  BY <1>1 DEF SetSuppressed, bar_surface_destroy, bar_surface_restore, Pending, BarState
<1>2. CASE ~on
  BY <1>2 DEF SetSuppressed, bar_surface_destroy, bar_surface_restore, Pending, BarState
<1> QED BY <1>1, <1>2

LEMMA UpdateInv ==
  ASSUME NEW b \in BarState, Pending(b)
  PROVE  LET u == bar_update_render_suppressed(b)
         IN  Pending(u) /\ HasReason(u) /\ u.wm_fullscreen = b.wm_fullscreen
<1> DEFINE on == AnyActiveFullscreen(b)
           u == bar_update_render_suppressed(b)
<1>1. on \in BOOLEAN
  BY DEF AnyActiveFullscreen
<1>2. CASE ~b.wm_fullscreen /\ on # b.render_suppressed
  <2>1. u = SetSuppressed(b, on)
    BY <1>2 DEF bar_update_render_suppressed
  <2> HIDE DEF u
  <2>2. /\ Pending(u) /\ u.toplevels = b.toplevels
        /\ u.wm_fullscreen = b.wm_fullscreen /\ u.render_suppressed = on
    BY <1>1, <1>2, <2>1, SetPending
  <2> QED BY <2>2 DEF HasReason, AnyActiveFullscreen, u
<1>3. CASE ~(~b.wm_fullscreen /\ on # b.render_suppressed)
  <2>1. u = b
    BY <1>3 DEF bar_update_render_suppressed
  <2> QED BY <1>3, <2>1 DEF HasReason, BarState
<1> QED BY <1>2, <1>3

LEMMA NotifyInv ==
  ASSUME NEW b, BarInv(b), NEW m \in Datagram
  PROVE  LET r == OnNotify(b, m)
         IN  /\ Pending(r) /\ HasReason(r)
             /\ r.wm_fullscreen = IF m = "windows" THEN b.wm_fullscreen ELSE m = "fullscreen_on"
<1> DEFINE on == m = "fullscreen_on"
           told == [b EXCEPT !.wm_fullscreen = on]
           r == OnNotify(b, m)
<1>1. b \in BarState /\ Pending(b) /\ HasReason(b)
  BY DEF BarInv, Consistent, Pending
<1>2. CASE m = "windows"
  BY <1>1, <1>2 DEF OnNotify
<1>3. CASE m # "windows"
  <2>1. /\ told \in BarState /\ Pending(told) /\ told.wm_fullscreen = on
        /\ told.render_suppressed = b.render_suppressed
    BY <1>1 DEF Pending, BarState
  <2>2. r = IF told.render_suppressed # on THEN SetSuppressed(told, on) ELSE told
    BY <1>3 DEF OnNotify
  <2> HIDE DEF told, r
  <2>3. Pending(r) /\ r.wm_fullscreen = on /\ r.render_suppressed = on
    BY <2>1, <2>2, SetPending DEF BarState
  <2> QED BY <1>3, <2>3 DEF HasReason, r
<1> QED BY <1>2, <1>3

\* A turn that follows a change of the handles.
LEMMA HandlesTurn ==
  ASSUME NEW b, BarInv(b), NEW t \in UNION {[S -> Handle] : S \in SUBSET Window}
  PROVE  LET r == Drawn(bar_update_render_suppressed(bar_request_redraw(
                    [b EXCEPT !.toplevels = t])))
         IN  BarInv(r) /\ r.wm_fullscreen = b.wm_fullscreen
<1> DEFINE c == [b EXCEPT !.toplevels = t]
           q == bar_request_redraw(c)
           u == bar_update_render_suppressed(q)
<1>1. c \in BarState /\ Pending(c) /\ c.wm_fullscreen = b.wm_fullscreen
  BY DEF BarInv, Consistent, Pending, BarState
<1> HIDE DEF c
<1>2. q \in BarState /\ Pending(q) /\ q.wm_fullscreen = b.wm_fullscreen
  BY <1>1, RedrawPending DEF Pending
<1> HIDE DEF q
<1>3. Pending(u) /\ HasReason(u) /\ u.wm_fullscreen = b.wm_fullscreen
  BY <1>2, UpdateInv
<1> HIDE DEF u
<1>4. BarInv(Drawn(u)) /\ Drawn(u).wm_fullscreen = b.wm_fullscreen
  BY <1>3, DrawnInv
<1> QED BY <1>4 DEF u, q, c

LEMMA StateTurn ==
  ASSUME IInv, NEW x \in Window, tl_state(x) \/ tl_closed(x)
  PROVE  BarInv(bar') /\ bar'.wm_fullscreen = bar.wm_fullscreen
<1>1. bar.toplevels \in UNION {[S -> Handle] : S \in SUBSET Window} /\ BarInv(bar)
  BY DEF IInv, BarInv, BarState
<1>2. PICK S \in SUBSET Window : bar.toplevels \in [S -> Handle]
  BY <1>1
<1>3. Known = S
  BY <1>2 DEF Known
<1>4. CASE tl_state(x)
  <2> DEFINE t == [y \in S \cup {x} |-> IF y = x THEN StateOf(x) ELSE bar.toplevels[y]]
  <2>1. StateOf(x) \in Handle
    BY DEF StateOf, Handle
  <2>2. t \in [S \cup {x} -> Handle] /\ S \cup {x} \in SUBSET Window
    BY <1>2, <2>1
  <2>3. bar' = Drawn(bar_update_render_suppressed(bar_request_redraw([bar EXCEPT !.toplevels = t])))
    BY <1>3, <1>4 DEF tl_state, Turn
  <2> HIDE DEF t
  <2>4. t \in UNION {[R -> Handle] : R \in SUBSET Window}
    BY <2>2
  <2> QED BY <1>1, <2>3, <2>4, HandlesTurn
<1>5. CASE tl_closed(x)
  <2> DEFINE t == [y \in S \ {x} |-> bar.toplevels[y]]
  <2>2. t \in [S \ {x} -> Handle] /\ S \ {x} \in SUBSET Window
    BY <1>2
  <2>3. bar' = Drawn(bar_update_render_suppressed(bar_request_redraw([bar EXCEPT !.toplevels = t])))
    BY <1>3, <1>5 DEF tl_closed, Turn
  <2> HIDE DEF t
  <2>4. t \in UNION {[R -> Handle] : R \in SUBSET Window}
    BY <2>2
  <2> QED BY <1>1, <2>3, <2>4, HandlesTurn
<1> QED BY <1>4, <1>5

LEMMA ConfiguredInv ==
  ASSUME NEW b \in BarState, HasReason(b), b.surface, ~b.render_suppressed, b.shown \/ b.dirty,
         NEW r, r = Drawn([b EXCEPT !.configured = TRUE])
  PROVE  BarInv(r) /\ r.wm_fullscreen = b.wm_fullscreen
<1> DEFINE c == [b EXCEPT !.configured = TRUE]
<1>1. c \in BarState /\ c.toplevels = b.toplevels /\ c.wm_fullscreen = b.wm_fullscreen
      /\ c.surface /\ ~c.render_suppressed /\ c.shown = b.shown /\ c.dirty = b.dirty
  BY DEF BarState
<1> HIDE DEF c
<1>2. Pending(c) /\ HasReason(c)
  BY <1>1 DEF Pending, HasReason
<1> QED BY <1>1, <1>2, DrawnInv DEF c

LEMMA ConfigureTurn ==
  ASSUME IInv, layer_surface_configure(TRUE) \/ layer_surface_configure(FALSE) \/ bar_status_tick
  PROVE  BarInv(bar') /\ bar'.wm_fullscreen = bar.wm_fullscreen
<1>1. BarInv(bar) /\ bar \in BarState /\ Pending(bar) /\ HasReason(bar)
  BY DEF IInv, BarInv, Consistent, Pending
<1> DEFINE q == bar_request_redraw(bar)
<1>2. q \in BarState /\ Pending(q) /\ HasReason(q) /\ q.wm_fullscreen = bar.wm_fullscreen
      /\ q.render_suppressed = bar.render_suppressed
  BY <1>1, RedrawPending DEF HasReason, AnyActiveFullscreen, Pending
<1>3. q.surface = bar.surface /\ q.dirty = ~bar.render_suppressed
  BY <1>1 DEF bar_request_redraw, BarState
<1> HIDE DEF q
<1>4. CASE bar_status_tick
  BY <1>2, <1>4, DrawnInv DEF bar_status_tick, Turn, q
<1>5. ASSUME layer_surface_configure(TRUE) \/ layer_surface_configure(FALSE)
      PROVE  BarInv(bar') /\ bar'.wm_fullscreen = bar.wm_fullscreen
  <2>1. /\ bar.surface
        /\ \/ bar' = Drawn([q EXCEPT !.configured = TRUE])
           \/ bar.configured /\ bar' = Drawn([bar EXCEPT !.configured = TRUE])
    BY <1>5 DEF layer_surface_configure, Turn, q
  <2>2. CASE bar' = Drawn([q EXCEPT !.configured = TRUE])
    <3>1. q.surface /\ ~q.render_suppressed /\ q.dirty
      BY <1>1, <1>2, <1>3, <2>1 DEF Pending
    <3> QED BY <1>2, <2>2, <3>1, ConfiguredInv
  <2>3. CASE bar.configured /\ bar' = Drawn([bar EXCEPT !.configured = TRUE])
    <3>1. ~bar.render_suppressed /\ (bar.shown \/ bar.dirty)
      BY <1>1, <2>1, <2>3 DEF Pending
    <3> QED BY <1>1, <2>1, <2>3, <3>1, ConfiguredInv
  <2> QED BY <2>1, <2>2, <2>3
<1> QED BY <1>4, <1>5

LEMMA NotifyTurn ==
  ASSUME IInv, notify_readable
  PROVE  /\ BarInv(bar')
         /\ bar'.wm_fullscreen = IF notify[1] = "windows" THEN bar.wm_fullscreen
                                 ELSE notify[1] = "fullscreen_on"
<1> DEFINE r == OnNotify(bar, Head(notify))
<1>1. notify \in Seq(Datagram) /\ notify # <<>> /\ BarInv(bar)
  BY DEF notify_readable, IInv
<1>2. Head(notify) \in Datagram /\ Head(notify) = notify[1]
  BY <1>1, HeadTailProperties
<1>3. Pending(r) /\ HasReason(r)
      /\ r.wm_fullscreen = IF notify[1] = "windows" THEN bar.wm_fullscreen
                           ELSE notify[1] = "fullscreen_on"
  BY <1>1, <1>2, NotifyInv
<1> HIDE DEF r
<1> QED BY <1>3, DrawnInv DEF notify_readable, Turn, r

LEMMA FreshInv == BarInv(Fresh)
<1>1. Fresh.toplevels \in UNION {[S -> Handle] : S \in SUBSET Window}
  <2>1. <<>> \in [{} -> Handle]
    OBVIOUS
  <2>2. {} \in SUBSET Window /\ Fresh.toplevels = <<>>
    BY DEF Fresh
  <2> QED BY <2>1, <2>2
<1> QED BY <1>1 DEF Fresh, BarInv, BarState, Consistent, HasReason

-----------------------------------------------------------------------------
(* The queue.                                                              *)

LEMMA NotifyType ==
  ASSUME NEW queue \in Seq(Datagram), NEW m \in Datagram
  PROVE  /\ wm_notify_bar_send(queue, m) \in Seq(Datagram)
         /\ Len(queue) <= MaxQueue => Len(wm_notify_bar_send(queue, m)) <= MaxQueue
BY LenProperties, AppendProperties, GameModeAssumption DEF wm_notify_bar_send, GameModeAssumption

LEMMA SayOff ==
  ASSUME NEW queue \in Seq(Datagram), NEW before
  PROVE  ~OnIsLast(Append(queue, "fullscreen_off"), before)
<1> DEFINE l == Append(queue, "fullscreen_off")
<1>1. Len(l) = Len(queue) + 1 /\ l[Len(queue) + 1] = "fullscreen_off" /\ Len(queue) \in Nat
  BY AppendProperties, LenProperties DEF Datagram
<1> HIDE DEF l
<1> SUFFICES ASSUME NEW n \in 0..Len(l),
                    IF n = 0 THEN before ELSE l[n] = "fullscreen_on",
                    \A m \in (n + 1)..Len(l) : l[m] = "windows"
             PROVE  FALSE
  BY DEF OnIsLast, l
<1>2. CASE n = Len(queue) + 1
  BY <1>1, <1>2
<1>3. CASE n # Len(queue) + 1
  BY <1>1, <1>3
<1> QED BY <1>2, <1>3

LEMMA SayWindows ==
  ASSUME NEW queue \in Seq(Datagram), NEW before, OnIsLast(Append(queue, "windows"), before)
  PROVE  OnIsLast(queue, before)
<1> DEFINE l == Append(queue, "windows")
<1>1. /\ Len(l) = Len(queue) + 1 /\ l[Len(queue) + 1] = "windows" /\ Len(queue) \in Nat
      /\ \A i \in 1..Len(queue) : l[i] = queue[i]
  BY AppendProperties, LenProperties DEF Datagram
<1>2. PICK n \in 0..Len(l) : /\ IF n = 0 THEN before ELSE l[n] = "fullscreen_on"
                             /\ \A m \in (n + 1)..Len(l) : l[m] = "windows"
  BY DEF OnIsLast
<1> HIDE DEF l
<1>3. n \in 0..Len(queue)
  BY <1>1, <1>2
<1>4. \A m \in (n + 1)..Len(queue) : queue[m] = "windows"
  BY <1>1, <1>2, <1>3
<1>5. IF n = 0 THEN before ELSE queue[n] = "fullscreen_on"
  BY <1>1, <1>2, <1>3
<1> QED BY <1>3, <1>4, <1>5 DEF OnIsLast

LEMMA ReadWord ==
  ASSUME NEW queue \in Seq(Datagram), queue # <<>>, NEW before,
         OnIsLast(Tail(queue), IF queue[1] = "windows" THEN before ELSE queue[1] = "fullscreen_on")
  PROVE  OnIsLast(queue, before)
<1> DEFINE l == Tail(queue)
           w == IF queue[1] = "windows" THEN before ELSE queue[1] = "fullscreen_on"
<1>1. /\ Len(l) = Len(queue) - 1 /\ Len(queue) \in Nat /\ Len(queue) # 0
      /\ \A i \in 1..Len(l) : l[i] = queue[i + 1]
  BY EmptySeq, LenProperties, HeadTailProperties
<1>2. PICK n \in 0..Len(l) : /\ IF n = 0 THEN w ELSE l[n] = "fullscreen_on"
                             /\ \A m \in (n + 1)..Len(l) : l[m] = "windows"
  BY DEF OnIsLast
<1> HIDE DEF l
<1>3. \A m \in (n + 2)..Len(queue) : queue[m] = "windows"
  <2>1. TAKE m \in (n + 2)..Len(queue)
  <2>2. m - 1 \in (n + 1)..Len(l) /\ m - 1 \in 1..Len(l) /\ (m - 1) + 1 = m
    BY <1>1, <1>2
  <2> QED BY <1>1, <1>2, <2>2
<1>4. CASE n = 0 /\ queue[1] = "windows"
  <2>1. \A m \in 1..Len(queue) : m = 1 \/ m \in 2..Len(queue)
    BY <1>1
  <2>2. \A m \in (0 + 1)..Len(queue) : queue[m] = "windows"
    BY <1>3, <1>4, <2>1
  <2> QED BY <1>1, <1>2, <1>4, <2>2 DEF OnIsLast
<1>5. CASE ~(n = 0 /\ queue[1] = "windows")
  <2>1. n + 1 \in 0..Len(queue) /\ n + 1 # 0 /\ (n + 1) + 1 = n + 2
    BY <1>1, <1>2
  <2>2. queue[n + 1] = "fullscreen_on"
    BY <1>1, <1>2, <1>5
  <2> QED BY <1>3, <2>1, <2>2 DEF OnIsLast
<1> QED BY <1>4, <1>5

-----------------------------------------------------------------------------
(* Types, and the bar's part of the invariant.                             *)

LEMMA InitInv == Init => IInv /\ WordInv
<1> SUFFICES ASSUME Init PROVE IInv /\ WordInv
  OBVIOUS
<1>1. notify = <<>> /\ notify \in Seq(Datagram) /\ Len(notify) = 0 /\ DOMAIN notify = {}
  BY EmptySeq DEF Init
<1>2. BarInv(bar)
  BY FreshInv DEF Init
<1>3. TypeOK
  BY <1>1, <1>2, GameModeAssumption DEF Init, TypeOK, BarInv, GameModeAssumption
<1>4. ~OnIsLast(notify, bar.wm_fullscreen)
  BY <1>1 DEF Init, Fresh, OnIsLast
<1> QED BY <1>1, <1>2, <1>3, <1>4 DEF IInv, WordInv

\* What maindeck-wm knows, and what it says.
WmTypes ==
  /\ mapped \subseteq windows /\ windows \subseteq Window
  /\ fullscreen \subseteq windows /\ minimized \subseteq windows
  /\ applied \subseteq mapped
  /\ active \in mapped \cup {NULL}

LEMMA WmStep ==
  ASSUME IInv, WM \/ ManageSequence
  PROVE  WmTypes' /\ notify' \in Seq(Datagram) /\ Len(notify') <= MaxQueue /\ bar' = bar
<1>1. notify \in Seq(Datagram) /\ Len(notify) <= MaxQueue /\ WmTypes
  BY DEF IInv, TypeOK, WmTypes
<1> DEFINE Said(m) == wm_notify_bar_send(notify, m)
<1>2. \A m \in Datagram : Said(m) \in Seq(Datagram) /\ Len(Said(m)) <= MaxQueue
  BY <1>1, NotifyType
<1> HIDE DEF Said
<1>3. {"fullscreen_on", "fullscreen_off", "windows"} \subseteq Datagram
  BY DEF Datagram
<1>4. ASSUME NEW x \in Window, wm_handle_window(x)
      PROVE  WmTypes' /\ notify' = notify /\ bar' = bar
  BY <1>1, <1>4 DEF wm_handle_window, WmTypes
<1>5. ASSUME NEW x \in Window, window_handle_closed(x)
      PROVE  WmTypes' /\ notify' \in {notify, Said("fullscreen_off")} /\ bar' = bar
  BY <1>1, <1>5 DEF window_handle_closed, WmTypes, Tell, Said
<1>6. ASSUME NEW x \in Window,
             \/ window_handle_fullscreen_requested(x) \/ window_handle_exit_fullscreen_requested(x)
             \/ window_handle_minimize_requested(x)
      PROVE  /\ WmTypes' /\ bar' = bar
             /\ notify' \in {notify, Said("fullscreen_on"), Said("fullscreen_off")}
  BY <1>1, <1>6 DEF window_handle_fullscreen_requested, window_handle_exit_fullscreen_requested,
     window_handle_minimize_requested, WmTypes, Tell, Said
<1>7. ASSUME NEW restored \in Window \cup {NULL}, NEW focus \in Window \cup {NULL},
             wm_handle_manage_start(restored, focus)
      PROVE  WmTypes' /\ notify' \in Seq(Datagram) /\ Len(notify') <= MaxQueue /\ bar' = bar
  <2>1. WmTypes' /\ bar' = bar
    BY <1>1, <1>7 DEF wm_handle_manage_start, WmTypes
  <2>2. PICK told \in {notify, Said("fullscreen_off")} : notify' = wm_notify_bar_send(told, "windows")
    BY <1>7 DEF wm_handle_manage_start, Said
  <2> QED BY <1>1, <1>2, <1>3, <2>1, <2>2, NotifyType
<1> QED BY <1>1, <1>2, <1>3, <1>4, <1>5, <1>6, <1>7 DEF WM, ManageSequence

LEMMA BarStep ==
  ASSUME IInv, Bar
  PROVE  /\ UNCHANGED wm /\ BarInv(bar')
         /\ \/ notify' = notify /\ bar'.wm_fullscreen = bar.wm_fullscreen
            \/ notify' = <<>> /\ ~bar'.wm_fullscreen
            \/ /\ notify # <<>> /\ notify' = Tail(notify)
               /\ bar'.wm_fullscreen = IF notify[1] = "windows" THEN bar.wm_fullscreen
                                       ELSE notify[1] = "fullscreen_on"
<1>1. ASSUME NEW x \in Window, tl_state(x) \/ tl_closed(x)
      PROVE  UNCHANGED <<wm, notify>> /\ BarInv(bar') /\ bar'.wm_fullscreen = bar.wm_fullscreen
  BY <1>1, StateTurn DEF tl_state, tl_closed
<1>2. CASE layer_surface_configure(TRUE) \/ layer_surface_configure(FALSE) \/ bar_status_tick
  BY <1>2, ConfigureTurn DEF layer_surface_configure, bar_status_tick
<1>3. CASE notify_readable
  BY <1>3, NotifyTurn DEF notify_readable
<1>4. CASE restart
  <2>1. Fresh.wm_fullscreen = FALSE
    BY DEF Fresh
  <2> QED BY <1>4, <2>1, FreshInv DEF restart
<1> QED BY <1>1, <1>2, <1>3, <1>4 DEF Bar

LEMMA Inductive == IInv /\ [Next]_vars => IInv'
<1> SUFFICES ASSUME IInv, [Next]_vars PROVE IInv'
  OBVIOUS
<1>1. notify \in Seq(Datagram) /\ Len(notify) <= MaxQueue /\ WmTypes /\ BarInv(bar)
  BY DEF IInv, TypeOK, WmTypes
<1>2. ASSUME notify' \in Seq(Datagram), Len(notify') <= MaxQueue, WmTypes', BarInv(bar)'
      PROVE  IInv'
  <2>1. DOMAIN notify' = 1..Len(notify') /\ \A n \in 1..Len(notify') : notify'[n] \in Datagram
    BY <1>2, LenProperties, ElementOfSeq
  <2> QED BY <1>2, <2>1 DEF IInv, TypeOK, WmTypes, BarInv
<1>3. CASE WM \/ ManageSequence
  BY <1>1, <1>2, <1>3, WmStep
<1>4. CASE Bar
  <2>1. WmTypes' /\ BarInv(bar)'
    BY <1>1, <1>4, BarStep DEF wm, WmTypes
  <2>2. ASSUME notify # <<>>
        PROVE  Tail(notify) \in Seq(Datagram) /\ Len(Tail(notify)) <= MaxQueue
    <3>1. Tail(notify) \in Seq(Datagram) /\ Len(Tail(notify)) = Len(notify) - 1
          /\ Len(notify) \in Nat
      BY <1>1, <2>2, HeadTailProperties, LenProperties
    <3> QED BY <1>1, <3>1, GameModeAssumption DEF GameModeAssumption
  <2>3. <<>> \in Seq(Datagram) /\ Len(<<>>) <= MaxQueue
    BY EmptySeq, GameModeAssumption DEF GameModeAssumption
  <2>4. notify' \in Seq(Datagram) /\ Len(notify') <= MaxQueue
    BY <1>1, <1>4, <2>2, <2>3, BarStep
  <2> QED BY <1>2, <2>1, <2>4
<1>5. CASE UNCHANGED vars
  BY <1>5 DEF vars, wm, IInv, TypeOK, BarInv, HasReason, AnyActiveFullscreen
<1> QED BY <1>3, <1>4, <1>5 DEF Next

LEMMA Invariance == Spec => []IInv
<1>1. Init => IInv
  BY InitInv
<1> QED BY <1>1, Inductive, PTL DEF Spec

-----------------------------------------------------------------------------
(* Words are kept as long as no datagram is lost.                          *)

LEMMA WordStep ==
  ASSUME ~Lossy, IInv, WordInv, [Next]_vars
  PROVE  WordInv'
<1>1. notify \in Seq(Datagram) /\ Len(notify) \in Nat /\ MaxQueue \in Nat /\ bar \in BarState
  BY GameModeAssumption, LenProperties DEF IInv, BarInv, GameModeAssumption
<1> DEFINE Off == Append(notify, "fullscreen_off")
<1>2. ASSUME NEW m, Tell(m) PROVE notify' = Append(notify, m)
  BY <1>1, <1>2 DEF Tell, HasRoomFor, wm_notify_bar_send
<1>3. Off \in Seq(Datagram) /\ Len(Off) = Len(notify) + 1
  BY <1>1, AppendProperties DEF Datagram
<1>4. ASSUME notify' = Off, bar' = bar PROVE WordInv'
  BY <1>1, <1>4, SayOff DEF WordInv
<1>5. ASSUME notify' = notify, fullscreen \subseteq fullscreen', bar' = bar PROVE WordInv'
  BY <1>5 DEF WordInv
<1> HIDE DEF Off
<1>6. ASSUME NEW x \in Window, wm_handle_window(x) PROVE WordInv'
  BY <1>5, <1>6 DEF wm_handle_window
<1>7. ASSUME NEW x \in Window, window_handle_closed(x) PROVE WordInv'
  <2>1. CASE x \in Child /\ x \in fullscreen
    BY <1>2, <1>4, <1>7, <2>1 DEF window_handle_closed, Off
  <2>2. CASE ~(x \in Child /\ x \in fullscreen)
    BY <1>5, <1>7, <2>2 DEF window_handle_closed
  <2> QED BY <2>1, <2>2
<1>8. ASSUME NEW x \in Window, window_handle_fullscreen_requested(x) PROVE WordInv'
  BY <1>8 DEF window_handle_fullscreen_requested, WordInv
<1>9. ASSUME NEW x \in Window, window_handle_exit_fullscreen_requested(x) PROVE WordInv'
  BY <1>2, <1>4, <1>9 DEF window_handle_exit_fullscreen_requested, Off
<1>10. ASSUME NEW x \in Window, window_handle_minimize_requested(x) PROVE WordInv'
  <2>1. CASE x \in fullscreen
    BY <1>2, <1>4, <1>10, <2>1 DEF window_handle_minimize_requested, Off
  <2>2. CASE x \notin fullscreen
    BY <1>5, <1>10, <2>2 DEF window_handle_minimize_requested
  <2> QED BY <2>1, <2>2
<1>11. ASSUME NEW restored \in Window \cup {NULL}, NEW focus \in Window \cup {NULL},
              wm_handle_manage_start(restored, focus)
       PROVE  WordInv'
  <2>1. bar' = bar /\ fullscreen' = fullscreen \ (windows \ mapped)
    BY <1>11 DEF wm_handle_manage_start
  <2>2. CASE (windows \ mapped) \cap fullscreen = {}
    <3>1. notify' = Append(notify, "windows")
      BY <1>1, <1>11, <2>2 DEF wm_handle_manage_start, HasRoomFor, wm_notify_bar_send
    <3> QED BY <1>1, <2>1, <2>2, <3>1, SayWindows DEF WordInv
  <2>3. CASE (windows \ mapped) \cap fullscreen # {}
    <3>1. notify' = Append(Off, "windows")
      <4>1. Len(notify) + 2 <= MaxQueue
            /\ notify' = wm_notify_bar_send(wm_notify_bar_send(notify, "fullscreen_off"), "windows")
        BY <1>11, <2>3 DEF wm_handle_manage_start, HasRoomFor
      <4>2. wm_notify_bar_send(notify, "fullscreen_off") = Off
        BY <1>1, <4>1 DEF wm_notify_bar_send, Off
      <4>3. wm_notify_bar_send(Off, "windows") = Append(Off, "windows")
        BY <1>1, <1>3, <4>1 DEF wm_notify_bar_send
      <4> QED BY <4>1, <4>2, <4>3
    <3>2. ~OnIsLast(Off, bar.wm_fullscreen)
      BY <1>1, SayOff DEF Off
    <3> QED BY <1>3, <2>1, <3>1, <3>2, SayWindows DEF WordInv
  <2> QED BY <2>2, <2>3
<1>12. CASE Bar
  <2>1. fullscreen' = fullscreen
    BY <1>12, BarStep DEF wm
  <2>2. CASE notify' = notify /\ bar'.wm_fullscreen = bar.wm_fullscreen
    BY <2>1, <2>2 DEF WordInv
  <2>3. CASE notify' = <<>> /\ ~bar'.wm_fullscreen
    <3>1. Len(notify') = 0
      BY <2>3, EmptySeq
    <3> QED BY <2>3, <3>1 DEF WordInv, OnIsLast
  <2>4. CASE /\ notify # <<>> /\ notify' = Tail(notify)
             /\ bar'.wm_fullscreen = IF notify[1] = "windows" THEN bar.wm_fullscreen
                                     ELSE notify[1] = "fullscreen_on"
    BY <1>1, <2>1, <2>4, ReadWord DEF WordInv
  <2> QED BY <1>12, <2>2, <2>3, <2>4, BarStep
<1>13. CASE UNCHANGED vars
  BY <1>5, <1>13 DEF vars, wm
<1> QED BY <1>6, <1>7, <1>8, <1>9, <1>10, <1>11, <1>12, <1>13 DEF Next, WM, ManageSequence

LEMMA WordsKept == ~Lossy /\ Spec => []WordInv
<1> SUFFICES ASSUME ~Lossy PROVE Spec => []WordInv
  OBVIOUS
<1>1. IInv /\ WordInv /\ [Next]_vars => WordInv'
  BY WordStep
<1>2. Init => WordInv
  BY InitInv
<1> QED BY <1>1, <1>2, Invariance, PTL DEF Spec

-----------------------------------------------------------------------------

\* If no datagram is lost, the bar is on screen once both sources are silent and
\* no window is fullscreen (bar_update_render_suppressed, wm_notify_bar): whatever
\* the order in which they told it, and however often it was started again.
THEOREM BarReturnsAfterGame == ~Lossy => (Spec => []BarBackAfterGame)
<1> SUFFICES ASSUME ~Lossy PROVE Spec => []BarBackAfterGame
  OBVIOUS
<1>1. ASSUME IInv, WordInv PROVE BarBackAfterGame
  <2> SUFFICES ASSUME Settled, fullscreen = {} PROVE bar.surface
    BY DEF BarBackAfterGame
  <2>1. notify = <<>> /\ Len(notify) = 0 /\ applied = {}
    BY EmptySeq DEF Settled
  <2>2. ~OnIsLast(notify, bar.wm_fullscreen) /\ bar \in BarState /\ Consistent(bar) /\ HasReason(bar)
    BY <1>1 DEF WordInv, IInv, BarInv
  <2>3. ~bar.wm_fullscreen
    <3>1. bar.wm_fullscreen => OnIsLast(notify, bar.wm_fullscreen)
      BY <2>1 DEF OnIsLast
    <3> QED BY <2>2, <3>1
  <2>4. ~AnyActiveFullscreen(bar)
    <3>1. \A x \in DOMAIN bar.toplevels : bar.toplevels[x] = StateOf(x)
      BY DEF Settled, Told, Known
    <3>2. \A x : "fullscreen" \notin StateOf(x)
      BY <2>1 DEF StateOf
    <3> QED BY <3>1, <3>2 DEF AnyActiveFullscreen
  <2> QED BY <2>2, <2>3, <2>4 DEF Consistent, HasReason, BarState
<1> QED BY <1>1, Invariance, WordsKept, PTL

\* No redraw is lost while the surface is away or not configured: as soon as it is
\* configured, the frame on it is up to date at the end of the turn
\* (bar_request_redraw, bar_surface_restore), with or without loss of datagrams.
THEOREM RedrawsKept == Spec => []NoRedrawLost
<1>1. IInv => NoRedrawLost
  BY DEF IInv, BarInv, Consistent, NoRedrawLost
<1> QED BY <1>1, Invariance, PTL

=============================================================================
