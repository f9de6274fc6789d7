----------------------------- MODULE BarTaskbar -----------------------------
(***************************************************************************)
(* The entries of the taskbar (bar-taskbar.c).  The compositor announces a *)
(* window twice, as a zwlr toplevel handle, which can be shown and closed, *)
(* and as an ext handle, which has the identifier that maindeck-wm knows;  *)
(* the bar pairs the two by position.  Handles of windows that died before *)
(* they were mapped are leaked: these ghosts are reaped with the help of   *)
(* the set of live windows that maindeck-wm publishes in datagrams.        *)
(***************************************************************************)
EXTENDS WlList

CONSTANTS
  Window,              \* windows; each is opened once and is its own identifier
  Leaked,              \* windows whose handles the compositor leaks
  NULL,                \* no identifier (the empty string)
  BAR_MAX_TOPLEVELS,
  Lossy,               \* TRUE: a datagram that finds the socket full is lost, as in
                       \* the code; FALSE: it never finds it full
  MaxQueue             \* datagrams the socket of the bar holds

ASSUME TaskbarAssumption ==
  /\ NULL \notin Window /\ Leaked \subseteq Window
  /\ BAR_MAX_TOPLEVELS \in Nat \ {0} /\ MaxQueue \in Nat \ {0}
  /\ Lossy \in BOOLEAN

VARIABLES
  unborn,              \* windows not opened yet
  alive,               \* windows the compositor has, leaked ones excepted
  owed,                \* maindeck-wm has not published the windows since they changed
  notify,              \* datagrams in the socket of the bar: sets of identifiers
  stream,              \* announcements of the compositor on their way to the bar: a
                       \* window and the events that are left to dispatch
  toplevels,           \* the entries: window of the zwlr handle and identifier
  ext,                 \* the ext handles: window and identifier
  wm_set,              \* the last set received, with wm_set_valid
  since,               \* entries that were there when it was received
  old                  \* entries that are GHOST_MIN_AGE_SEC old

world == <<unborn, alive, owed>>
vars == <<world, notify, stream, toplevels, ext, wm_set, since, old>>

Entry == [window : Window, identifier : Window \cup {NULL}]

Init ==
  /\ unborn = Window /\ alive = {} /\ owed = FALSE
  /\ notify = <<>> /\ stream = <<>>
  /\ toplevels = <<>> /\ ext = <<>>
  /\ wm_set = [valid |-> FALSE, ids |-> {}]
  /\ since = {} /\ old = {}

-----------------------------------------------------------------------------
(* The compositor and the window manager.                                  *)

\* Both handles of a window are announced in one go, in either order, and so is
\* their closing.
Opening == {<<"zwlr_new", "ext_new", "ext_identifier">>, <<"ext_new", "ext_identifier", "zwlr_new">>,
            <<"ext_new", "zwlr_new", "ext_identifier">>}
Closing == {<<"zwlr_closed", "ext_closed">>, <<"ext_closed", "zwlr_closed">>}

Announce(orders, x) ==
  \E events \in orders : stream' = Append(stream, [window |-> x, events |-> events])

Open(x) ==
  /\ x \in unborn
  /\ unborn' = unborn \ {x}
  /\ alive' = IF x \in Leaked THEN alive ELSE alive \cup {x}
  /\ Announce(Opening, x)
  /\ owed' = TRUE
  /\ UNCHANGED <<notify, toplevels, ext, wm_set, since, old>>

Close(x) ==
  /\ x \in alive
  /\ alive' = alive \ {x}
  /\ Announce(Closing, x)
  /\ owed' = TRUE
  /\ UNCHANGED <<unborn, notify, toplevels, ext, wm_set, since, old>>

\* maindeck-wm has handled what the server sent it; the manage sequence that
\* follows ends by publishing the windows.
wm_notify_bar_windows ==
  /\ owed' = FALSE
  /\ IF Len(notify) < MaxQueue THEN notify' = Append(notify, alive)
     ELSE Lossy /\ UNCHANGED notify
  /\ UNCHANGED <<unborn, alive, stream, toplevels, ext, wm_set, since, old>>

-----------------------------------------------------------------------------
(* The bar.                                                                *)

Windows(handles) == {handles[i].window : i \in DOMAIN handles}
HandlesOf(x) == {h \in Entry : h.window = x}

mgr_toplevel(x) ==
  LET i == Len(toplevels) + 1
      id == IF i <= Len(ext) THEN ext[i].identifier ELSE NULL
  IN  /\ toplevels' = IF i > BAR_MAX_TOPLEVELS THEN toplevels
                      ELSE Append(toplevels, [window |-> x, identifier |-> id])
      /\ UNCHANGED <<ext, wm_set, since, old>>

ext_list_toplevel(x) ==
  /\ ext' = IF Len(ext) >= BAR_MAX_TOPLEVELS THEN ext
            ELSE Append(ext, [window |-> x, identifier |-> NULL])
  /\ UNCHANGED <<toplevels, wm_set, since, old>>

\* The entry at the same position gets the identifier.
ext_identifier(x) ==
  LET at == {i \in DOMAIN ext : ext[i].window = x}
  IN  /\ ext' = [i \in DOMAIN ext |-> IF i \in at THEN [ext[i] EXCEPT !.identifier = x]
                                      ELSE ext[i]]
      /\ toplevels' = [i \in DOMAIN toplevels |->
                         IF i \in at THEN [toplevels[i] EXCEPT !.identifier = x]
                         ELSE toplevels[i]]
      /\ UNCHANGED <<wm_set, since, old>>

tl_closed(x) ==
  /\ toplevels' = Drop(toplevels, HandlesOf(x))
  /\ since' = since \ {x}
  /\ old' = old \ {x}
  /\ UNCHANGED <<ext, wm_set>>

ext_closed(x) ==
  /\ ext' = Drop(ext, HandlesOf(x))
  /\ UNCHANGED <<toplevels, wm_set, since, old>>

\* The next Wayland event.  Events of a handle the bar has destroyed are dropped
\* by the library; the handlers do nothing for them either.
Dispatch ==
  /\ stream # <<>>
  /\ LET x == stream[1].window
         events == stream[1].events
         event == Head(events)
     IN  /\ stream' = IF Len(events) = 1 THEN Tail(stream)
                      ELSE [stream EXCEPT ![1].events = Tail(events)]
         /\ \/ event = "zwlr_new" /\ mgr_toplevel(x)
            \/ event = "ext_new" /\ ext_list_toplevel(x)
            \/ event = "ext_identifier" /\ ext_identifier(x)
            \/ event = "zwlr_closed" /\ tl_closed(x)
            \/ event = "ext_closed" /\ ext_closed(x)
  /\ UNCHANGED <<world, notify>>

\* (Slip: the ext handle of the pair is left in its array.)
bar_taskbar_prune_ghosts_HalfPair(set, received) ==
  LET Ghost(tl) == /\ set.valid /\ tl.identifier # NULL
                   /\ tl.window \in old \cap received
                   /\ tl.identifier \notin set.ids
  IN  /\ toplevels' = Drop(toplevels, {tl \in Entry : Ghost(tl)})
      /\ ext' = ext
      /\ since' = received \cap Windows(toplevels')
      /\ old' = old \cap Windows(toplevels')

\* (Slip: the age of an entry is not looked at.)
bar_taskbar_prune_ghosts_Young(set, received) ==
  LET Ghost(tl) == /\ set.valid /\ tl.identifier # NULL
                   /\ tl.window \in received
                   /\ tl.identifier \notin set.ids
      ghosts == {tl \in Range(toplevels) : Ghost(tl)}
  IN  /\ toplevels' = Drop(toplevels, ghosts)
      /\ ext' = Drop(ext, {e \in Entry : e.identifier \in {tl.identifier : tl \in ghosts}})
      /\ since' = received \cap Windows(toplevels')
      /\ old' = old \cap Windows(toplevels')

\* Entries that are old enough, were there when the last set was received and
\* are not in it go, with the ext handle of the same identifier.
bar_taskbar_prune_ghosts(set, received) ==
  LET Ghost(tl) == /\ set.valid /\ tl.identifier # NULL
                   /\ tl.window \in old \cap received
                   /\ tl.identifier \notin set.ids
      ghosts == {tl \in Range(toplevels) : Ghost(tl)}
  IN  /\ toplevels' = Drop(toplevels, ghosts)
      /\ ext' = Drop(ext, {e \in Entry : e.identifier \in {tl.identifier : tl \in ghosts}})
      /\ since' = received \cap Windows(toplevels')
      /\ old' = old \cap Windows(toplevels')

\* (Slip: only the first set is stamped with the time.)
bar_taskbar_set_wm_windows_FirstStamp ==
  /\ notify # <<>>
  /\ notify' = Tail(notify)
  /\ wm_set' = [valid |-> TRUE, ids |-> Head(notify)]
  /\ bar_taskbar_prune_ghosts(wm_set', IF wm_set.valid THEN since ELSE Windows(toplevels))
  /\ UNCHANGED <<world, stream>>

\* Of a longer set the first BAR_MAX_TOPLEVELS identifiers are kept; they come
\* in MainDeck order, which is any.
bar_taskbar_set_wm_windows ==
  /\ notify # <<>>
  /\ notify' = Tail(notify)
  /\ \E ids \in SUBSET Head(notify) :
       /\ Cardinality(ids) = BAR_MAX_TOPLEVELS \/ ids = Head(notify)
       /\ Cardinality(ids) <= BAR_MAX_TOPLEVELS
       /\ wm_set' = [valid |-> TRUE, ids |-> ids]
  /\ bar_taskbar_prune_ghosts(wm_set', Windows(toplevels))
  /\ UNCHANGED <<world, stream>>

\* poll timed out with nothing to read: the minute tick.
minute_tick ==
  /\ notify = <<>>
  /\ bar_taskbar_prune_ghosts(wm_set, since)
  /\ UNCHANGED <<world, notify, stream, wm_set>>

\* An entry comes of age.  Neither program is GHOST_MIN_AGE_SEC behind: by then
\* maindeck-wm has published what it knows, and what is still to be read is new.
Age(x) ==
  /\ x \in Windows(toplevels) \ old
  /\ stream = <<>>
  /\ ~owed
  /\ \A i \in DOMAIN notify : notify[i] = alive
  /\ old' = old \cup {x}
  /\ UNCHANGED <<world, notify, stream, toplevels, ext, wm_set, since>>

Next ==
  \/ \E x \in Window : Open(x) \/ Close(x) \/ Age(x)
  \/ wm_notify_bar_windows
  \/ Dispatch
  \/ bar_taskbar_set_wm_windows
  \/ minute_tick

Spec == Init /\ [][Next]_vars

\* Time passes, the loop of the bar serves its sockets, and manage sequences do
\* not cease for ever (any input brings one).  A step that is enabled stays so
\* until it is taken, or until clients stop opening and closing windows: weak
\* fairness is enough.  The minute tick is not needed for it.
Fairness ==
  /\ \A x \in Leaked : WF_vars(Age(x))
  /\ WF_vars(Dispatch)
  /\ WF_vars(bar_taskbar_set_wm_windows)
  /\ WF_vars(wm_notify_bar_windows)

FairSpec == Spec /\ Fairness

-----------------------------------------------------------------------------

TypeOK ==
  /\ unborn \cup alive \subseteq Window /\ owed \in BOOLEAN
  /\ Len(notify) <= MaxQueue
  /\ \A i \in DOMAIN toplevels : toplevels[i] \in Entry
  /\ \A i \in DOMAIN ext : ext[i] \in Entry
  /\ Len(toplevels) <= BAR_MAX_TOPLEVELS /\ Len(ext) <= BAR_MAX_TOPLEVELS
  /\ since \cup old \subseteq Windows(toplevels)

\* An entry that has an identifier has the one of its own window, so that a
\* click activates the window that is shown: pairing by position survives any
\* order of announcements, closings and reaped ghosts.
PairedRight ==
  \A i \in DOMAIN toplevels :
    toplevels[i].identifier \in {NULL, toplevels[i].window}

\* An entry is only reaped when its window is gone: a window that was just
\* opened never falls to a set that did not know it yet.
LiveEntriesStay ==
  [][\A x \in alive \cap alive' :
       x \in Windows(toplevels) => x \in Windows(toplevels')]_vars

\* The entry of a ghost is reaped some time: some set is received after it was made
\* and is looked at when it is old enough.
GhostsGo ==
  \A x \in Leaked : x \in Windows(toplevels) ~> x \notin Windows(toplevels)

=============================================================================
