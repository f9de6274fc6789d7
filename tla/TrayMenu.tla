------------------------------ MODULE TrayMenu ------------------------------
(***************************************************************************)
(* The tray of the bar (bar-tray.c): the items that services register over *)
(* D-Bus, and the menu that a click on one opens.  The bar is the watcher. *)
(* The rows of a menu are asked for with GetLayout, and the answer comes   *)
(* later, when items may have gone, another menu may have been asked for,  *)
(* or the bar may have given up its surface to a game.                     *)
(***************************************************************************)
EXTENDS WlList

CONSTANTS
  Service,             \* programs that register an item, each connects once
  NONE,                \* no service
  TRAY_MAX,
  MaxCalls,            \* GetLayout calls to one service under way at most
  Patient,             \* TRUE: an item whose menu is under way is not clicked again
  Stays,               \* TRUE: a service outlives the signal of its own registration
  Games                \* TRUE: games take the surface of the bar away

ASSUME TrayAssumption ==
  /\ NONE \notin Service
  /\ TRAY_MAX \in Nat \ {0} /\ MaxCalls \in Nat \ {0}
  /\ {Patient, Stays, Games} \subseteq BOOLEAN

VARIABLES
  unborn, alive,       \* services not yet on the bus, and on it
  register,            \* services whose RegisterStatusNotifierItem is under way
  registered,          \* ... whose StatusNotifierItemRegistered signal is, which
                       \* the bar sends and, being subscribed to it, also gets
  gone,                \* ... whose NameOwnerChanged is
  calls,               \* GetLayout calls of each service without an answer
  items,               \* g_items[].service
  menu,                \* menu_open, g_menu_service, g_menu_tray_idx (0 is none)
                       \* and the service the rows in g_menu_items came from
  popups,              \* popup objects the bar has made and not destroyed
  surface,             \* the bar has a layer surface
  event                \* the last Event: whose row was clicked, who was told

bus == <<unborn, alive, register, registered, gone>>
vars == <<bus, calls, items, menu, popups, surface, event>>

Init ==
  /\ unborn = Service /\ alive = {}
  /\ register = {} /\ registered = {} /\ gone = {}
  /\ calls = [s \in Service |-> 0]
  /\ items = <<>>
  /\ menu = [open |-> FALSE, service |-> NONE, tray_idx |-> 0, rows |-> NONE]
  /\ popups = 0
  /\ surface = TRUE
  /\ event = [row |-> NONE, to |-> NONE]

Quiet == register \cup registered \cup gone = {}

-----------------------------------------------------------------------------
(* The services and the bus.                                               *)

Appear(s) ==
  /\ s \in unborn
  /\ unborn' = unborn \ {s}
  /\ alive' = alive \cup {s}
  /\ register' = register \cup {s}
  /\ UNCHANGED <<registered, gone, calls, items, menu, popups, surface, event>>

Quit(s) ==
  /\ s \in alive
  /\ Stays => s \notin register \cup registered
  /\ alive' = alive \ {s}
  /\ gone' = gone \cup {s}
  /\ UNCHANGED <<unborn, register, registered, calls, items, menu, popups, surface, event>>

-----------------------------------------------------------------------------
(* The items.                                                              *)

\* (Slip: an item that is there already is added again.)
add_item_Twice(s) == items' = IF Len(items) >= TRAY_MAX THEN items ELSE Append(items, s)

add_item(s) ==
  items' = IF Len(items) >= TRAY_MAX \/ Contains(items, s) THEN items
           ELSE Append(items, s)

\* g_menu_tray_idx is left as it is although later items move down.
remove_item(s) == items' = Without(items, s)

RegisterStatusNotifierItem(s) ==
  /\ s \in register
  /\ register' = register \ {s}
  /\ add_item(s)
  /\ registered' = registered \cup {s}
  /\ UNCHANGED <<unborn, alive, gone, calls, menu, popups, surface, event>>

StatusNotifierItemRegistered(s) ==
  /\ s \in registered
  /\ registered' = registered \ {s}
  /\ add_item(s)
  /\ UNCHANGED <<unborn, alive, register, gone, calls, menu, popups, surface, event>>

\* The bus keeps what a service did in order.
NameOwnerChanged(s) ==
  /\ s \in gone \ register
  /\ gone' = gone \ {s}
  /\ remove_item(s)
  /\ UNCHANGED <<unborn, alive, register, registered, calls, menu, popups, surface, event>>

-----------------------------------------------------------------------------
(* The menu.                                                               *)

\* Closing destroys the one popup that menu_popup points to.
Closed(m) == IF m.open THEN [m EXCEPT !.open = FALSE, !.tray_idx = 0, !.rows = NONE] ELSE m

PopupsClosed == IF menu.open THEN popups - 1 ELSE popups

bar_tray_menu_close ==
  /\ menu' = Closed(menu)
  /\ popups' = PopupsClosed

\* A click on the i-th item of the bar.
bar_tray_open_menu(i) ==
  /\ surface
  /\ i \in DOMAIN items
  /\ calls[items[i]] < IF Patient THEN 1 ELSE MaxCalls
  /\ menu' = [Closed(menu) EXCEPT !.service = items[i], !.tray_idx = i, !.rows = NONE]
  /\ popups' = PopupsClosed
  /\ calls' = [calls EXCEPT ![items[i]] = @ + 1]
  /\ UNCHANGED <<bus, items, surface, event>>

\* (Slip: an answer is taken for any menu that was asked for.)
on_menu_layout_reply_AnyMenu(s, rows) ==
  /\ calls[s] > 0
  /\ calls' = [calls EXCEPT ![s] = @ - 1]
  /\ IF ~Contains(items, s) THEN UNCHANGED <<menu, popups>>
     ELSE /\ menu' = [menu EXCEPT !.tray_idx = CHOOSE i \in DOMAIN items : items[i] = s,
                                  !.rows = rows,
                                  !.open = (rows # NONE) \/ menu.open]
          /\ popups' = IF rows = NONE THEN popups ELSE popups + 1
  /\ UNCHANGED <<bus, items, surface, event>>

\* (Slip: the index is the one of the click.)
on_menu_layout_reply_OldIndex(s, rows) ==
  /\ calls[s] > 0
  /\ calls' = [calls EXCEPT ![s] = @ - 1]
  /\ IF ~Contains(items, s) \/ menu.service # s THEN UNCHANGED <<menu, popups>>
     ELSE /\ menu' = [menu EXCEPT !.rows = rows, !.open = (rows # NONE) \/ menu.open]
          /\ popups' = IF rows = NONE THEN popups ELSE popups + 1
  /\ UNCHANGED <<bus, items, surface, event>>

\* An answer or an error, which has no rows: the service failed, quit, or let
\* the time of the call run out.
on_menu_layout_reply(s, rows) ==
  /\ calls[s] > 0
  /\ calls' = [calls EXCEPT ![s] = @ - 1]
  /\ IF ~Contains(items, s) \/ menu.service # s THEN UNCHANGED <<menu, popups>>
     ELSE /\ menu' = [menu EXCEPT !.tray_idx = CHOOSE i \in DOMAIN items : items[i] = s,
                                  !.rows = rows,
                                  !.open = (rows # NONE) \/ menu.open]
          /\ popups' = IF rows = NONE THEN popups ELSE popups + 1
  /\ UNCHANGED <<bus, items, surface, event>>

\* A click on a row.  The item may be gone: then nothing happens.
bar_tray_menu_activate ==
  /\ menu.open /\ menu.rows # NONE
  /\ menu.tray_idx \in DOMAIN items
  /\ event' = [row |-> menu.rows, to |-> items[menu.tray_idx]]
  /\ bar_tray_menu_close
  /\ UNCHANGED <<bus, calls, items, surface>>

\* The compositor dismissed the popup.
menu_popup_done ==
  /\ menu.open
  /\ bar_tray_menu_close
  /\ UNCHANGED <<bus, calls, items, surface, event>>

-----------------------------------------------------------------------------
(* Games.                                                                  *)

bar_surface_destroy ==
  /\ Games /\ surface
  /\ surface' = FALSE
  /\ UNCHANGED <<bus, calls, items, menu, popups, event>>

bar_surface_restore ==
  /\ Games /\ ~surface
  /\ surface' = TRUE
  /\ UNCHANGED <<bus, calls, items, menu, popups, event>>

-----------------------------------------------------------------------------

Bus ==
  \E s \in Service :
    \/ Appear(s) \/ Quit(s)
    \/ RegisterStatusNotifierItem(s) \/ StatusNotifierItemRegistered(s)
    \/ NameOwnerChanged(s)

Menu ==
  \/ \E i \in 1..TRAY_MAX : bar_tray_open_menu(i)
  \/ \E s \in Service : \E rows \in {s, NONE} : on_menu_layout_reply(s, rows)
  \/ bar_tray_menu_activate
  \/ menu_popup_done

Next == Bus \/ Menu \/ bar_surface_destroy \/ bar_surface_restore

Spec == Init /\ [][Next]_vars

-----------------------------------------------------------------------------

\* Types: no array overflows and no popup is destroyed twice.
TypeOK ==
  /\ unborn \cup alive \cup register \cup registered \cup gone \subseteq Service
  /\ calls \in [Service -> 0..MaxCalls]
  /\ items \in Seq(Service) /\ Len(items) <= TRAY_MAX
  /\ menu \in [open : BOOLEAN, service : Service \cup {NONE}, tray_idx : 0..TRAY_MAX,
               rows : Service \cup {NONE}]
  /\ popups \in Nat
  /\ surface \in BOOLEAN
  /\ event \in [row : Service \cup {NONE}, to : Service \cup {NONE}]

\* Once the news of the bus has been read, the tray shows every service that is
\* there exactly once and none that is gone.
TrayShowsServices ==
  Quiet => /\ ToSet(items) = alive
           /\ Len(items) = Cardinality(alive)

\* There is a popup exactly while a menu is open, and one only: none is left
\* behind when answers come late, for items that are gone or not at all.
OnePopup == popups = IF menu.open THEN 1 ELSE 0

\* A menu opens with the rows of the item clicked last and remembers where that
\* item is now, although items moved while the answer was under way.
MenuOpensOnItsItem ==
  [][~menu.open /\ menu'.open =>
       /\ menu'.rows = menu'.service
       /\ menu'.tray_idx \in DOMAIN items'
       /\ items'[menu'.tray_idx] = menu'.service]_vars

\* A click on a row is sent to the service the row came from.
ClickGoesToOwner == event.to = event.row

\* A menu is only opened on a bar that has a layer surface to attach it to.
MenuOpensOnBar == [][~menu.open /\ menu'.open => surface]_vars

=============================================================================
