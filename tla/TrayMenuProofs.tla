--------------------------- MODULE TrayMenuProofs ---------------------------
(***************************************************************************)
(* Any number of services: the tray shows those that are there, as long as *)
(* they fit into it and outlive the news of their own arrival; one menu is *)
(* open at a time if no item is clicked again before its answer; and a     *)
(* menu opens, whatever happened since the click, on the item it is of.    *)
(***************************************************************************)
EXTENDS TrayMenu, WlListProofs

USE TrayAssumption DEF TrayAssumption

MenuType == [open : BOOLEAN, service : Service \cup {NONE}, tray_idx : 0..TRAY_MAX,
             rows : Service \cup {NONE}]

\* The types; no service is twice in the tray; and an open menu has a popup.
Types == TypeOK /\ IsInjective(items) /\ (menu.open => popups # 0)

-----------------------------------------------------------------------------
(* The list of items.                                                      *)

LEMMA RangeOf == ASSUME NEW S, NEW s \in Seq(S) PROVE ToSet(s) = Range(s)
BY DEF ToSet, Range

LEMMA ContainsOf ==
  ASSUME NEW S, NEW s \in Seq(S), NEW x PROVE Contains(s, x) <=> x \in Range(s)
<1>1. DOMAIN s = 1..Len(s)
  BY LenProperties
<1> QED BY <1>1 DEF Contains, Range

\* A service is added to the end unless it is there or there is no room.
LEMMA ItemAdded ==
  ASSUME items \in Seq(Service), IsInjective(items), NEW s \in Service, add_item(s)
  PROVE  /\ items' \in Seq(Service) /\ IsInjective(items')
         /\ Len(items) <= TRAY_MAX => Len(items') <= TRAY_MAX
         /\ Range(items') = IF Len(items) >= TRAY_MAX THEN Range(items) ELSE Range(items) \cup {s}
<1>1. CASE Len(items) >= TRAY_MAX \/ Contains(items, s)
  BY <1>1, ContainsOf DEF add_item
<1>2. CASE ~(Len(items) >= TRAY_MAX \/ Contains(items, s))
  <2> DEFINE t == Append(items, s)
  <2>1. items' = t
    BY <1>2 DEF add_item
  <2>2. s \notin Range(items)
    BY <1>2, ContainsOf
  <2>3. t \in Seq(Service) /\ Range(t) = Range(items) \cup {s} /\ IsInjective(t)
    BY <2>2, AppendList
  <2>4. Len(t) = Len(items) + 1 /\ Len(items) \in Nat
    BY LenProperties, AppendProperties
  <2> HIDE DEF t
  <2> QED BY <1>2, <2>1, <2>3, <2>4
<1> QED BY <1>1, <1>2

LEMMA ItemRemoved ==
  ASSUME items \in Seq(Service), IsInjective(items), NEW s \in Service, remove_item(s)
  PROVE  /\ items' \in Seq(Service) /\ IsInjective(items')
         /\ Len(items') <= Len(items)
         /\ Range(items') = Range(items) \ {s}
<1> DEFINE t == Without(items, s)
<1>1. t \in Seq(Service) /\ Range(t) = Range(items) \ {s} /\ IsInjective(t)
  BY WithoutProperties
<1> HIDE DEF t
<1>2. items' = t
  BY DEF remove_item, t
<1>3. /\ IsFiniteSet(Range(items)) /\ Cardinality(Range(items)) = Len(items)
      /\ Cardinality(Range(t)) = Len(t)
  BY <1>1, ListSize
<1>4. Cardinality(Range(t)) <= Cardinality(Range(items))
  BY <1>1, <1>3, FS_Subset
<1> QED BY <1>1, <1>2, <1>3, <1>4

-----------------------------------------------------------------------------
(* Types.                                                                  *)

LEMMA TypesInit == Init => Types
<1> SUFFICES ASSUME Init PROVE Types
  OBVIOUS
<1>1. items \in Seq(Service) /\ IsInjective(items) /\ Len(items) = 0
  BY DEF Init, IsInjective
<1>2. 0 \in 0..MaxCalls /\ 0 \in 0..TRAY_MAX /\ 0 <= TRAY_MAX
  OBVIOUS
<1>3. calls \in [Service -> 0..MaxCalls]
  BY <1>2 DEF Init
<1>4. menu \in MenuType /\ ~menu.open
  BY <1>2 DEF Init, MenuType
<1>5. event \in [row : Service \cup {NONE}, to : Service \cup {NONE}]
  BY DEF Init
<1>6. unborn \cup alive \cup register \cup registered \cup gone \subseteq Service
  BY DEF Init
<1> QED BY <1>1, <1>2, <1>3, <1>4, <1>5, <1>6 DEF Init, Types, TypeOK, MenuType

\* What an answer makes of the menu: nothing, or it goes to where the item is now.
Ignored == menu' = menu /\ popups' = popups

Taken(s, rows) ==
  /\ menu.service = s
  /\ \E i \in DOMAIN items :
       /\ items[i] = s
       /\ menu' = [menu EXCEPT !.tray_idx = i, !.rows = rows, !.open = (rows # NONE) \/ menu.open]
  /\ popups' = IF rows = NONE THEN popups ELSE popups + 1

LEMMA Answered ==
  ASSUME items \in Seq(Service), NEW s \in Service, NEW rows \in {s, NONE}, on_menu_layout_reply(s, rows)
  PROVE  /\ UNCHANGED <<bus, items, surface, event>>
         /\ calls[s] > 0 /\ calls' = [calls EXCEPT ![s] = @ - 1]
         /\ Ignored \/ Taken(s, rows)
<1>1. /\ UNCHANGED <<bus, items, surface, event>>
      /\ calls[s] > 0 /\ calls' = [calls EXCEPT ![s] = @ - 1]
  BY DEF on_menu_layout_reply
<1>2. CASE ~Contains(items, s) \/ menu.service # s
  BY <1>1, <1>2 DEF on_menu_layout_reply, Ignored
<1>3. CASE ~(~Contains(items, s) \/ menu.service # s)
  <2> DEFINE i == CHOOSE j \in DOMAIN items : items[j] = s
  <2>1. s \in Range(items) /\ menu.service = s
    BY <1>3, ContainsOf
  <2>2. i \in DOMAIN items /\ items[i] = s
    BY <2>1 DEF Range
  <2>3. /\ menu' = [menu EXCEPT !.tray_idx = i, !.rows = rows,
                                !.open = (rows # NONE) \/ menu.open]
        /\ popups' = IF rows = NONE THEN popups ELSE popups + 1
    BY <1>3 DEF on_menu_layout_reply
  <2> HIDE DEF i
  <2> QED BY <1>1, <2>1, <2>2, <2>3 DEF Taken
<1> QED BY <1>1, <1>2, <1>3

\* Closing leaves the type.
LEMMA ClosedType ==
  ASSUME NEW m \in MenuType
  PROVE  /\ Closed(m) \in MenuType /\ ~Closed(m).open /\ Closed(m).service = m.service
<1> USE DEF MenuType
<1>1. CASE m.open
  <2>1. 0 \in 0..TRAY_MAX
    OBVIOUS
  <2> QED BY <1>1, <2>1 DEF Closed
<1>2. CASE ~m.open
  BY <1>2 DEF Closed
<1> QED BY <1>1, <1>2

BusType == unborn \cup alive \cup register \cup registered \cup gone \subseteq Service

\* Every step keeps the types.
LEMMA TypesStep == ASSUME Types, [Next]_vars PROVE Types'
<1>0. /\ BusType /\ calls \in [Service -> 0..MaxCalls]
      /\ items \in Seq(Service) /\ Len(items) <= TRAY_MAX /\ IsInjective(items)
      /\ menu \in MenuType /\ popups \in Nat /\ (menu.open => popups # 0)
      /\ surface \in BOOLEAN /\ event \in [row : Service \cup {NONE}, to : Service \cup {NONE}]
  BY DEF Types, TypeOK, BusType, MenuType
<1>1. ASSUME NEW s \in Service, Appear(s) \/ Quit(s) PROVE Types'
  BY <1>0, <1>1 DEF Appear, Quit, Types, TypeOK, BusType, MenuType
<1>2. ASSUME NEW s \in Service, RegisterStatusNotifierItem(s) PROVE Types'
  BY <1>0, <1>2, ItemAdded DEF RegisterStatusNotifierItem, Types, TypeOK, BusType, MenuType
<1>3. ASSUME NEW s \in Service, StatusNotifierItemRegistered(s) PROVE Types'
  BY <1>0, <1>3, ItemAdded DEF StatusNotifierItemRegistered, Types, TypeOK, BusType, MenuType
<1>4. ASSUME NEW s \in Service, NameOwnerChanged(s) PROVE Types'
  <2>1. /\ items' \in Seq(Service) /\ IsInjective(items') /\ Len(items') <= Len(items)
    BY <1>0, <1>4, ItemRemoved DEF NameOwnerChanged
  <2>2. Len(items) \in Nat /\ Len(items') \in Nat
    BY <1>0, <2>1, LenProperties
  <2>3. Len(items') <= TRAY_MAX
    BY <1>0, <2>1, <2>2
  <2> QED BY <1>0, <1>4, <2>1, <2>3 DEF NameOwnerChanged, Types, TypeOK, BusType, MenuType
<1>5. ASSUME NEW i \in 1..TRAY_MAX, bar_tray_open_menu(i) PROVE Types'
  <2>1. items[i] \in Service
    BY <1>0, <1>5, ElementOfSeq, LenProperties DEF bar_tray_open_menu
  <2>2. menu' \in MenuType /\ ~menu'.open
    <3>1. Closed(menu) \in MenuType /\ ~Closed(menu).open
      BY <1>0, ClosedType
    <3>2. /\ i \in 0..TRAY_MAX
          /\ menu' = [Closed(menu) EXCEPT !.service = items[i], !.tray_idx = i, !.rows = NONE]
      BY <1>5 DEF bar_tray_open_menu
    <3> QED BY <2>1, <3>1, <3>2 DEF MenuType
  <2>3. popups' \in Nat /\ UNCHANGED <<bus, items, surface, event>>
    BY <1>0, <1>5 DEF bar_tray_open_menu, PopupsClosed
  <2>4. calls' \in [Service -> 0..MaxCalls]
    <3>1. calls[items[i]] + 1 \in 0..MaxCalls
      BY <1>0, <1>5, <2>1 DEF bar_tray_open_menu
    <3> QED BY <1>0, <1>5, <2>1, <3>1 DEF bar_tray_open_menu
  <2> QED BY <1>0, <2>2, <2>3, <2>4 DEF Types, TypeOK, BusType, MenuType, bus
<1>6. ASSUME NEW s \in Service, NEW rows \in {s, NONE}, on_menu_layout_reply(s, rows)
      PROVE  Types'
  <2>1. DOMAIN items \subseteq 0..TRAY_MAX
    BY <1>0, LenProperties
  <2>2. /\ UNCHANGED <<bus, items, surface, event>>
        /\ calls[s] > 0 /\ calls' = [calls EXCEPT ![s] = @ - 1]
        /\ Ignored \/ Taken(s, rows)
    BY <1>0, <1>6, Answered
  <2>3. calls' \in [Service -> 0..MaxCalls]
    BY <1>0, <2>2
  <2>4. menu' \in MenuType /\ popups' \in Nat /\ (menu'.open => popups' # 0)
    <3>1. CASE Ignored
      BY <1>0, <3>1 DEF Ignored
    <3>2. CASE Taken(s, rows)
      <4>1. PICK i \in DOMAIN items :
              menu' = [menu EXCEPT !.tray_idx = i, !.rows = rows, !.open = (rows # NONE) \/ menu.open]
        BY <3>2 DEF Taken
      <4>2. popups' = IF rows = NONE THEN popups ELSE popups + 1
        BY <3>2 DEF Taken
      <4>3. i \in 0..TRAY_MAX /\ rows \in Service \cup {NONE}
        BY <2>1
      <4>4. menu' \in MenuType
        BY <1>0, <4>1, <4>3 DEF MenuType
      <4>5. menu'.open <=> (rows # NONE) \/ menu.open
        BY <1>0, <4>1 DEF MenuType
      <4> QED BY <1>0, <4>2, <4>4, <4>5
    <3> QED BY <2>2, <3>1, <3>2
  <2> QED BY <1>0, <2>2, <2>3, <2>4 DEF Types, TypeOK, BusType, MenuType, bus
<1>7. CASE bar_tray_menu_activate \/ menu_popup_done
  <2>1. menu' = Closed(menu) /\ popups' = PopupsClosed /\ UNCHANGED <<bus, calls, items, surface>>
    BY <1>7 DEF bar_tray_menu_activate, menu_popup_done, bar_tray_menu_close
  <2>2. menu' \in MenuType /\ ~menu'.open
    BY <1>0, <2>1, ClosedType
  <2>3. popups' \in Nat
    BY <1>0, <2>1 DEF PopupsClosed
  <2>4. event' \in [row : Service \cup {NONE}, to : Service \cup {NONE}]
    <3>1. ASSUME bar_tray_menu_activate PROVE items[menu.tray_idx] \in Service
      BY <1>0, <3>1, ElementOfSeq, LenProperties DEF bar_tray_menu_activate
    <3> QED BY <1>0, <1>7, <3>1 DEF bar_tray_menu_activate, menu_popup_done, MenuType
  <2> QED BY <1>0, <2>1, <2>2, <2>3, <2>4 DEF Types, TypeOK, BusType, MenuType, bus
<1>8. CASE bar_surface_destroy \/ bar_surface_restore
  BY <1>0, <1>8 DEF bar_surface_destroy, bar_surface_restore, Types, TypeOK, BusType, MenuType, bus
<1>9. CASE UNCHANGED vars
  BY <1>0, <1>9 DEF vars, Types, TypeOK, BusType, MenuType, bus
<1> QED BY <1>1, <1>2, <1>3, <1>4, <1>5, <1>6, <1>7, <1>8, <1>9 DEF Next, Bus, Menu

\* No array overflows and no popup is destroyed twice, whatever is clicked when.
THEOREM TypeCorrect == Spec => []TypeOK
<1>1. Types => TypeOK
  BY DEF Types
<1> QED BY TypesInit, TypesStep, <1>1, PTL DEF Spec

-----------------------------------------------------------------------------
(* One menu.                                                               *)

\* The item an open menu is of has no call under way, so that no answer finds
\* its menu open.
Answerless == menu.open => menu.service \in Service /\ calls[menu.service] = 0

\* No service is asked twice at a time.
OneCall == \A s \in Service : calls[s] \in {0, 1}

MenuInv == Types /\ OneCall /\ OnePopup /\ Answerless

LEMMA CallStep == ASSUME Patient, Types, OneCall, [Next]_vars PROVE OneCall'
<1>0. calls \in [Service -> 0..MaxCalls] /\ items \in Seq(Service)
  BY DEF Types, TypeOK
<1>1. ASSUME NEW i \in 1..TRAY_MAX, bar_tray_open_menu(i) PROVE OneCall'
  <2>1. calls[items[i]] < 1 /\ calls' = [calls EXCEPT ![items[i]] = @ + 1]
    BY <1>1 DEF bar_tray_open_menu
  <2>2. items[i] \in Service
    BY <1>0, <1>1, ElementOfSeq, LenProperties DEF bar_tray_open_menu
  <2> QED BY <1>0, <2>1, <2>2 DEF OneCall
<1>2. ASSUME NEW s \in Service, NEW rows \in {s, NONE}, on_menu_layout_reply(s, rows)
      PROVE  OneCall'
  BY <1>0, <1>2 DEF on_menu_layout_reply, OneCall
<1>3. CASE UNCHANGED calls
  BY <1>3 DEF OneCall
<1>4. ASSUME NEW s \in Service,
             \/ Appear(s) \/ Quit(s)
             \/ RegisterStatusNotifierItem(s) \/ StatusNotifierItemRegistered(s)
             \/ NameOwnerChanged(s)
      PROVE  UNCHANGED calls
  BY <1>4 DEF Appear, Quit, RegisterStatusNotifierItem, StatusNotifierItemRegistered,
              NameOwnerChanged
<1>5. ASSUME \/ bar_tray_menu_activate \/ menu_popup_done
             \/ bar_surface_destroy \/ bar_surface_restore \/ UNCHANGED vars
      PROVE  UNCHANGED calls
  BY <1>5 DEF bar_tray_menu_activate, menu_popup_done, bar_surface_destroy,
              bar_surface_restore, vars
<1> QED BY <1>1, <1>2, <1>3, <1>4, <1>5 DEF Next, Bus, Menu

LEMMA MenuStep == ASSUME Patient, MenuInv, [Next]_vars PROVE OnePopup' /\ Answerless'
<1>0. /\ calls \in [Service -> 0..MaxCalls]
      /\ items \in Seq(Service) /\ menu \in MenuType /\ popups \in Nat
      /\ OneCall /\ OnePopup /\ Answerless
  BY DEF MenuInv, Types, TypeOK, MenuType
<1> USE DEF OnePopup, Answerless
<1>1. ASSUME NEW s \in Service,
             \/ Appear(s) \/ Quit(s)
             \/ RegisterStatusNotifierItem(s) \/ StatusNotifierItemRegistered(s)
             \/ NameOwnerChanged(s)
      PROVE  OnePopup' /\ Answerless'
  <2>1. UNCHANGED <<menu, calls, popups>>
    BY <1>1 DEF Appear, Quit, RegisterStatusNotifierItem, StatusNotifierItemRegistered,
                NameOwnerChanged
  <2> QED BY <1>0, <2>1
<1>2. ASSUME NEW i \in 1..TRAY_MAX, bar_tray_open_menu(i) PROVE OnePopup' /\ Answerless'
  <2>1. ~Closed(menu).open /\ Closed(menu) \in MenuType
    BY <1>0, ClosedType
  <2>2. ~menu'.open
    BY <1>2, <2>1 DEF bar_tray_open_menu, MenuType
  <2>3. popups' = 0
    BY <1>0, <1>2 DEF bar_tray_open_menu, PopupsClosed
  <2> QED BY <2>2, <2>3
<1>3. ASSUME NEW s \in Service, NEW rows \in {s, NONE}, on_menu_layout_reply(s, rows)
      PROVE  OnePopup' /\ Answerless'
  <2>1. /\ calls[s] > 0 /\ calls' = [calls EXCEPT ![s] = @ - 1]
        /\ Ignored \/ Taken(s, rows)
    BY <1>0, <1>3, Answered
  <2>2. CASE Ignored
    <3>1. menu.open => menu.service # s
      BY <1>0, <2>1
    <3> QED BY <1>0, <2>1, <2>2, <3>1 DEF Ignored
  <2>3. CASE Taken(s, rows)
    <3>1. menu.service = s /\ ~menu.open /\ popups = 0
      <4>1. menu.service = s
        BY <2>3 DEF Taken
      <4>2. ~menu.open
        BY <1>0, <2>1, <4>1
      <4> QED BY <1>0, <4>1, <4>2
    <3>2. calls[s] = 1
      BY <1>0, <2>1 DEF OneCall
    <3>3. menu'.service = s /\ (menu'.open <=> rows # NONE)
      BY <1>0, <2>3, <3>1 DEF Taken, MenuType
    <3>4. popups' = IF rows = NONE THEN 0 ELSE 1
      BY <2>3, <3>1 DEF Taken
    <3> QED BY <1>0, <2>1, <3>2, <3>3, <3>4
  <2> QED BY <2>1, <2>2, <2>3
<1>4. CASE bar_tray_menu_activate \/ menu_popup_done
  <2>1. menu' = Closed(menu) /\ popups' = PopupsClosed
    BY <1>4 DEF bar_tray_menu_activate, menu_popup_done, bar_tray_menu_close
  <2>2. ~menu'.open /\ popups' = 0
    BY <1>0, <2>1, ClosedType DEF PopupsClosed
  <2> QED BY <2>2
<1>5. CASE bar_surface_destroy \/ bar_surface_restore
  BY <1>0, <1>5 DEF bar_surface_destroy, bar_surface_restore
<1>6. CASE UNCHANGED vars
  BY <1>0, <1>6 DEF vars
<1> QED BY <1>1, <1>2, <1>3, <1>4, <1>5, <1>6 DEF Next, Bus, Menu

\* Nobody clicking again on an item whose menu is still under way, there is one
\* popup while a menu is open and none otherwise: late answers and answers for
\* items that are gone leave none behind.
THEOREM OnePopupIfPatient == Patient => (Spec => []OnePopup)
<1> SUFFICES ASSUME Patient PROVE Spec => []OnePopup
  OBVIOUS
<1>1. Init => MenuInv
  <2>1. Init => OneCall /\ OnePopup /\ Answerless
    BY DEF Init, OneCall, OnePopup, Answerless
  <2> QED BY <2>1, TypesInit DEF MenuInv
<1>2. MenuInv /\ [Next]_vars => MenuInv'
  BY TypesStep, CallStep, MenuStep DEF MenuInv
<1>3. MenuInv => OnePopup
  BY DEF MenuInv
<1> QED BY <1>1, <1>2, <1>3, PTL DEF Spec

-----------------------------------------------------------------------------
(* Which menu.                                                             *)

\* A menu opens with the rows of the item clicked last and at the place of that
\* item, whatever was clicked, came or went while the answer was under way.
THEOREM OpensWhereItsItemIs == Spec => MenuOpensOnItsItem
<1> DEFINE Opens == ~menu.open /\ menu'.open =>
                      /\ menu'.rows = menu'.service
                      /\ menu'.tray_idx \in DOMAIN items'
                      /\ items'[menu'.tray_idx] = menu'.service
<1>1. ASSUME Types, [Next]_vars PROVE Opens
  <2>0. items \in Seq(Service) /\ menu \in MenuType
    BY <1>1 DEF Types, TypeOK, MenuType
  <2>1. ASSUME NEW s \in Service, NEW rows \in {s, NONE}, on_menu_layout_reply(s, rows)
        PROVE  Opens
    <3>1. items' = items /\ (Ignored \/ Taken(s, rows))
      BY <2>0, <2>1, Answered
    <3>2. CASE Ignored
      BY <3>2 DEF Ignored
    <3>3. CASE Taken(s, rows)
      <4>1. PICK i \in DOMAIN items :
              /\ items[i] = s
              /\ menu' = [menu EXCEPT !.tray_idx = i, !.rows = rows, !.open = (rows # NONE) \/ menu.open]
        BY <3>3 DEF Taken
      <4>2. menu.service = s
        BY <3>3 DEF Taken
      <4>3. /\ menu'.open <=> (rows # NONE) \/ menu.open
            /\ menu'.rows = rows /\ menu'.service = s /\ menu'.tray_idx = i
        BY <2>0, <4>1, <4>2 DEF MenuType
      <4> QED BY <3>1, <4>1, <4>3
    <3> QED BY <3>1, <3>2, <3>3
  <2>2. ASSUME NEW i \in 1..TRAY_MAX, bar_tray_open_menu(i) PROVE Opens
    <3>1. ~Closed(menu).open /\ Closed(menu) \in MenuType
      BY <2>0, ClosedType
    <3>2. ~menu'.open
      BY <2>2, <3>1 DEF bar_tray_open_menu, MenuType
    <3> QED BY <3>2
  <2>3. CASE bar_tray_menu_activate \/ menu_popup_done
    <3>1. ~menu'.open
      BY <2>0, <2>3, ClosedType DEF bar_tray_menu_activate, menu_popup_done, bar_tray_menu_close
    <3> QED BY <3>1
  <2>4. CASE UNCHANGED menu
    BY <2>4
  <2>5. ASSUME NEW s \in Service,
               \/ Appear(s) \/ Quit(s)
               \/ RegisterStatusNotifierItem(s) \/ StatusNotifierItemRegistered(s)
               \/ NameOwnerChanged(s)
        PROVE  UNCHANGED menu
    BY <2>5 DEF Appear, Quit, RegisterStatusNotifierItem, StatusNotifierItemRegistered,
                NameOwnerChanged
  <2>6. ASSUME bar_surface_destroy \/ bar_surface_restore \/ UNCHANGED vars
        PROVE  UNCHANGED menu
    BY <2>6 DEF bar_surface_destroy, bar_surface_restore, vars
  <2> QED BY <1>1, <2>1, <2>2, <2>3, <2>4, <2>5, <2>6 DEF Next, Bus, Menu
<1>2. Types /\ [Next]_vars => [Opens]_vars
  BY <1>1
<1> QED BY TypesInit, TypesStep, <1>2, PTL DEF Spec, MenuOpensOnItsItem

-----------------------------------------------------------------------------
(* The services that are shown.                                            *)

\* The services that are there, and those whose end is not yet known, fit.
Room == Cardinality(alive \cup gone) <= TRAY_MAX

\* Where a service is in its life, ...
Life ==
  /\ IsFiniteSet(alive) /\ IsFiniteSet(gone)
  /\ unborn \cap (alive \cup gone) = {} /\ alive \cap gone = {}
  /\ register \cup registered \subseteq alive /\ register \cap registered = {}
\* ... and what the tray shows: those that have registered, and those whose end
\* is not yet known.
Shows == Range(items) = (alive \ register) \cup gone

ShowInv == Types /\ Life /\ Shows

LEMMA LifeStep == ASSUME Stays, Types, Life, [Next]_vars PROVE Life'
<1> USE DEF Life
<1>1. ASSUME NEW s \in Service, Appear(s) PROVE Life'
  <2>1. IsFiniteSet(alive') /\ IsFiniteSet(gone')
    BY <1>1, FS_AddElement DEF Appear
  <2> QED BY <1>1, <2>1 DEF Appear
<1>2. ASSUME NEW s \in Service, Quit(s) PROVE Life'
  <2>1. IsFiniteSet(alive') /\ IsFiniteSet(gone')
    BY <1>2, FS_AddElement, FS_RemoveElement DEF Quit
  <2> QED BY <1>2, <2>1 DEF Quit
<1>3. ASSUME NEW s \in Service, RegisterStatusNotifierItem(s) PROVE Life'
  BY <1>3 DEF RegisterStatusNotifierItem
<1>4. ASSUME NEW s \in Service, StatusNotifierItemRegistered(s) PROVE Life'
  BY <1>4 DEF StatusNotifierItemRegistered
<1>5. ASSUME NEW s \in Service, NameOwnerChanged(s) PROVE Life'
  <2>1. IsFiniteSet(alive') /\ IsFiniteSet(gone')
    BY <1>5, FS_RemoveElement DEF NameOwnerChanged
  <2> QED BY <1>5, <2>1 DEF NameOwnerChanged
<1>6. CASE UNCHANGED bus
  BY <1>6 DEF bus
<1>7. ASSUME Menu \/ bar_surface_destroy \/ bar_surface_restore \/ UNCHANGED vars
      PROVE  UNCHANGED bus
  BY <1>7 DEF Menu, bar_tray_open_menu, on_menu_layout_reply, bar_tray_menu_activate,
              menu_popup_done, bar_surface_destroy, bar_surface_restore, vars
<1> QED BY <1>1, <1>2, <1>3, <1>4, <1>5, <1>6, <1>7 DEF Next, Bus

\* With room no service is turned away.
LEMMA AddedWithRoom ==
  ASSUME Types, Life, Shows, Room, NEW s \in alive, add_item(s)
  PROVE  Range(items') = Range(items) \cup {s}
<1>1. items \in Seq(Service) /\ IsInjective(items) /\ s \in Service
  BY DEF Types, TypeOK
<1>2. IsFiniteSet(Range(items)) /\ Cardinality(Range(items)) = Len(items)
  BY <1>1, ListSize
<1>3. CASE s \in Range(items)
  <2>1. items' = items
    BY <1>1, <1>3, ContainsOf DEF add_item
  <2> QED BY <1>3, <2>1
<1>4. CASE s \notin Range(items)
  <2> DEFINE T == Range(items) \cup {s}
             U == alive \cup gone
  <2>1. IsFiniteSet(T) /\ Cardinality(T) = Len(items) + 1
    BY <1>2, <1>4, FS_AddElement
  <2>2. T \subseteq U /\ IsFiniteSet(U)
    BY FS_Union DEF Shows, Life
  <2>3. Cardinality(T) <= Cardinality(U)
    BY <2>2, FS_Subset
  <2>4. Cardinality(U) <= TRAY_MAX
    BY DEF Room
  <2>5. Len(items) \in Nat /\ Cardinality(U) \in Nat
    BY <1>1, <2>2, LenProperties, FS_CardinalityType
  <2> HIDE DEF T, U
  <2>6. ~(Len(items) >= TRAY_MAX)
    BY <2>1, <2>3, <2>4, <2>5
  <2> QED BY <1>1, <2>6, ItemAdded
<1> QED BY <1>3, <1>4

LEMMA ShowsStep == ASSUME Stays, ShowInv, Room, [Next]_vars PROVE Shows'
<1>0. Life /\ Shows /\ Types /\ items \in Seq(Service) /\ IsInjective(items)
  BY DEF ShowInv, Types, TypeOK
<1>1. ASSUME NEW s \in Service, Appear(s) PROVE Shows'
  BY <1>0, <1>1 DEF Appear, Life, Shows
<1>2. ASSUME NEW s \in Service, Quit(s) PROVE Shows'
  BY <1>0, <1>2 DEF Quit, Life, Shows
<1>3. ASSUME NEW s \in Service, RegisterStatusNotifierItem(s) PROVE Shows'
  <2>1. s \in alive /\ add_item(s)
    BY <1>0, <1>3 DEF RegisterStatusNotifierItem, Life
  <2>2. Range(items') = Range(items) \cup {s}
    BY <1>0, <2>1, AddedWithRoom
  <2> QED BY <1>0, <1>3, <2>1, <2>2 DEF RegisterStatusNotifierItem, Life, Shows
<1>4. ASSUME NEW s \in Service, StatusNotifierItemRegistered(s) PROVE Shows'
  <2>1. s \in alive /\ add_item(s)
    BY <1>0, <1>4 DEF StatusNotifierItemRegistered, Life
  <2>2. Range(items') = Range(items) \cup {s}
    BY <1>0, <2>1, AddedWithRoom
  <2> QED BY <1>0, <1>4, <2>1, <2>2 DEF StatusNotifierItemRegistered, Life, Shows
<1>5. ASSUME NEW s \in Service, NameOwnerChanged(s) PROVE Shows'
  <2>1. Range(items') = Range(items) \ {s}
    BY <1>0, <1>5, ItemRemoved DEF NameOwnerChanged
  <2> QED BY <1>0, <1>5, <2>1 DEF NameOwnerChanged, Life, Shows
<1>6. CASE UNCHANGED <<bus, items>>
  BY <1>0, <1>6 DEF bus, Shows
<1>7. ASSUME Menu \/ bar_surface_destroy \/ bar_surface_restore \/ UNCHANGED vars
      PROVE  UNCHANGED <<bus, items>>
  BY <1>7 DEF Menu, bar_tray_open_menu, on_menu_layout_reply, bar_tray_menu_activate,
              menu_popup_done, bar_surface_destroy, bar_surface_restore, vars
<1> QED BY <1>1, <1>2, <1>3, <1>4, <1>5, <1>6, <1>7 DEF Next, Bus

\* Where services outlive the news of their arrival and those on the bus never
\* are more than fit, the tray shows, once the news has been read, each that is
\* there, once, and none that is gone.
THEOREM ShowsServices == Stays => (Spec /\ []Room => []TrayShowsServices)
<1> SUFFICES ASSUME Stays PROVE Spec /\ []Room => []TrayShowsServices
  OBVIOUS
<1>1. Init => ShowInv
  <2>1. Init => Life /\ Shows
    BY FS_EmptySet DEF Init, Life, Shows, Range
  <2> QED BY <2>1, TypesInit DEF ShowInv
<1>2. ShowInv /\ Room /\ [Next]_vars => ShowInv'
  BY TypesStep, LifeStep, ShowsStep DEF ShowInv
<1>3. ShowInv => TrayShowsServices
  <2> SUFFICES ASSUME ShowInv, Quiet
               PROVE  ToSet(items) = alive /\ Len(items) = Cardinality(alive)
    BY DEF TrayShowsServices
  <2>1. items \in Seq(Service) /\ IsInjective(items)
    BY DEF ShowInv, Types, TypeOK
  <2>2. Range(items) = alive
    BY DEF ShowInv, Shows, Quiet
  <2> QED BY <2>1, <2>2, RangeOf, ListSize
<1> QED BY <1>1, <1>2, <1>3, PTL DEF Spec

\* So it is for at most TRAY_MAX services.
THEOREM ShowsServicesThatFit ==
  ASSUME Stays, IsFiniteSet(Service), Cardinality(Service) <= TRAY_MAX
  PROVE  Spec => []TrayShowsServices
<1>1. Types => Room
  <2> SUFFICES ASSUME Types PROVE Room
    OBVIOUS
  <2> DEFINE U == alive \cup gone
  <2>1. U \subseteq Service
    BY DEF Types, TypeOK
  <2> HIDE DEF U
  <2>2. Cardinality(U) <= Cardinality(Service) /\ IsFiniteSet(U)
    BY <2>1, FS_Subset
  <2>3. Cardinality(U) \in Nat /\ Cardinality(Service) \in Nat
    BY <2>2, FS_CardinalityType
  <2>4. Cardinality(U) <= TRAY_MAX
    BY <2>2, <2>3
  <2> QED BY <2>4 DEF Room, U
<1> QED BY <1>1, TypesInit, TypesStep, ShowsServices, PTL DEF Spec

=============================================================================
