--------------------------- MODULE MainDeckProofs ---------------------------
(***************************************************************************)
(* Type correctness of the window manager, the soundness of its list, the  *)
(* absence of dangling pointers, and that focus, bar and owed manage       *)
(* sequence keep up with the windows, for any number of windows, any       *)
(* choice of keys and any batch of events.                                 *)
(*                                                                         *)
(* Sound is the inductive invariant, stated of the record: TypeOK is not   *)
(* inductive alone, because a layout operation puts a window back in the   *)
(* list by its place, which exists only if the list has no duplicates and  *)
(* the pointers followed to it are live.  Each operation of MainDeck has a *)
(* lemma saying that it takes sound records to sound records and whether   *)
(* it changes the set of live windows; the step lemmas compose them.       *)
(* FInv, stated on top of it, is the invariant of the theorems about focus *)
(* and wake-ups: it relates the focus to the last signature a manage       *)
(* sequence computed.                                                      *)
(*                                                                         *)
(* The second half shows that windows that can only be cards are managed   *)
(* as DeckRefinement says, and with it that the target is on screen.       *)
(*                                                                         *)
(* The last part is about Screen: its steps are steps of MainDeck, so that *)
(* all of this holds of it, and SInv relates what the manager remembers to *)
(* have asked of the server to what it asked and to what it signed.  LInv  *)
(* adds what is shown and where: that it is what was drawn last, and that  *)
(* what is drawn next is the layout the manage sequence left.              *)
(***************************************************************************)
EXTENDS DeckRefinement, Screen, WlListProofs

Sound(w) ==
  /\ w \in WMState
  /\ IsInjective(w.windows)
  /\ \A x \in Window : w.parent[x] \in Live(w) \cup {NULL}
  /\ {w.focused, w.interacted, w.pending_float_focus} \subseteq Live(w) \cup {NULL}

\* v is sound and has the windows of w, in whatever order.
SameWindows(w, v) == Sound(v) /\ Live(v) = Live(w)

-----------------------------------------------------------------------------
(* Single assignments.                                                     *)

LEMMA IndexFinite ==
  ASSUME NEW n \in Nat
  PROVE  IsFiniteSet(1..n)
<1>1. 1 \in Int /\ n \in Int
  OBVIOUS
<1> QED BY <1>1, FS_Interval

LEMMA LiveWindows ==
  ASSUME NEW w, Sound(w)
  PROVE  /\ Live(w) \subseteq Window /\ NULL \notin Live(w)
         /\ w.windows \in Seq(Window)
         /\ DOMAIN w.windows = 1..Len(w.windows) /\ Len(w.windows) \in Nat
         /\ \A i \in DOMAIN w.windows : w.windows[i] \in Live(w)
<1>1. w.windows \in Seq(Window)
  BY DEF Sound, WMState
<1>2. Live(w) \subseteq Window
  BY <1>1, RangeOfSeq DEF Live
<1>3. \A i \in DOMAIN w.windows : w.windows[i] \in Live(w)
  BY DEF Live, Range
<1> QED BY <1>1, <1>2, <1>3, LenProperties, WindowAssumption DEF WindowAssumption

LEMMA Relisted ==
  ASSUME NEW w, Sound(w), NEW l \in Seq(Window), IsInjective(l), Range(l) = Live(w)
  PROVE  SameWindows(w, [w EXCEPT !.windows = l])
<1> DEFINE v == [w EXCEPT !.windows = l]
<1>1. v \in WMState
  BY DEF Sound, WMState
<1>2. /\ v.windows = l /\ v.parent = w.parent /\ v.focused = w.focused
      /\ v.interacted = w.interacted /\ v.pending_float_focus = w.pending_float_focus
  BY DEF Sound, WMState
<1>3. Live(v) = Live(w)
  BY <1>2 DEF Live
<1> QED BY <1>1, <1>2, <1>3 DEF Sound, SameWindows

LEMMA SamePointers ==
  ASSUME NEW w, Sound(w), NEW v \in WMState,
         v.windows = w.windows, v.parent = w.parent, v.focused = w.focused,
         v.interacted = w.interacted, v.pending_float_focus = w.pending_float_focus
  PROVE  SameWindows(w, v)
BY DEF Sound, SameWindows, Live

LEMMA Targeted ==
  ASSUME NEW w, Sound(w), NEW n \in Nat, NEW m \in BOOLEAN
  PROVE  /\ SameWindows(w, [w EXCEPT !.target_index = n])
         /\ SameWindows(w, [w EXCEPT !.maximized = m])
         /\ SameWindows(w, [w EXCEPT !.target_index = n, !.maximized = m])
         /\ SameWindows(w, Aim(w, n))
<1>1. SameWindows(w, [w EXCEPT !.target_index = n])
  <2> DEFINE v == [w EXCEPT !.target_index = n]
  <2>1. /\ v \in WMState
        /\ v.windows = w.windows /\ v.parent = w.parent /\ v.focused = w.focused
        /\ v.interacted = w.interacted /\ v.pending_float_focus = w.pending_float_focus
    BY DEF Sound, WMState
  <2> QED BY <2>1, SamePointers
<1>2. ASSUME NEW u, Sound(u), NEW p \in BOOLEAN
      PROVE  SameWindows(u, [u EXCEPT !.maximized = p])
  <2> DEFINE v == [u EXCEPT !.maximized = p]
  <2>1. /\ v \in WMState
        /\ v.windows = u.windows /\ v.parent = u.parent /\ v.focused = u.focused
        /\ v.interacted = u.interacted /\ v.pending_float_focus = u.pending_float_focus
    BY <1>2 DEF Sound, WMState
  <2> QED BY <1>2, <2>1, SamePointers
<1>3. \A p \in BOOLEAN : SameWindows(w, [w EXCEPT !.target_index = n, !.maximized = p])
  BY <1>1, <1>2 DEF SameWindows
<1> QED BY <1>1, <1>2, <1>3 DEF Aim

LEMMA FocusDirtied ==
  ASSUME NEW w, Sound(w), NEW b \in BOOLEAN
  PROVE  /\ SameWindows(w, [w EXCEPT !.focus_dirty = b])
         /\ SameWindows(w, [w EXCEPT !.manage_dirty = b])
<1> DEFINE u == [w EXCEPT !.focus_dirty = b]
           v == [w EXCEPT !.manage_dirty = b]
<1>1. /\ u \in WMState
      /\ u.windows = w.windows /\ u.parent = w.parent /\ u.focused = w.focused
      /\ u.interacted = w.interacted /\ u.pending_float_focus = w.pending_float_focus
  BY DEF Sound, WMState
<1>2. /\ v \in WMState
      /\ v.windows = w.windows /\ v.parent = w.parent /\ v.focused = w.focused
      /\ v.interacted = w.interacted /\ v.pending_float_focus = w.pending_float_focus
  BY DEF Sound, WMState
<1> QED BY <1>1, <1>2, SamePointers

LEMMA SameWindowsTrans ==
  ASSUME NEW u, NEW v, NEW w, SameWindows(u, v), SameWindows(v, w)
  PROVE  SameWindows(u, w)
BY DEF SameWindows

-----------------------------------------------------------------------------
(* Cards and the walks over the list.                                      *)

LEMMA CardList ==
  ASSUME NEW w, Sound(w)
  PROVE  /\ Cards(w) \in Seq(Window) /\ IsInjective(Cards(w))
         /\ Range(Cards(w)) \subseteq Live(w)
         /\ window_count(w) \in Nat /\ visible_window_count(w) \in Nat
         /\ visible_window_count(w) <= window_count(w)
<1> DEFINE I == {i \in DOMAIN w.windows : IsCard(w, w.windows[i])}
           J == {i \in DOMAIN w.windows : IsShown(w, w.windows[i])}
<1>1. w.windows \in Seq(Window) /\ IsInjective(w.windows)
  BY LiveWindows DEF Sound
<1>2. I \subseteq DOMAIN w.windows /\ J \subseteq I
  BY DEF IsShown
<1> HIDE DEF I, J
<1>3. /\ At(w.windows, I) \in Seq(Window) /\ IsInjective(At(w.windows, I))
      /\ Range(At(w.windows, I)) = {w.windows[i] : i \in I}
      /\ IsFiniteSet(I) /\ Len(At(w.windows, I)) = Cardinality(I)
  BY <1>1, <1>2, AtProperties
<1>4. Len(At(w.windows, J)) = Cardinality(J)
  BY <1>1, <1>2, AtProperties
<1>5. Cardinality(I) \in Nat /\ Cardinality(J) \in Nat /\ Cardinality(J) <= Cardinality(I)
  BY <1>2, <1>3, FS_Subset, FS_CardinalityType
<1>6. {w.windows[i] : i \in I} \subseteq Live(w)
  BY <1>2, LiveWindows
<1> QED BY <1>3, <1>4, <1>5, <1>6
        DEF Cards, Shown, window_count, visible_window_count, I, J

LEMMA CardAt ==
  ASSUME NEW w, Sound(w), NEW n \in Nat
  PROVE  /\ window_at(w, n) \in Live(w) \cup {NULL}
         /\ n < window_count(w) => window_at(w, n) \in Live(w)
         /\ \A m \in Nat : m < window_count(w) /\ n < window_count(w) /\ m # n
                             => window_at(w, m) # window_at(w, n)
<1>1. /\ Cards(w) \in Seq(Window) /\ IsInjective(Cards(w))
      /\ Range(Cards(w)) \subseteq Live(w) /\ window_count(w) \in Nat
  BY CardList
<1>2. DOMAIN Cards(w) = 1..window_count(w)
  BY <1>1, LenProperties DEF window_count
<1>3. \A k \in Nat : k < window_count(w) =>
        /\ k + 1 \in DOMAIN Cards(w) /\ window_at(w, k) = Cards(w)[k + 1]
        /\ window_at(w, k) \in Live(w)
  <2> SUFFICES ASSUME NEW k \in Nat, k < window_count(w)
               PROVE  /\ k + 1 \in DOMAIN Cards(w) /\ window_at(w, k) = Cards(w)[k + 1]
                      /\ window_at(w, k) \in Live(w)
    OBVIOUS
  <2>1. k + 1 \in DOMAIN Cards(w)
    BY <1>1, <1>2
  <2>2. window_at(w, k) = Cards(w)[k + 1]
    BY DEF window_at
  <2> QED BY <1>1, <2>1, <2>2 DEF Range
<1>4. ASSUME NEW m \in Nat, m < window_count(w), n < window_count(w), m # n
      PROVE  window_at(w, m) # window_at(w, n)
  <2>1. m + 1 # n + 1 /\ m + 1 \in DOMAIN Cards(w) /\ n + 1 \in DOMAIN Cards(w)
    BY <1>3, <1>4
  <2> QED BY <1>1, <1>3, <1>4, <2>1 DEF IsInjective
<1>5. ~(n < window_count(w)) => window_at(w, n) = NULL
  BY DEF window_at
<1> QED BY <1>3, <1>4, <1>5

LEMMA CardIndex ==
  ASSUME NEW w, Sound(w), NEW x
  PROVE  window_index(w, x) \in Nat \cup {-1}
<1> DEFINE at == {n \in DOMAIN Cards(w) : Cards(w)[n] = x}
<1>1. DOMAIN Cards(w) = 1..window_count(w) /\ window_count(w) \in Nat
  BY CardList, LenProperties DEF window_count
<1>2. at \subseteq Nat /\ IsFiniteSet(at)
  <2>1. at \in SUBSET (1..window_count(w)) /\ IsFiniteSet(1..window_count(w))
    BY <1>1, IndexFinite
  <2> QED BY <1>1, <2>1, FS_Subset
<1>3. at # {} => Min(at) - 1 \in Nat
  <2> HAVE at # {}
  <2>1. Min(at) \in at
    BY <1>2, LeastIndex
  <2>2. Min(at) \in 1..window_count(w)
    BY <1>1, <2>1
  <2> QED BY <1>1, <2>2
<1>4. window_index(w, x) = IF at = {} THEN -1 ELSE Min(at) - 1
  BY DEF window_index
<1> HIDE DEF at
<1> QED BY <1>3, <1>4

LEMMA Target ==
  ASSUME NEW w, Sound(w)
  PROVE  /\ target_window(w) \in Live(w) \cup {NULL}
         /\ target_window(w) # NULL =>
              /\ w.target_index < visible_window_count(w)
              /\ target_window(w) = window_at(w, w.target_index)
              /\ target_window(w) \in Live(w)
<1>1. w.target_index \in Nat
  BY DEF Sound, WMState
<1>2. visible_window_count(w) \in Nat
  BY CardList
<1> QED BY <1>1, <1>2, CardAt DEF target_window

LEMMA RegionEnd ==
  ASSUME NEW w, Sound(w)
  PROVE  visible_region_end(w) \in 1..Len(w.windows) + 1
<1> DEFINE tail == {i \in DOMAIN w.windows : ~IsShown(w, w.windows[i])}
<1>1. DOMAIN w.windows = 1..Len(w.windows) /\ Len(w.windows) \in Nat
  BY LiveWindows
<1>2. tail \in SUBSET (1..Len(w.windows))
  BY <1>1
<1>3. IsFiniteSet(tail) /\ tail \subseteq Nat
  <2>1. IsFiniteSet(1..Len(w.windows))
    BY <1>1, IndexFinite
  <2> QED BY <1>1, <1>2, <2>1, FS_Subset
<1>4. tail # {} => Min(tail) \in 1..Len(w.windows)
  BY <1>2, <1>3, LeastIndex
<1>5. visible_region_end(w) = IF tail = {} THEN Len(w.windows) + 1 ELSE Min(tail)
  BY DEF visible_region_end
<1> HIDE DEF tail
<1> QED BY <1>1, <1>4, <1>5

-----------------------------------------------------------------------------
(* Moving a window within the list, and the operations of the deck.        *)

LEMMA MoveFirst ==
  ASSUME NEW w, Sound(w), NEW x \in Live(w)
  PROVE  SameWindows(w, move_first(w, x))
<1>1. w.windows \in Seq(Window) /\ IsInjective(w.windows) /\ x \in Window
  BY LiveWindows DEF Sound
<1> DEFINE rest == Without(w.windows, x)
<1>2. rest \in Seq(Window) /\ IsInjective(rest) /\ Range(rest) = Live(w) \ {x}
  BY <1>1, WithoutProperties DEF Live
<1> HIDE DEF rest
<1>3. <<x>> \o rest \in Seq(Window) /\ IsInjective(<<x>> \o rest) /\ Range(<<x>> \o rest) = Live(w)
  <2>1. x \notin Range(rest) /\ Range(rest) \cup {x} = Live(w)
    BY <1>2
  <2> DEFINE l == <<x>> \o rest
  <2>3. /\ l \in Seq(Window) /\ Range(l) = Range(rest) \cup {x}
        /\ IsInjective(rest) /\ x \notin Range(rest) => IsInjective(l)
    BY <1>1, <1>2, ConsProperties
  <2> HIDE DEF l
  <2>4. l \in Seq(Window) /\ IsInjective(l) /\ Range(l) = Live(w)
    BY <1>2, <2>1, <2>3, Zenon
  <2> QED BY <2>4 DEF l
<1> QED BY <1>3, Relisted DEF move_first, rest

LEMMA MoveLast ==
  ASSUME NEW w, Sound(w), NEW x \in Live(w)
  PROVE  SameWindows(w, move_last(w, x))
<1>1. w.windows \in Seq(Window) /\ IsInjective(w.windows) /\ x \in Window
  BY LiveWindows DEF Sound
<1> DEFINE rest == Without(w.windows, x)
<1>2. rest \in Seq(Window) /\ IsInjective(rest) /\ Range(rest) = Live(w) \ {x}
  BY <1>1, WithoutProperties DEF Live
<1> HIDE DEF rest
<1>3. Append(rest, x) \in Seq(Window) /\ IsInjective(Append(rest, x)) /\ Range(Append(rest, x)) = Live(w)
  <2>1. x \notin Range(rest) /\ Range(rest) \cup {x} = Live(w)
    BY <1>2
  <2> DEFINE l == Append(rest, x)
  <2>3. /\ l \in Seq(Window) /\ Range(l) = Range(rest) \cup {x}
        /\ IsInjective(rest) /\ x \notin Range(rest) => IsInjective(l)
    BY <1>1, <1>2, AppendList
  <2> HIDE DEF l
  <2>4. l \in Seq(Window) /\ IsInjective(l) /\ Range(l) = Live(w)
    BY <1>2, <2>1, <2>3, Zenon
  <2> QED BY <2>4 DEF l
<1> QED BY <1>3, Relisted DEF move_last, rest

LEMMA Reinserted ==
  ASSUME NEW w, Sound(w), NEW x \in Live(w), NEW i \in 1..Len(Without(w.windows, x)) + 1
  PROVE  SameWindows(w, [w EXCEPT !.windows = InsertAt(Without(w.windows, x), i, x)])
<1>1. w.windows \in Seq(Window) /\ IsInjective(w.windows) /\ x \in Window
  BY LiveWindows DEF Sound
<1> DEFINE rest == Without(w.windows, x)
<1>2. rest \in Seq(Window) /\ IsInjective(rest) /\ Range(rest) = Live(w) \ {x}
  BY <1>1, WithoutProperties DEF Live
<1> HIDE DEF rest
<1>3. /\ InsertAt(rest, i, x) \in Seq(Window)
      /\ IsInjective(InsertAt(rest, i, x))
      /\ Range(InsertAt(rest, i, x)) = Live(w)
  <2>1. x \notin Range(rest) /\ Range(rest) \cup {x} = Live(w)
    BY <1>2
  <2>2. i \in 1..Len(rest) + 1
    BY DEF rest
  <2> DEFINE l == InsertAt(rest, i, x)
  <2>3. /\ l \in Seq(Window) /\ Range(l) = Range(rest) \cup {x}
        /\ IsInjective(rest) /\ x \notin Range(rest) => IsInjective(l)
    BY <1>1, <1>2, <2>2, InsertProperties
  <2> HIDE DEF l
  <2>4. l \in Seq(Window) /\ IsInjective(l) /\ Range(l) = Live(w)
    BY <1>2, <2>1, <2>3, Zenon
  <2> QED BY <2>4 DEF l
<1> QED BY <1>3, Relisted DEF rest

LEMMA MoveAfter ==
  ASSUME NEW w, Sound(w), NEW x \in Live(w), NEW y \in Live(w), x # y
  PROVE  SameWindows(w, move_after(w, x, y))
<1> DEFINE rest == Without(w.windows, x)
           i == CHOOSE i \in DOMAIN rest : rest[i] = y
<1>1. rest \in Seq(Window) /\ Range(rest) = Live(w) \ {x}
  BY LiveWindows, WithoutProperties DEF Live
<1>2. DOMAIN rest = 1..Len(rest) /\ Len(rest) \in Nat
  BY <1>1, LenProperties
<1>3. \E k \in DOMAIN rest : rest[k] = y
  BY <1>1 DEF Range
<1>4. i \in DOMAIN rest
  BY <1>3
<1>5. 1 + i \in 1..Len(rest) + 1
  BY <1>2, <1>4
<1> QED BY <1>5, Reinserted DEF move_after

LEMMA MoveToRegionEnd ==
  ASSUME NEW w, Sound(w), NEW x \in Live(w)
  PROVE  SameWindows(w, move_to_region_end(w, x))
<1> DEFINE l == Without(w.windows, x)
           rest == [w EXCEPT !.windows = l]
           tail == {i \in DOMAIN rest.windows : ~IsShown(rest, rest.windows[i])}
<1>1. l \in Seq(Window)
  BY LiveWindows, WithoutProperties
<1>2. rest.windows = l
  BY DEF Sound, WMState
<1>3. DOMAIN l = 1..Len(l) /\ Len(l) \in Nat
  BY <1>1, LenProperties
<1>4. tail \in SUBSET (1..Len(l))
  BY <1>2, <1>3
<1>5. IsFiniteSet(tail) /\ tail \subseteq Nat
  <2>1. IsFiniteSet(1..Len(l))
    BY <1>3, IndexFinite
  <2> QED BY <1>3, <1>4, <2>1, FS_Subset
<1>6. tail # {} => Min(tail) \in 1..Len(l)
  BY <1>4, <1>5, LeastIndex
<1>7. visible_region_end(rest) = IF tail = {} THEN Len(l) + 1 ELSE Min(tail)
  BY <1>2 DEF visible_region_end
<1> HIDE DEF tail
<1>8. visible_region_end(rest) \in 1..Len(l) + 1
  BY <1>3, <1>6, <1>7
<1>9. move_to_region_end(w, x) = [w EXCEPT !.windows = InsertAt(l, visible_region_end(rest), x)]
  BY <1>2 DEF move_to_region_end
<1> HIDE DEF rest
<1> QED BY <1>8, <1>9, Reinserted

LEMMA ClampTarget ==
  ASSUME NEW w, Sound(w)
  PROVE  SameWindows(w, clamp_target(w))
<1>1. SameWindows(w, w)
  BY DEF SameWindows
<1>2. /\ SameWindows(w, [w EXCEPT !.target_index = 0, !.maximized = FALSE])
      /\ SameWindows(w, [w EXCEPT !.target_index = 0])
  BY Targeted
<1> QED BY <1>1, <1>2 DEF clamp_target

LEMMA AimSame ==
  ASSUME NEW w, NEW v, SameWindows(w, v), NEW n \in Nat
  PROVE  SameWindows(w, Aim(v, n))
BY Targeted, SameWindowsTrans DEF SameWindows

LEMMA SwapMainDeck ==
  ASSUME NEW w, Sound(w)
  PROVE  SameWindows(w, md_swap_main_deck(w))
<1>1. CASE visible_window_count(w) < 2
  BY <1>1 DEF md_swap_main_deck, SameWindows
<1>2. CASE ~(visible_window_count(w) < 2)
  <2>1. window_at(w, 1) \in Live(w)
    BY <1>2, CardList, CardAt
  <2>2. SameWindows(w, move_first(w, window_at(w, 1)))
    BY <2>1, MoveFirst
  <2> QED BY <1>2, <2>2, AimSame DEF md_swap_main_deck
<1> QED BY <1>1, <1>2

LEMMA DeckNext ==
  ASSUME NEW w, Sound(w)
  PROVE  SameWindows(w, md_deck_next(w))
<1>1. CASE visible_window_count(w) <= 2
  BY <1>1 DEF md_deck_next, SameWindows
<1>2. CASE ~(visible_window_count(w) <= 2)
  <2>1. window_at(w, 1) \in Live(w)
    BY <1>2, CardList, CardAt
  <2>2. SameWindows(w, move_to_region_end(w, window_at(w, 1)))
    BY <2>1, MoveToRegionEnd
  <2> QED BY <1>2, <2>2, AimSame DEF md_deck_next
<1> QED BY <1>1, <1>2

LEMMA DeckPrev ==
  ASSUME NEW w, Sound(w)
  PROVE  SameWindows(w, md_deck_prev(w))
<1>1. CASE visible_window_count(w) <= 2
  BY <1>1 DEF md_deck_prev, SameWindows
<1>2. CASE ~(visible_window_count(w) <= 2)
  <2> DEFINE last == visible_window_count(w) - 1
  <2>1. last \in Nat /\ last < window_count(w) /\ 0 < window_count(w) /\ last # 0
    BY <1>2, CardList
  <2> HIDE DEF last
  <2>2. /\ window_at(w, last) \in Live(w) /\ window_at(w, 0) \in Live(w)
        /\ window_at(w, last) # window_at(w, 0)
    BY <2>1, CardAt
  <2>3. SameWindows(w, move_after(w, window_at(w, last), window_at(w, 0)))
    BY <2>2, MoveAfter
  <2> QED BY <1>2, <2>3, AimSame DEF md_deck_prev, last
<1> QED BY <1>1, <1>2

LEMMA SendTargetToDeckBottom ==
  ASSUME NEW w, Sound(w)
  PROVE  SameWindows(w, md_send_target_to_deck_bottom(w))
<1> DEFINE target == target_window(w)
           count == visible_window_count(w)
           idle == count <= 1 \/ target = NULL \/ (w.target_index = 1 /\ count <= 2)
<1>1. CASE idle
  BY <1>1 DEF md_send_target_to_deck_bottom, SameWindows
<1>2. CASE ~idle
  <2>1. target \in Live(w) /\ target = window_at(w, w.target_index)
    BY <1>2, Target
  <2>2. count \in Nat /\ count <= window_count(w) /\ window_count(w) \in Nat
    BY CardList
  <2>3. CASE w.target_index = 0
    <3>1. window_at(w, 1) \in Live(w) /\ window_at(w, 1) # target
      <4>1. 1 < window_count(w) /\ 0 < window_count(w)
        BY <1>2, <2>2
      <4> QED BY <2>1, <2>3, <4>1, CardAt
    <3>2. SameWindows(w, move_after(w, target, window_at(w, 1)))
      BY <2>1, <3>1, MoveAfter
    <3>3. md_send_target_to_deck_bottom(w) = Aim(move_after(w, target, window_at(w, 1)), 1)
      BY <1>2, <2>3 DEF md_send_target_to_deck_bottom
    <3> QED BY <3>2, <3>3, AimSame
  <2>4. CASE w.target_index # 0
    <3> DEFINE v == move_to_region_end(w, target)
    <3>1. SameWindows(w, v)
      BY <2>1, MoveToRegionEnd
    <3> HIDE DEF v
    <3>2. SameWindows(v, clamp_target(v))
      BY <3>1, ClampTarget DEF SameWindows
    <3>3. SameWindows(clamp_target(v), [clamp_target(v) EXCEPT !.maximized = FALSE])
      BY <3>2, Targeted DEF SameWindows
    <3>4. md_send_target_to_deck_bottom(w) = [clamp_target(v) EXCEPT !.maximized = FALSE]
      BY <1>2, <2>4 DEF md_send_target_to_deck_bottom, v
    <3> QED BY <3>1, <3>2, <3>3, <3>4, SameWindowsTrans
  <2> QED BY <2>3, <2>4
<1> QED BY <1>1, <1>2

LEMMA PromoteTargetToMain ==
  ASSUME NEW w, Sound(w)
  PROVE  SameWindows(w, md_promote_target_to_main(w))
<1>1. CASE target_window(w) = NULL \/ w.target_index = 0
  BY <1>1 DEF md_promote_target_to_main, SameWindows
<1>2. CASE ~(target_window(w) = NULL \/ w.target_index = 0)
  <2>1. target_window(w) \in Live(w)
    BY <1>2, Target
  <2>2. SameWindows(w, move_first(w, target_window(w)))
    BY <2>1, MoveFirst
  <2> QED BY <1>2, <2>2, AimSame DEF md_promote_target_to_main
<1> QED BY <1>1, <1>2

-----------------------------------------------------------------------------
(* Focus, layout and changes of a window's kind.                           *)

LEMMA LivePointers ==
  ASSUME NEW w, Sound(w), NEW v \in WMState,
         v.windows = w.windows,
         \A x \in Window : v.parent[x] \in Live(w) \cup {NULL},
         {v.focused, v.interacted, v.pending_float_focus} \subseteq Live(w) \cup {NULL}
  PROVE  SameWindows(w, v)
BY DEF Sound, SameWindows, Live

LEMMA FocusLive ==
  ASSUME NEW w, Sound(w)
  PROVE  FocusOf(w) \in Live(w) \cup {NULL}
<1> DEFINE over == {i \in DOMAIN w.windows :
                      /\ w.parent[w.windows[i]] # NULL
                      /\ window_is_really_visible(w, w.windows[i])
                      /\ top_window(w, w.windows[i]) = target_window(w)}
<1>1. DOMAIN w.windows = 1..Len(w.windows) /\ Len(w.windows) \in Nat
  BY LiveWindows
<1>2. over \in SUBSET (1..Len(w.windows))
  BY <1>1
<1>3. FocusOf(w) = IF target_window(w) = NULL \/ over = {} THEN target_window(w)
                   ELSE w.windows[Max(over)]
  BY DEF FocusOf
<1> HIDE DEF over
<1>4. IsFiniteSet(over) /\ over \subseteq Nat
  <2>1. IsFiniteSet(1..Len(w.windows))
    BY <1>1, IndexFinite
  <2>2. IsFiniteSet(over)
    BY <1>2, <2>1, FS_Subset
  <2> QED BY <1>1, <1>2, <2>2
<1>5. over # {} => Max(over) \in DOMAIN w.windows
  BY <1>1, <1>2, <1>4, GreatestIndex
<1> QED BY <1>3, <1>5, Target, LiveWindows

LEMMA FocusTargetOnSeats ==
  ASSUME NEW w, Sound(w)
  PROVE  SameWindows(w, focus_target_on_seats(w))
<1> DEFINE c == clamp_target(w)
<1>1. SameWindows(w, c)
  BY ClampTarget
<1> HIDE DEF c
<1>2. Sound(c)
  BY <1>1 DEF SameWindows
<1>3. SameWindows(c, [c EXCEPT !.focused = FocusOf(c)])
  <2> DEFINE p == FocusOf(c)
             v == [c EXCEPT !.focused = p]
  <2>1. p \in Live(c) \cup {NULL} /\ p \in Pointer
    BY <1>2, FocusLive, LiveWindows DEF Pointer
  <2> HIDE DEF p
  <2>2. /\ v \in WMState /\ v.windows = c.windows /\ v.parent = c.parent /\ v.focused = p
        /\ v.interacted = c.interacted /\ v.pending_float_focus = c.pending_float_focus
    BY <1>2, <2>1 DEF Sound, WMState
  <2>3. SameWindows(c, v)
    BY <1>2, <2>1, <2>2, LivePointers DEF Sound
  <2> QED BY <2>3 DEF p
<1>4. focus_target_on_seats(w) = c \/ focus_target_on_seats(w) = [c EXCEPT !.focused = FocusOf(c)]
  BY DEF focus_target_on_seats, c
<1> QED BY <1>1, <1>3, <1>4, SameWindowsTrans

LEMMA ManageLayout ==
  ASSUME NEW w, Sound(w)
  PROVE  SameWindows(w, window_manage_layout(w))
<1> DEFINE shown == IF w.maximized THEN {target_window(w)} ELSE MainAndDeck(w)
           tiled == (shown \ w.fullscreen) \cap Unruly
           tile == [x \in Window |-> IF x \in tiled /\ w.tile[x] = "none"
                                     THEN "proposed" ELSE w.tile[x]]
           v == [w EXCEPT !.tile = tile]
<1>1. v = window_manage_layout(w)
  BY DEF window_manage_layout
<1>2. tile \in [Window -> TileReply]
  <2> HIDE DEF tiled
  <2>1. w.tile \in [Window -> TileReply]
    BY DEF Sound, WMState
  <2> QED BY <2>1 DEF TileReply
<1> HIDE DEF tile
<1>3. /\ v \in WMState
      /\ v.windows = w.windows /\ v.parent = w.parent /\ v.focused = w.focused
      /\ v.interacted = w.interacted /\ v.pending_float_focus = w.pending_float_focus
  BY <1>2 DEF Sound, WMState
<1> QED BY <1>1, <1>3, SamePointers

LEMMA DesignateFloating ==
  ASSUME NEW w, Sound(w), NEW x \in Live(w), NEW steal_focus \in BOOLEAN
  PROVE  SameWindows(w, window_designate_floating(w, x, steal_focus))
<1> DEFINE u == move_last(w, x)
           af == IF steal_focus THEN u.autofloat \ {x} ELSE u.autofloat \cup {x}
           pf == IF steal_focus THEN x ELSE u.pending_float_focus
           v == [u EXCEPT !.floating = @ \cup {x}, !.autofloat = af,
                          !.pending_float_focus = pf, !.manage_dirty = TRUE]
<1>1. SameWindows(w, u) /\ x \in Window
  BY MoveLast, LiveWindows
<1>2. window_designate_floating(w, x, steal_focus) = v \/ window_designate_floating(w, x, steal_focus) = w
  BY DEF window_designate_floating
<1> HIDE DEF u
<1>3. Sound(u) /\ x \in Live(u)
  BY <1>1 DEF SameWindows
<1>4. af \in SUBSET Window /\ pf \in Pointer /\ pf \in Live(u) \cup {NULL}
  BY <1>1, <1>3 DEF Sound, WMState, Pointer
<1> HIDE DEF af, pf
<1>5. /\ v \in WMState /\ v.windows = u.windows /\ v.parent = u.parent /\ v.focused = u.focused
      /\ v.interacted = u.interacted /\ v.pending_float_focus = pf
  BY <1>1, <1>3, <1>4 DEF Sound, WMState
<1>6. SameWindows(u, v)
  BY <1>3, <1>4, <1>5, LivePointers DEF Sound
<1> QED BY <1>1, <1>2, <1>6, SameWindowsTrans DEF SameWindows

\* Destroying D leaves no pointer to a window of D.
LEMMA DestroyClosed ==
  ASSUME NEW w, Sound(w), NEW D
  PROVE  /\ Sound(window_destroy_closed(w, D))
         /\ Live(window_destroy_closed(w, D)) = Live(w) \ D
<1> DEFINE Nulled(p) == IF p \in D THEN NULL ELSE p
           I == {i \in DOMAIN w.windows : w.windows[i] \notin D}
           list == At(w.windows, I)
           parent == [x \in Window |-> IF x \in D THEN NULL ELSE Nulled(w.parent[x])]
           size == [x \in Window |-> IF x \in D THEN 0 ELSE w.size[x]]
           tile == [x \in Window |-> IF x \in D THEN "none" ELSE w.tile[x]]
           title == [x \in Window |-> IF x \in D THEN "none" ELSE w.title[x]]
           implicit == {x \in w.implicit_parent \ D : w.parent[x] \notin D}
           pf == Nulled(w.pending_float_focus)
           fo == Nulled(w.focused)
           ia == Nulled(w.interacted)
           hidden == w.bar_fullscreen /\ D \cap w.fullscreen = {}
           v == window_destroy_closed(w, D)
<1>1. list \in Seq(Window) /\ IsInjective(list) /\ Range(list) = Live(w) \ D
  <2>1. I \subseteq DOMAIN w.windows
    OBVIOUS
  <2>2. {w.windows[i] : i \in I} = Live(w) \ D
    BY DEF Live, Range
  <2> HIDE DEF I
  <2> QED BY <2>1, <2>2, LiveWindows, AtProperties DEF Sound
<1>2. parent \in [Window -> Pointer] /\ \A x \in Window : parent[x] \in (Live(w) \ D) \cup {NULL}
  BY DEF Sound, WMState, Pointer
<1>3. /\ size \in [Window -> Size \cup {0}] /\ tile \in [Window -> TileReply]
      /\ title \in [Window -> Title] /\ implicit \subseteq Window
  BY DEF Sound, WMState, TileReply, Title
<1>4. v = [w EXCEPT !.windows = list, !.parent = parent,
                    !.implicit_parent = implicit, !.named = @ \ D, !.title = title,
                    !.floating = @ \ D, !.autofloat = @ \ D, !.minimized = @ \ D,
                    !.fullscreen = @ \ D, !.closed = @ \ D,
                    !.size = size, !.tile = tile,
                    !.pending_float_focus = pf, !.focused = fo, !.interacted = ia,
                    !.bar_fullscreen = hidden]
  BY DEF window_destroy_closed, Drop
<1>10. hidden \in BOOLEAN
  OBVIOUS
<1>11. {pf, fo, ia} \subseteq (Live(w) \ D) \cup {NULL} /\ {pf, fo, ia} \subseteq Pointer
  BY DEF Sound, WMState, Pointer
<1> HIDE DEF list, parent, size, tile, title, implicit, v, pf, fo, ia, hidden
<1>5. v \in WMState
  BY <1>1, <1>2, <1>3, <1>4, <1>10, <1>11 DEF Sound, WMState
<1>6. /\ v.windows = list /\ v.parent = parent
      /\ v.focused = fo /\ v.interacted = ia /\ v.pending_float_focus = pf
  BY <1>4 DEF Sound, WMState
<1>7. Live(v) = Live(w) \ D
  BY <1>1, <1>6 DEF Live
<1>8. {v.focused, v.interacted, v.pending_float_focus} \subseteq Live(v) \cup {NULL}
  BY <1>11, <1>6, <1>7
<1>9. Sound(v)
  BY <1>1, <1>2, <1>5, <1>6, <1>7, <1>8 DEF Sound
<1> QED BY <1>7, <1>9 DEF v

LEMMA ImplicitParenting ==
  ASSUME NEW w, Sound(w)
  PROVE  SameWindows(w, maybe_apply_implicit_parenting(w))
<1> DEFINE Candidate(i) == /\ w.windows[i] \in w.named \ w.floating
                           /\ w.parent[w.windows[i]] = NULL
           parents == {i \in DOMAIN w.windows : Candidate(i) /\ w.title[w.windows[i]] = "parent"}
           children == {i \in DOMAIN w.windows : Candidate(i) /\ w.title[w.windows[i]] = "other"}
           adopted == {w.windows[i] : i \in children}
           list == At(w.windows, DOMAIN w.windows \ children) \o At(w.windows, children)
           above == w.windows[Min(parents)]
           parent == [x \in Window |-> IF x \in adopted THEN above ELSE w.parent[x]]
           v == [w EXCEPT !.windows = list, !.parent = parent,
                          !.implicit_parent = @ \cup adopted, !.manage_dirty = TRUE]
<1>1. maybe_apply_implicit_parenting(w) =
        IF parents = {} \/ children = {} THEN w ELSE v
  BY DEF maybe_apply_implicit_parenting
<1>2. parents \subseteq DOMAIN w.windows /\ children \subseteq DOMAIN w.windows
  OBVIOUS
<1>3. adopted \subseteq Live(w) /\ adopted \subseteq Window
  BY LiveWindows
<1> HIDE DEF parents, children, adopted
<1>4. list \in Seq(Window) /\ IsInjective(list) /\ Range(list) = Live(w)
  BY <1>2, LiveWindows, TailProperties DEF Sound, Live
<1>5. parents # {} => above \in Live(w)
  <2> HAVE parents # {}
  <2>1. DOMAIN w.windows = 1..Len(w.windows) /\ Len(w.windows) \in Nat
    BY LiveWindows
  <2>2. parents \subseteq Nat /\ IsFiniteSet(parents)
    <3>1. parents \in SUBSET (1..Len(w.windows))
      BY <1>2, <2>1
    <3>2. IsFiniteSet(1..Len(w.windows))
      BY <2>1, IndexFinite
    <3>3. IsFiniteSet(parents)
      BY <3>1, <3>2, FS_Subset
    <3> QED BY <2>1, <3>1, <3>3
  <2>3. Min(parents) \in DOMAIN w.windows
    BY <1>2, <2>2, LeastIndex
  <2> QED BY <2>3, LiveWindows
<1> HIDE DEF list, above
<1>6. parents # {} => SameWindows(w, v)
  <2> HAVE parents # {}
  <2>1. above \in Live(w) /\ above \in Window
    BY <1>5, LiveWindows
  <2>2. parent \in [Window -> Pointer] /\ \A x \in Window : parent[x] \in Live(w) \cup {NULL}
    BY <2>1 DEF Sound, WMState, Pointer
  <2> HIDE DEF parent
  <2>3. /\ v \in WMState /\ v.windows = list /\ v.parent = parent /\ v.focused = w.focused
        /\ v.interacted = w.interacted /\ v.pending_float_focus = w.pending_float_focus
    BY <1>3, <1>4, <2>2 DEF Sound, WMState
  <2>4. Live(v) = Live(w)
    BY <1>4, <2>3 DEF Live
  <2> HIDE DEF v
  <2> QED BY <1>4, <2>2, <2>3, <2>4 DEF Sound, SameWindows
<1> HIDE DEF v
<1> QED BY <1>1, <1>6 DEF SameWindows

LEMMA ImplicitParentingFor ==
  ASSUME NEW w, Sound(w), NEW x, NEW relevant
  PROVE  SameWindows(w, maybe_apply_implicit_parenting_for(w, x, relevant))
BY ImplicitParenting DEF maybe_apply_implicit_parenting_for, SameWindows

-----------------------------------------------------------------------------
(* The steps of a manage sequence.                                         *)

LEMMA ActivateFromTaskbar ==
  ASSUME NEW w, Sound(w), NEW x \in Live(w)
  PROVE  SameWindows(w, activate_window_from_taskbar(w, x))
<1> DEFINE idx == window_index(w, x)
<1>1. idx \in Nat \cup {-1} /\ x \in Window
  BY CardIndex, LiveWindows
<1> HIDE DEF idx
<1>2. SameWindows(w, [move_last(w, x) EXCEPT !.minimized = @ \ {x}, !.focused = x])
  <2> DEFINE u == move_last(w, x)
             v == [u EXCEPT !.minimized = @ \ {x}, !.focused = x]
  <2>1. SameWindows(w, u)
    BY MoveLast
  <2> HIDE DEF u
  <2>2. Sound(u) /\ x \in Live(u)
    BY <2>1 DEF SameWindows
  <2>3. /\ v \in WMState /\ v.windows = u.windows /\ v.parent = u.parent /\ v.focused = x
        /\ v.interacted = u.interacted /\ v.pending_float_focus = u.pending_float_focus
    BY <1>1, <2>2 DEF Sound, WMState, Pointer
  <2>4. SameWindows(u, v)
    BY <2>2, <2>3, LivePointers DEF Sound
  <2> QED BY <2>1, <2>4, SameWindowsTrans DEF u
<1>3. SameWindows(w, Aim(move_first(w, x), 0))
  BY MoveFirst, AimSame
<1>4. SameWindows(w, [Aim(move_first(w, x), 0) EXCEPT !.minimized = @ \ {x}])
  <2> DEFINE u == Aim(move_first(w, x), 0)
             v == [u EXCEPT !.minimized = @ \ {x}]
  <2>1. SameWindows(w, u)
    BY <1>3
  <2> HIDE DEF u
  <2>2. Sound(u)
    BY <2>1 DEF SameWindows
  <2>3. /\ v \in WMState /\ v.windows = u.windows /\ v.parent = u.parent /\ v.focused = u.focused
        /\ v.interacted = u.interacted /\ v.pending_float_focus = u.pending_float_focus
    BY <2>2 DEF Sound, WMState
  <2>4. SameWindows(u, v)
    BY <2>2, <2>3, SamePointers
  <2> QED BY <2>1, <2>4, SameWindowsTrans DEF u
<1>5. ~(idx < 0) => SameWindows(w, Aim(w, idx))
  <2> HAVE ~(idx < 0)
  <2>1. idx \in Nat
    BY <1>1
  <2> QED BY <2>1, Targeted
<1>6. SameWindows(w, w)
  BY DEF SameWindows
<1> QED BY <1>2, <1>3, <1>4, <1>5, <1>6 DEF activate_window_from_taskbar, idx

LEMMA ApplyTaskbarActivation ==
  ASSUME NEW w, Sound(w)
  PROVE  SameWindows(w, apply_pending_taskbar_activation(w))
<1> DEFINE x == w.pending_activate
           taken == [w EXCEPT !.pending_activate = NULL]
<1>1. SameWindows(w, taken)
  <2>1. /\ taken \in WMState /\ taken.windows = w.windows /\ taken.parent = w.parent
        /\ taken.focused = w.focused /\ taken.interacted = w.interacted
        /\ taken.pending_float_focus = w.pending_float_focus
    BY DEF Sound, WMState, Pointer
  <2> QED BY <2>1, SamePointers
<1>2. apply_pending_taskbar_activation(w) =
        IF x \in Live(w) \ w.closed THEN activate_window_from_taskbar(taken, x) ELSE taken
  BY DEF apply_pending_taskbar_activation
<1> HIDE DEF taken, x
<1>3. x \in Live(w) => SameWindows(taken, activate_window_from_taskbar(taken, x))
  BY <1>1, ActivateFromTaskbar DEF SameWindows
<1> QED BY <1>1, <1>2, <1>3, SameWindowsTrans

LEMMA SeatAction ==
  ASSUME NEW w, Sound(w), NEW action
  PROVE  SameWindows(w, seat_action(w, action))
<1> DEFINE Dirty(v) == [v EXCEPT !.focus_dirty = TRUE]
           v == seat_action(w, action)
<1>1. ASSUME NEW u, SameWindows(w, u) PROVE SameWindows(w, Dirty(u))
  BY <1>1, FocusDirtied, SameWindowsTrans DEF SameWindows
<1> HIDE DEF Dirty
<1>2. SameWindows(w, w)
  BY DEF SameWindows
<1>3. /\ SameWindows(w, [w EXCEPT !.maximized = FALSE])
      /\ SameWindows(w, [w EXCEPT !.maximized = TRUE])
      /\ SameWindows(w, [w EXCEPT !.maximized = ~@])
  <2>1. (~w.maximized) \in BOOLEAN
    OBVIOUS
  <2> QED BY <2>1, Targeted
<1>4. action = "CLOSE_TARGET" => v = w \/ v = [w EXCEPT !.maximized = FALSE]
  BY DEF seat_action
<1>5. action = "TOGGLE_TARGET" => v = w \/ v = Dirty(Aim(w, 0)) \/ v = Dirty(Aim(w, 1))
  BY DEF seat_action, Dirty
<1>6. action = "SWAP_MAIN_DECK" => v = Dirty(md_swap_main_deck(w))
  BY DEF seat_action, Dirty
<1>7. action = "DECK_NEXT" => v = Dirty(md_deck_next(w))
  BY DEF seat_action, Dirty
<1>8. action = "DECK_PREV" => v = Dirty(md_deck_prev(w))
  BY DEF seat_action, Dirty
<1>9. action = "SEND_TARGET_TO_DECK_BOTTOM" => v = Dirty(md_send_target_to_deck_bottom(w))
  BY DEF seat_action, Dirty
<1>10. action = "PROMOTE_TARGET_TO_MAIN" => v = Dirty(md_promote_target_to_main(w))
  BY DEF seat_action, Dirty
<1>11. action = "MAXIMIZE_TARGET" => v = w \/ v = Dirty([w EXCEPT !.maximized = TRUE])
  BY DEF seat_action, Dirty
<1>12. action = "RESTORE" => v = w \/ v = Dirty([w EXCEPT !.maximized = FALSE])
  BY DEF seat_action, Dirty
<1>13. action = "TOGGLE_MAXIMIZE" => v = w \/ v = Dirty([w EXCEPT !.maximized = ~@])
  BY DEF seat_action, Dirty
<1>14. action \notin KeyAction => v = w
  BY DEF seat_action, KeyAction, HoldAction
<1>15. SameWindows(w, Dirty(Aim(w, 0))) /\ SameWindows(w, Dirty(Aim(w, 1)))
  BY <1>1, Targeted
<1> HIDE DEF v
<1>16. /\ action = "CLOSE_TARGET" => SameWindows(w, v)
       /\ action = "TOGGLE_TARGET" => SameWindows(w, v)
       /\ action = "MAXIMIZE_TARGET" => SameWindows(w, v)
       /\ action = "RESTORE" => SameWindows(w, v)
       /\ action = "TOGGLE_MAXIMIZE" => SameWindows(w, v)
       /\ action \notin KeyAction => SameWindows(w, v)
  BY <1>1, <1>2, <1>3, <1>4, <1>5, <1>11, <1>12, <1>13, <1>14, <1>15
<1>17. /\ action = "SWAP_MAIN_DECK" => SameWindows(w, v)
       /\ action = "DECK_NEXT" => SameWindows(w, v)
       /\ action = "DECK_PREV" => SameWindows(w, v)
       /\ action = "SEND_TARGET_TO_DECK_BOTTOM" => SameWindows(w, v)
       /\ action = "PROMOTE_TARGET_TO_MAIN" => SameWindows(w, v)
  BY <1>1, <1>6, <1>7, <1>8, <1>9, <1>10, SwapMainDeck, DeckNext, DeckPrev,
     SendTargetToDeckBottom, PromoteTargetToMain
<1> QED BY <1>16, <1>17 DEF v, KeyAction, HoldAction

LEMMA HoldFires ==
  ASSUME NEW w, Sound(w), NEW hold, NEW due
  PROVE  SameWindows(w, hold_fires(w, hold, due))
<1> DEFINE u == seat_action(w, hold)
<1>1. SameWindows(w, u)
  BY SeatAction
<1> HIDE DEF u
<1>2. SameWindows(w, clamp_target(u))
  BY <1>1, ClampTarget, SameWindowsTrans DEF SameWindows
<1>3. SameWindows(w, [clamp_target(u) EXCEPT !.manage_dirty = TRUE])
  BY <1>2, FocusDirtied, SameWindowsTrans DEF SameWindows
<1> QED BY <1>3 DEF hold_fires, u, SameWindows

LEMMA ProcessHoldTimers ==
  ASSUME NEW w, Sound(w), NEW due
  PROVE  SameWindows(w, process_hold_timers(w, due))
<1> DEFINE a == hold_fires(w, "SWAP_MAIN_DECK", due)
           b == hold_fires(a, "SEND_TARGET_TO_DECK_BOTTOM", due)
           c == hold_fires(b, "PROMOTE_TARGET_TO_MAIN", due)
<1>1. process_hold_timers(w, due) = c
  BY DEF process_hold_timers
<1>2. SameWindows(w, a)
  BY HoldFires
<1> HIDE DEF a
<1>3. SameWindows(w, b)
  BY <1>2, HoldFires, SameWindowsTrans DEF SameWindows
<1> HIDE DEF b
<1>4. SameWindows(w, c)
  BY <1>3, HoldFires, SameWindowsTrans DEF SameWindows
<1> QED BY <1>1, <1>4

LEMMA SeatInteraction ==
  ASSUME NEW w, Sound(w)
  PROVE  SameWindows(w, seat_interaction(w))
<1> DEFINE x == w.interacted
           idx == window_index(w, x)
           done == [w EXCEPT !.interacted = NULL]
           m == done.maximized /\ idx = w.target_index
           aimed == [done EXCEPT !.focus_dirty = TRUE, !.target_index = idx, !.maximized = m]
           held == [done EXCEPT !.focused = x]
<1>1. SameWindows(w, done)
  <2>1. /\ done \in WMState /\ done.windows = w.windows /\ done.parent = w.parent
        /\ done.focused = w.focused /\ done.interacted = NULL
        /\ done.pending_float_focus = w.pending_float_focus
    BY DEF Sound, WMState, Pointer
  <2> QED BY <2>1, LivePointers DEF Sound
<1>2. x \in Live(w) \cup {NULL} /\ x \in Pointer
  BY LiveWindows DEF Sound, Pointer
<1>3. seat_interaction(w) = w \/ seat_interaction(w) = done
        \/ (idx \in {0, 1} /\ seat_interaction(w) = aimed)
        \/ seat_interaction(w) = held
  BY DEF seat_interaction
<1>4. m \in BOOLEAN
  OBVIOUS
<1> HIDE DEF x, idx, done, m
<1>5. Sound(done) /\ Live(done) = Live(w)
  BY <1>1 DEF SameWindows
<1>6. idx \in {0, 1} => SameWindows(done, aimed)
  <2> HAVE idx \in {0, 1}
  <2> DEFINE u == [done EXCEPT !.focus_dirty = TRUE]
  <2>1. SameWindows(done, u)
    BY <1>5, FocusDirtied
  <2>2. aimed = [u EXCEPT !.target_index = idx, !.maximized = m]
    OBVIOUS
  <2>3. idx \in Nat
    OBVIOUS
  <2> HIDE DEF u, aimed
  <2>4. SameWindows(u, aimed)
    BY <1>4, <2>1, <2>2, <2>3, Targeted DEF SameWindows
  <2> QED BY <2>1, <2>4, SameWindowsTrans
<1>7. SameWindows(done, held)
  <2>1. /\ held \in WMState /\ held.windows = done.windows /\ held.parent = done.parent
        /\ held.focused = x /\ held.interacted = done.interacted
        /\ held.pending_float_focus = done.pending_float_focus
    BY <1>2, <1>5 DEF Sound, WMState
  <2> QED BY <1>2, <1>5, <2>1, LivePointers DEF Sound
<1>8. SameWindows(w, w)
  BY DEF SameWindows
<1> HIDE DEF aimed, held
<1> QED BY <1>1, <1>3, <1>6, <1>7, <1>8, SameWindowsTrans

LEMMA SeatManage ==
  ASSUME NEW w, Sound(w)
  PROVE  SameWindows(w, seat_manage(w))
<1> DEFINE v == seat_interaction(w)
           u == seat_action(v, v.pending_action)
           t == [u EXCEPT !.pending_action = "NONE"]
<1>1. SameWindows(w, v)
  BY SeatInteraction
<1>2. seat_manage(w) = t
  BY DEF seat_manage
<1> HIDE DEF v
<1>3. SameWindows(v, u)
  BY <1>1, SeatAction DEF SameWindows
<1> HIDE DEF u
<1>4. SameWindows(u, t)
  <2>1. /\ t \in WMState /\ t.windows = u.windows /\ t.parent = u.parent /\ t.focused = u.focused
        /\ t.interacted = u.interacted /\ t.pending_float_focus = u.pending_float_focus
    BY <1>3 DEF Sound, SameWindows, WMState
  <2> QED BY <1>3, <2>1, SamePointers DEF SameWindows
<1> QED BY <1>1, <1>2, <1>3, <1>4, SameWindowsTrans

LEMMA ApplyFloatFocus ==
  ASSUME NEW w, Sound(w)
  PROVE  SameWindows(w, apply_pending_float_focus(w))
<1> DEFINE x == w.pending_float_focus
           p == IF x # NULL /\ x \notin w.closed /\ x \in w.floating THEN x ELSE w.focused
           v == [w EXCEPT !.pending_float_focus = NULL, !.focused = p]
<1>1. apply_pending_float_focus(w) = v
  BY DEF apply_pending_float_focus
<1>2. p \in Live(w) \cup {NULL} /\ p \in Pointer
  BY LiveWindows DEF Sound, Pointer
<1> HIDE DEF p
<1>3. /\ v \in WMState /\ v.windows = w.windows /\ v.parent = w.parent /\ v.focused = p
      /\ v.interacted = w.interacted /\ v.pending_float_focus = NULL
  BY <1>2 DEF Sound, WMState, Pointer
<1>4. /\ \A y \in Window : v.parent[y] \in Live(w) \cup {NULL}
      /\ {v.focused, v.interacted, v.pending_float_focus} \subseteq Live(w) \cup {NULL}
  BY <1>2, <1>3 DEF Sound
<1> HIDE DEF v
<1> QED BY <1>1, <1>3, <1>4, LivePointers

\* The manage sequence destroys the closed windows and no other.
LEMMA SettledSound ==
  ASSUME NEW w, Sound(w), NEW due
  PROVE  /\ Sound(Settled(w, due))
         /\ Live(Settled(w, due)) = Live(w) \ w.closed
<1> DEFINE w0 == [w EXCEPT !.manage_dirty = FALSE]
           w1 == window_destroy_closed(w0, w.closed)
           w2 == process_hold_timers(w1, due)
           w3 == seat_manage(w2)
           w4 == apply_pending_taskbar_activation(w3)
           w5 == apply_pending_float_focus(w4)
           w6 == clamp_target(w5)
<1>1. Settled(w, due) = w6
  BY DEF Settled
<1>2. SameWindows(w, w0)
  BY FocusDirtied
<1> HIDE DEF w0
<1>3. Sound(w1) /\ Live(w1) = Live(w) \ w.closed
  BY <1>2, DestroyClosed DEF SameWindows
<1> HIDE DEF w1
<1>4. SameWindows(w1, w2)
  BY <1>3, ProcessHoldTimers
<1> HIDE DEF w2
<1>5. SameWindows(w1, w3)
  BY <1>4, SeatManage, SameWindowsTrans DEF SameWindows
<1> HIDE DEF w3
<1>6. SameWindows(w1, w4)
  BY <1>5, ApplyTaskbarActivation, SameWindowsTrans DEF SameWindows
<1> HIDE DEF w4
<1>7. SameWindows(w1, w5)
  BY <1>6, ApplyFloatFocus, SameWindowsTrans DEF SameWindows
<1> HIDE DEF w5
<1>8. SameWindows(w1, w6)
  BY <1>7, ClampTarget, SameWindowsTrans DEF SameWindows
<1> QED BY <1>1, <1>3, <1>8 DEF SameWindows

-----------------------------------------------------------------------------
(* Every handler, then the theorems.                                       *)

\* What one step may do: the record stays sound, and only closed windows and
\* children leave the list.
Goal(w, v) ==
  /\ Sound(v)
  /\ \A x \in Live(w) \ Live(v) : x \in w.closed \/ w.parent[x] # NULL

LEMMA InsertNewWindow ==
  ASSUME NEW w, Sound(w), NEW x \in Window
  PROVE  /\ Sound(md_insert_new_window(w, x))
         /\ Live(md_insert_new_window(w, x)) = Live(w) \cup {x}
<1> DEFINE rest == Without(w.windows, x)
           others == window_count([w EXCEPT !.windows = rest])
           l == IF others = 0 THEN Append(rest, x) ELSE <<x>> \o rest
           v == [Aim(w, 0) EXCEPT !.windows = l, !.focus_dirty = TRUE]
<1>1. v = md_insert_new_window(w, x)
  BY DEF md_insert_new_window
<1>2. rest \in Seq(Window) /\ IsInjective(rest) /\ Range(rest) = Live(w) \ {x}
  BY LiveWindows, WithoutProperties DEF Live, Sound
<1> HIDE DEF rest, others
<1>3. l \in Seq(Window) /\ IsInjective(l) /\ Range(l) = Live(w) \cup {x}
  <2>1. x \notin Range(rest) /\ Range(rest) \cup {x} = Live(w) \cup {x}
    BY <1>2
  <2>2. /\ Append(rest, x) \in Seq(Window) /\ IsInjective(Append(rest, x))
        /\ Range(Append(rest, x)) = Range(rest) \cup {x}
    <3> DEFINE t == Append(rest, x)
    <3>1. /\ t \in Seq(Window) /\ Range(t) = Range(rest) \cup {x}
          /\ IsInjective(rest) /\ x \notin Range(rest) => IsInjective(t)
      BY <1>2, AppendList
    <3> HIDE DEF t
    <3>2. t \in Seq(Window) /\ IsInjective(t) /\ Range(t) = Range(rest) \cup {x}
      BY <1>2, <2>1, <3>1, Zenon
    <3> QED BY <3>2 DEF t
  <2>3. /\ <<x>> \o rest \in Seq(Window) /\ IsInjective(<<x>> \o rest)
        /\ Range(<<x>> \o rest) = Range(rest) \cup {x}
    <3> DEFINE t == <<x>> \o rest
    <3>1. /\ t \in Seq(Window) /\ Range(t) = Range(rest) \cup {x}
          /\ IsInjective(rest) /\ x \notin Range(rest) => IsInjective(t)
      BY <1>2, ConsProperties
    <3> HIDE DEF t
    <3>2. t \in Seq(Window) /\ IsInjective(t) /\ Range(t) = Range(rest) \cup {x}
      BY <1>2, <2>1, <3>1, Zenon
    <3> QED BY <3>2 DEF t
  <2> QED BY <2>1, <2>2, <2>3, Zenon
<1> HIDE DEF l
<1> DEFINE u == Aim(w, 0)
<1>4. SameWindows(w, u)
  BY Targeted
<1> HIDE DEF u
<1>5. /\ v \in WMState /\ v.windows = l /\ v.parent = u.parent /\ v.focused = u.focused
      /\ v.interacted = u.interacted /\ v.pending_float_focus = u.pending_float_focus
  BY <1>3, <1>4 DEF Sound, SameWindows, WMState, u
<1>6. Live(v) = Live(w) \cup {x}
  BY <1>3, <1>5 DEF Live
<1>7. Sound(u) /\ Live(u) = Live(w)
  BY <1>4 DEF SameWindows
<1> HIDE DEF v
<1>8. Sound(v)
  BY <1>3, <1>5, <1>6, <1>7 DEF Sound
<1> QED BY <1>1, <1>6, <1>8

LEMMA SameIsGoal ==
  ASSUME NEW w, NEW v, SameWindows(w, v)
  PROVE  Goal(w, v)
BY DEF SameWindows, Goal

\* An event handler that keeps the windows.
LEMMA EventGoal ==
  ASSUME NEW w, NEW v, SameWindows(w, v)
  PROVE  Goal(w, [v EXCEPT !.manage_dirty = TRUE])
BY FocusDirtied, SameWindowsTrans, SameIsGoal DEF SameWindows

LEMMA StepNewWindow ==
  ASSUME Sound(wm), NEW x \in Window, wm_handle_window(x)
  PROVE  Goal(wm, wm')
<1> DEFINE v == md_insert_new_window(wm, x)
<1>1. wm' = [v EXCEPT !.manage_dirty = TRUE]
  BY DEF wm_handle_window, Event, Handled
<1>2. Sound(v) /\ Live(v) = Live(wm) \cup {x}
  BY InsertNewWindow
<1> HIDE DEF v
<1>3. SameWindows(v, wm')
  BY <1>1, <1>2, FocusDirtied
<1> QED BY <1>2, <1>3 DEF SameWindows, Goal

LEMMA StepClosed ==
  ASSUME Sound(wm), NEW x \in Window, window_handle_closed(x)
  PROVE  Goal(wm, wm')
<1> DEFINE u == [wm EXCEPT !.closed = @ \cup {x}]
           v == IF wm.parent[x] # NULL THEN window_destroy_closed(u, {x}) ELSE u
<1>1. wm' = [v EXCEPT !.manage_dirty = TRUE]
  BY DEF window_handle_closed, Event, Handled
<1>2. SameWindows(wm, u)
  <2>1. /\ u \in WMState /\ u.windows = wm.windows /\ u.parent = wm.parent
        /\ u.focused = wm.focused /\ u.interacted = wm.interacted
        /\ u.pending_float_focus = wm.pending_float_focus
    BY DEF Sound, WMState
  <2> QED BY <2>1, SamePointers
<1> HIDE DEF u
<1>3. /\ Sound(v)
      /\ \A y \in Live(wm) \ Live(v) : wm.parent[y] # NULL
  BY <1>2, DestroyClosed DEF SameWindows
<1> HIDE DEF v
<1>4. SameWindows(v, wm')
  BY <1>1, <1>3, FocusDirtied
<1> QED BY <1>3, <1>4 DEF SameWindows, Goal

LEMMA StepAppId ==
  ASSUME Sound(wm), NEW x \in Window, window_handle_app_id(x)
  PROVE  Goal(wm, wm')
<1> DEFINE w == [wm EXCEPT !.named = @ \cup ({x} \cap Ruled)]
           u == IF x \in Floater THEN window_designate_floating(w, x, TRUE) ELSE w
           v == maybe_apply_implicit_parenting_for(u, x, TRUE)
<1>1. wm' = [v EXCEPT !.manage_dirty = TRUE] /\ x \in Live(wm)
  BY DEF window_handle_app_id, Event, Handled, Open
<1>2. SameWindows(wm, w)
  <2>1. /\ w \in WMState /\ w.windows = wm.windows /\ w.parent = wm.parent
        /\ w.focused = wm.focused /\ w.interacted = wm.interacted
        /\ w.pending_float_focus = wm.pending_float_focus
    BY DEF Sound, WMState
  <2> QED BY <2>1, SamePointers
<1> HIDE DEF w
<1>3. SameWindows(wm, u)
  <2>1. SameWindows(w, window_designate_floating(w, x, TRUE))
    BY <1>1, <1>2, DesignateFloating DEF SameWindows
  <2> QED BY <1>2, <2>1, SameWindowsTrans
<1> HIDE DEF u
<1>4. SameWindows(wm, v)
  <2>1. Sound(u)
    BY <1>3 DEF SameWindows
  <2>2. SameWindows(u, v)
    BY <2>1, ImplicitParentingFor
  <2> QED BY <1>3, <2>2, SameWindowsTrans
<1> HIDE DEF v
<1> QED BY <1>1, <1>4, EventGoal

LEMMA StepTitle ==
  ASSUME Sound(wm), NEW x \in Window, NEW t \in Titles[x], window_handle_title(x, t)
  PROVE  Goal(wm, wm')
<1> DEFINE w == [wm EXCEPT !.title[x] = t]
           relevant == wm.title[x] = "none" \/ t = "parent"
           v == maybe_apply_implicit_parenting_for(w, x, relevant)
<1>1. wm' = [v EXCEPT !.manage_dirty = TRUE]
  BY DEF window_handle_title, Event, Handled
<1>2. t \in Title
  BY TitleAssumption DEF TitleAssumption
<1>3. SameWindows(wm, w)
  <2>1. /\ w \in WMState /\ w.windows = wm.windows /\ w.parent = wm.parent
        /\ w.focused = wm.focused /\ w.interacted = wm.interacted
        /\ w.pending_float_focus = wm.pending_float_focus
    BY <1>2 DEF Sound, WMState
  <2> QED BY <2>1, SamePointers
<1> HIDE DEF w, relevant
<1>4. SameWindows(wm, v)
  <2>1. Sound(w)
    BY <1>3 DEF SameWindows
  <2>2. SameWindows(w, v)
    BY <2>1, ImplicitParentingFor
  <2> QED BY <1>3, <2>2, SameWindowsTrans
<1> HIDE DEF v
<1> QED BY <1>1, <1>4, EventGoal

LEMMA StepDimensionsHint ==
  ASSUME Sound(wm), NEW x \in Window, window_handle_dimensions_hint(x)
  PROVE  Goal(wm, wm')
<1>1. /\ x \in Live(wm)
      /\ wm' = [window_designate_floating(wm, x, FALSE) EXCEPT !.manage_dirty = TRUE]
  BY DEF window_handle_dimensions_hint, Open, Event, Handled
<1> QED BY <1>1, DesignateFloating, EventGoal

LEMMA StepDimensions ==
  ASSUME Sound(wm), NEW x \in Window, NEW s \in Size, NEW reply,
         window_handle_dimensions(x, s, reply)
  PROVE  Goal(wm, wm')
<1> DEFINE sized == [wm EXCEPT !.size[x] = s]
           judged == IsShown(wm, x) /\ x \notin wm.fullscreen /\ wm.tile[x] = "proposed"
           kept == [sized EXCEPT !.tile[x] = "settled"]
           floated == window_designate_floating(sized, x, FALSE)
           tiled == IF judged /\ reply = "match" THEN kept
                    ELSE IF judged /\ reply = "mismatch" THEN floated
                    ELSE sized
           shown == IF wm.parent[x] # NULL /\ window_is_really_visible(wm, x)
                    THEN [tiled EXCEPT !.manage_dirty = TRUE] ELSE tiled
           taking == [shown EXCEPT !.pending_float_focus = x, !.manage_dirty = TRUE]
<1>1. x \in Live(wm) /\ (wm' = shown \/ wm' = taking)
  BY DEF window_handle_dimensions, Handled, Open
<1>2. SameWindows(wm, sized)
  <2>1. /\ sized \in WMState /\ sized.windows = wm.windows /\ sized.parent = wm.parent
        /\ sized.focused = wm.focused /\ sized.interacted = wm.interacted
        /\ sized.pending_float_focus = wm.pending_float_focus
    BY DEF Sound, WMState
  <2> QED BY <2>1, SamePointers
<1> HIDE DEF sized
<1>3. SameWindows(sized, kept)
  <2>1. /\ kept \in WMState /\ kept.windows = sized.windows /\ kept.parent = sized.parent
        /\ kept.focused = sized.focused /\ kept.interacted = sized.interacted
        /\ kept.pending_float_focus = sized.pending_float_focus
    BY <1>2 DEF Sound, SameWindows, WMState, TileReply
  <2> QED BY <1>2, <2>1, SamePointers DEF SameWindows
<1>4. SameWindows(sized, floated)
  BY <1>1, <1>2, DesignateFloating DEF SameWindows
<1> HIDE DEF kept, floated, judged
<1>5. SameWindows(wm, tiled)
  BY <1>2, <1>3, <1>4, SameWindowsTrans
<1> HIDE DEF tiled
<1>6. SameWindows(wm, shown)
  BY <1>5, FocusDirtied, SameWindowsTrans DEF SameWindows
<1> HIDE DEF shown
<1>7. SameWindows(shown, taking)
  <2>1. Sound(shown) /\ x \in Live(shown)
    BY <1>1, <1>6 DEF SameWindows
  <2>2. /\ taking \in WMState /\ taking.windows = shown.windows /\ taking.parent = shown.parent
        /\ taking.focused = shown.focused /\ taking.interacted = shown.interacted
        /\ taking.pending_float_focus = x
    BY <2>1 DEF Sound, WMState, Pointer
  <2> QED BY <2>1, <2>2, LivePointers DEF Sound
<1> QED BY <1>1, <1>6, <1>7, SameWindowsTrans, SameIsGoal

LEMMA StepParent ==
  ASSUME Sound(wm), NEW x \in Window, NEW p \in Pointer, window_handle_parent(x, p)
  PROVE  Goal(wm, wm')
<1> DEFINE w == [wm EXCEPT !.parent[x] = p, !.implicit_parent = @ \ {x}]
           child == [w EXCEPT !.floating = @ \ {x}, !.autofloat = @ \ {x}]
           root == [w EXCEPT !.tile[x] = "none"]
           v == IF p = wm.parent[x] THEN w
                ELSE IF p = NULL THEN md_insert_new_window(root, x)
                ELSE IF wm.parent[x] = NULL THEN move_last(child, x)
                ELSE child
<1>1. /\ wm' = [v EXCEPT !.manage_dirty = TRUE]
      /\ x \in Live(wm) /\ p \in Live(wm) \cup {NULL}
  BY DEF window_handle_parent, Event, Handled, Open
<1>2. SameWindows(wm, w)
  <2>1. /\ w \in WMState /\ w.windows = wm.windows /\ w.focused = wm.focused
        /\ w.interacted = wm.interacted /\ w.pending_float_focus = wm.pending_float_focus
        /\ w.parent = [wm.parent EXCEPT ![x] = p]
    BY DEF Sound, WMState
  <2>2. \A y \in Window : w.parent[y] \in Live(wm) \cup {NULL}
    BY <1>1, <2>1 DEF Sound, WMState
  <2> HIDE DEF w
  <2> QED BY <2>1, <2>2, LivePointers DEF Sound
<1> HIDE DEF w
<1>3. SameWindows(w, child)
  <2>1. /\ child \in WMState /\ child.windows = w.windows /\ child.parent = w.parent
        /\ child.focused = w.focused /\ child.interacted = w.interacted
        /\ child.pending_float_focus = w.pending_float_focus
    BY <1>2 DEF Sound, SameWindows, WMState
  <2> QED BY <1>2, <2>1, SamePointers DEF SameWindows
<1>4. SameWindows(w, root)
  <2>1. /\ root \in WMState /\ root.windows = w.windows /\ root.parent = w.parent
        /\ root.focused = w.focused /\ root.interacted = w.interacted
        /\ root.pending_float_focus = w.pending_float_focus
    BY <1>2 DEF Sound, SameWindows, WMState, TileReply
  <2> QED BY <1>2, <2>1, SamePointers DEF SameWindows
<1> HIDE DEF child, root
<1>5. SameWindows(wm, child) /\ SameWindows(wm, root)
  BY <1>2, <1>3, <1>4, SameWindowsTrans
<1>6. SameWindows(wm, move_last(child, x))
  BY <1>1, <1>5, MoveLast, SameWindowsTrans DEF SameWindows
<1>7. SameWindows(wm, md_insert_new_window(root, x))
  <2>1. Live(root) \cup {x} = Live(wm) /\ Sound(root)
    BY <1>1, <1>5 DEF SameWindows
  <2> QED BY <2>1, InsertNewWindow DEF SameWindows
<1>8. SameWindows(wm, v)
  BY <1>2, <1>5, <1>6, <1>7
<1> HIDE DEF v
<1> QED BY <1>1, <1>8, EventGoal

LEMMA StepFullscreen ==
  ASSUME Sound(wm), NEW x \in Window, window_handle_fullscreen_requested(x)
  PROVE  Goal(wm, wm')
<1> DEFINE w == [wm EXCEPT !.fullscreen = @ \cup {x}]
           idx == window_index(w, x)
           raised == IF idx \in {0, 1} THEN Aim(w, idx)
                     ELSE IF idx >= 2 THEN Aim(move_first(w, x), 0)
                     ELSE [w EXCEPT !.maximized = FALSE]
           hidden == [raised EXCEPT !.bar_fullscreen = TRUE]
           v == IF x \in wm.minimized THEN w ELSE hidden
<1>1. wm' = [v EXCEPT !.manage_dirty = TRUE] /\ x \in Live(wm)
  BY DEF window_handle_fullscreen_requested, Event, Handled, Open
<1>2. SameWindows(wm, w)
  <2>1. /\ w \in WMState /\ w.windows = wm.windows /\ w.parent = wm.parent
        /\ w.focused = wm.focused /\ w.interacted = wm.interacted
        /\ w.pending_float_focus = wm.pending_float_focus
    BY DEF Sound, WMState
  <2> QED BY <2>1, SamePointers
<1> HIDE DEF w, idx
<1>3. Sound(w) /\ x \in Live(w)
  BY <1>1, <1>2 DEF SameWindows
<1>4. SameWindows(w, raised)
  <2>1. idx \in {0, 1} => SameWindows(w, Aim(w, idx))
    BY <1>3, Targeted
  <2>2. SameWindows(w, Aim(move_first(w, x), 0))
    BY <1>3, MoveFirst, AimSame
  <2>3. SameWindows(w, [w EXCEPT !.maximized = FALSE])
    BY <1>3, Targeted
  <2> QED BY <2>1, <2>2, <2>3
<1> HIDE DEF raised
<1>5. SameWindows(raised, hidden)
  <2>1. /\ hidden \in WMState /\ hidden.windows = raised.windows /\ hidden.parent = raised.parent
        /\ hidden.focused = raised.focused /\ hidden.interacted = raised.interacted
        /\ hidden.pending_float_focus = raised.pending_float_focus
    BY <1>4 DEF Sound, SameWindows, WMState
  <2> QED BY <1>4, <2>1, SamePointers DEF SameWindows
<1> HIDE DEF hidden
<1>6. SameWindows(wm, v)
  BY <1>2, <1>4, <1>5, SameWindowsTrans
<1> HIDE DEF v
<1> QED BY <1>1, <1>6, EventGoal

LEMMA StepExitFullscreen ==
  ASSUME Sound(wm), NEW x \in Window, window_handle_exit_fullscreen_requested(x)
  PROVE  Goal(wm, wm')
<1> DEFINE v == [wm EXCEPT !.fullscreen = @ \ {x}, !.bar_fullscreen = FALSE]
<1>1. wm' = [v EXCEPT !.manage_dirty = TRUE]
  BY DEF window_handle_exit_fullscreen_requested, Event, Handled
<1>2. /\ v \in WMState /\ v.windows = wm.windows /\ v.parent = wm.parent
      /\ v.focused = wm.focused /\ v.interacted = wm.interacted
      /\ v.pending_float_focus = wm.pending_float_focus
  BY DEF Sound, WMState
<1>3. SameWindows(wm, v)
  BY <1>2, SamePointers
<1> HIDE DEF v
<1> QED BY <1>1, <1>3, EventGoal

LEMMA StepMinimize ==
  ASSUME Sound(wm), NEW x \in Window, window_handle_minimize_requested(x)
  PROVE  Goal(wm, wm')
<1> DEFINE u == Aim(move_last(wm, x), 0)
           b == u.bar_fullscreen /\ x \notin wm.fullscreen
           v == [u EXCEPT !.minimized = @ \cup {x}, !.fullscreen = @ \ {x}, !.bar_fullscreen = b]
<1>1. wm' = [v EXCEPT !.manage_dirty = TRUE] /\ x \in Live(wm)
  BY DEF window_handle_minimize_requested, Event, Handled, Open
<1>2. SameWindows(wm, u)
  BY <1>1, MoveLast, AimSame
<1>3. b \in BOOLEAN
  OBVIOUS
<1> HIDE DEF u, b
<1>4. SameWindows(u, v)
  <2>1. /\ v \in WMState /\ v.windows = u.windows /\ v.parent = u.parent
        /\ v.focused = u.focused /\ v.interacted = u.interacted
        /\ v.pending_float_focus = u.pending_float_focus
    BY <1>2, <1>3 DEF Sound, SameWindows, WMState
  <2> QED BY <1>2, <2>1, SamePointers DEF SameWindows
<1> HIDE DEF v
<1> QED BY <1>1, <1>2, <1>4, SameWindowsTrans, EventGoal

LEMMA StepSeat ==
  ASSUME Sound(wm), SeatEvent
  PROVE  Goal(wm, wm')
<1>1. ASSUME NEW action \in Key, xkb_binding_handle(action)
      PROVE  Goal(wm, wm')
  <2> DEFINE v == [wm EXCEPT !.pending_action = action]
  <2>1. wm' = [v EXCEPT !.manage_dirty = TRUE]
    BY <1>1 DEF xkb_binding_handle, Event, Handled
  <2>2. /\ v \in WMState /\ v.windows = wm.windows /\ v.parent = wm.parent
        /\ v.focused = wm.focused /\ v.interacted = wm.interacted
        /\ v.pending_float_focus = wm.pending_float_focus
    BY BoundAssumption DEF BoundAssumption, Sound, WMState
  <2>3. SameWindows(wm, v)
    BY <2>2, SamePointers
  <2> HIDE DEF v
  <2> QED BY <2>1, <2>3, EventGoal
<1>2. ASSUME NEW x \in Window, seat_handle_window_interaction(x)
      PROVE  Goal(wm, wm')
  <2> DEFINE v == [wm EXCEPT !.interacted = x]
  <2>1. wm' = [v EXCEPT !.manage_dirty = TRUE] /\ x \in Live(wm)
    BY <1>2 DEF seat_handle_window_interaction, Event, Handled, Open
  <2>2. /\ v \in WMState /\ v.windows = wm.windows /\ v.parent = wm.parent
        /\ v.focused = wm.focused /\ v.interacted = x
        /\ v.pending_float_focus = wm.pending_float_focus
    BY DEF Sound, WMState, Pointer
  <2>3. SameWindows(wm, v)
    BY <2>1, <2>2, LivePointers DEF Sound
  <2> HIDE DEF v
  <2> QED BY <2>1, <2>3, EventGoal
<1>3. CASE layer_shell_seat_handle_focus_none
  BY <1>3, FocusDirtied, EventGoal DEF layer_shell_seat_handle_focus_none, Event, Handled
<1>4. ASSUME NEW due, hold_timeout(due)
      PROVE  Goal(wm, wm')
  BY <1>4, ProcessHoldTimers, SameIsGoal DEF hold_timeout, Handled
<1> QED BY <1>1, <1>2, <1>3, <1>4 DEF SeatEvent

LEMMA StepIpc ==
  ASSUME Sound(wm), NEW x \in Window, ipc_handle_message(x)
  PROVE  Goal(wm, wm')
<1> DEFINE v == [wm EXCEPT !.pending_activate = x, !.manage_dirty = TRUE]
<1>1. wm' = v
  BY DEF ipc_handle_message, Handled
<1>2. /\ v \in WMState /\ v.windows = wm.windows /\ v.parent = wm.parent
      /\ v.focused = wm.focused /\ v.interacted = wm.interacted
      /\ v.pending_float_focus = wm.pending_float_focus
  BY DEF Sound, WMState, Pointer
<1> QED BY <1>1, <1>2, SamePointers, SameIsGoal

LEMMA StepManage ==
  ASSUME Sound(wm), ManageSequence
  PROVE  Goal(wm, wm')
<1>1. PICK due \in SUBSET (Key \cap HoldAction), moved \in BOOLEAN :
        wm_handle_manage_start(due, moved)
  BY DEF ManageSequence
<1> DEFINE w == Settled(wm, due)
           laid == window_manage_layout(w)
<1>2. Sound(w) /\ Live(w) = Live(wm) \ wm.closed
  BY SettledSound
<1>3. PICK u \in {w, laid} :
        wm' = u \/ wm' = [focus_target_on_seats(u) EXCEPT !.focus_dirty = FALSE]
  BY <1>1 DEF wm_handle_manage_start
<1>4. SameWindows(w, u)
  BY <1>2, ManageLayout DEF SameWindows
<1> HIDE DEF w, laid
<1>5. SameWindows(u, focus_target_on_seats(u))
  BY <1>4, FocusTargetOnSeats DEF SameWindows
<1>6. SameWindows(focus_target_on_seats(u), [focus_target_on_seats(u) EXCEPT !.focus_dirty = FALSE])
  BY <1>5, FocusDirtied DEF SameWindows
<1>7. SameWindows(w, wm')
  <2>1. CASE wm' = u
    BY <1>4, <2>1
  <2>2. CASE wm' = [focus_target_on_seats(u) EXCEPT !.focus_dirty = FALSE]
    BY <1>4, <1>5, <1>6, <2>2, SameWindowsTrans
  <2> QED BY <1>3, <2>1, <2>2
<1> QED BY <1>2, <1>7 DEF SameWindows, Goal

LEMMA StepGoal ==
  ASSUME Sound(wm), Next
  PROVE  Goal(wm, wm')
<1>1. ASSUME NEW x \in Window, WindowEvent(x)
      PROVE  Goal(wm, wm')
  BY <1>1, StepNewWindow, StepClosed, StepAppId, StepTitle, StepDimensionsHint,
     StepDimensions, StepParent,
     StepFullscreen, StepExitFullscreen, StepMinimize DEF WindowEvent
<1>2. CASE SeatEvent
  BY <1>2, StepSeat
<1>3. CASE \E x \in Window : ipc_handle_message(x)
  BY <1>3, StepIpc
<1>4. CASE ManageSequence
  BY <1>4, StepManage
<1> QED BY <1>1, <1>2, <1>3, <1>4 DEF Next

IInv == Sound(wm) /\ batch \in 0..MaxBatch

LEMMA InitSound == Init => IInv
<1> SUFFICES ASSUME Init PROVE IInv
  OBVIOUS
<1>1. wm \in WMState
  BY DEF Init, WMState, Pointer, TileReply, Title
<1>2. wm.windows = <<>> /\ \A x \in Window : wm.parent[x] = NULL
  BY DEF Init
<1>3. wm.focused = NULL /\ wm.interacted = NULL /\ wm.pending_float_focus = NULL
  BY DEF Init
<1>4. IsInjective(wm.windows)
  BY <1>2 DEF IsInjective
<1>5. batch \in 0..MaxBatch
  BY BoundAssumption DEF Init, BoundAssumption
<1> QED BY <1>1, <1>2, <1>3, <1>4, <1>5 DEF IInv, Sound

LEMMA BatchBound ==
  ASSUME batch \in 0..MaxBatch, Next
  PROVE  batch' \in 0..MaxBatch
<1>1. (batch < MaxBatch /\ batch' = batch + 1) \/ batch' = 0
  <2>1. CASE \E x \in Window : WindowEvent(x)
    <3>1. PICK x \in Window : WindowEvent(x)
      BY <2>1
    <3>2. ASSUME NEW s \in Size, NEW reply, window_handle_dimensions(x, s, reply)
          PROVE  batch < MaxBatch /\ batch' = batch + 1
      BY <3>2 DEF window_handle_dimensions, Handled
    <3>3. ASSUME NEW p \in Pointer, window_handle_parent(x, p)
          PROVE  batch < MaxBatch /\ batch' = batch + 1
      BY <3>3 DEF window_handle_parent, Event, Handled
    <3>6. ASSUME NEW t, window_handle_title(x, t)
          PROVE  batch < MaxBatch /\ batch' = batch + 1
      BY <3>6 DEF window_handle_title, Event, Handled
    <3>4. CASE wm_handle_window(x) \/ window_handle_closed(x) \/ window_handle_app_id(x)
               \/ window_handle_dimensions_hint(x)
      BY <3>4 DEF wm_handle_window, window_handle_closed, window_handle_app_id,
         window_handle_dimensions_hint, Event, Handled
    <3>5. CASE window_handle_fullscreen_requested(x) \/ window_handle_exit_fullscreen_requested(x)
               \/ window_handle_minimize_requested(x)
      BY <3>5 DEF window_handle_fullscreen_requested, window_handle_exit_fullscreen_requested,
         window_handle_minimize_requested, Event, Handled
    <3> QED BY <3>1, <3>2, <3>3, <3>4, <3>5, <3>6 DEF WindowEvent
  <2>2. CASE SeatEvent
    BY <2>2 DEF SeatEvent, xkb_binding_handle, seat_handle_window_interaction,
       layer_shell_seat_handle_focus_none, hold_timeout, Event, Handled
  <2>3. CASE \E x \in Window : ipc_handle_message(x)
    BY <2>3 DEF ipc_handle_message, Handled
  <2>4. CASE ManageSequence
    BY <2>4 DEF ManageSequence, wm_handle_manage_start
  <2> QED BY <2>1, <2>2, <2>3, <2>4 DEF Next
<1> QED BY <1>1, BoundAssumption DEF BoundAssumption

LEMMA Inductive == IInv /\ [Next]_vars => IInv'
<1> SUFFICES ASSUME IInv, [Next]_vars PROVE IInv'
  OBVIOUS
<1>1. CASE Next
  BY <1>1, StepGoal, BatchBound DEF IInv, Goal
<1>2. CASE UNCHANGED vars
  BY <1>2 DEF IInv, vars
<1> QED BY <1>1, <1>2

\* IInv holds in every reachable state.
THEOREM Invariance == Spec => []IInv
BY InitSound, Inductive, PTL DEF Spec

\* The fields of the window manager keep their types: in particular the target
\* is never a negative index and the list holds windows only.
THEOREM TypeCorrect == Spec => []TypeOK
<1>1. IInv => TypeOK
  BY DEF IInv, Sound, TypeOK
<1> QED BY <1>1, Invariance, PTL

\* No pointer of a window, of the seat or of the manager is left to a window
\* that window_destroy_closed has freed, however handlers and manage sequences
\* interleave and however many windows there are.
THEOREM NoDanglingPointers == Spec => []NoDangling
<1>1. IInv => NoDangling
  <2> SUFFICES ASSUME IInv PROVE NoDangling
    OBVIOUS
  <2>1. DOMAIN wm.parent = Window
    BY DEF IInv, Sound, WMState
  <2>2. Range(wm.parent) \subseteq Live(wm) \cup {NULL}
    BY <2>1 DEF IInv, Sound, Range
  <2> QED BY <2>2 DEF IInv, Sound, NoDangling
<1> QED BY <1>1, Invariance, PTL

\* No operation links a window twice, and none drops a window from the list
\* that was neither closed nor a child.
THEOREM ListSoundness == Spec => ListIsSound
<1>1. IInv /\ [Next]_vars =>
        [/\ IsInjective(wm'.windows)
         /\ \A x \in Live(wm) \ Live(wm') : x \in wm.closed \/ wm.parent[x] # NULL]_vars
  <2> SUFFICES ASSUME IInv, Next
               PROVE  /\ IsInjective(wm'.windows)
                      /\ \A x \in Live(wm) \ Live(wm') : x \in wm.closed \/ wm.parent[x] # NULL
    OBVIOUS
  <2> QED BY StepGoal DEF IInv, Goal, Sound
<1> QED BY <1>1, Invariance, PTL DEF Spec, ListIsSound

-----------------------------------------------------------------------------
(* What an operation leaves alone, for the theorems that relate the focus, *)
(* the bar and the owed sequence to the rest of the record.                *)

\* v differs from w in the list, the target and the two dirty flags only; a
\* request to move the focus is not forgotten.
Aimed(w, v) ==
  /\ v.parent = w.parent
  /\ v.closed = w.closed /\ v.floating = w.floating /\ v.minimized = w.minimized
  /\ v.fullscreen = w.fullscreen /\ v.bar_fullscreen = w.bar_fullscreen
  /\ v.focused = w.focused /\ v.interacted = w.interacted
  /\ v.pending_float_focus = w.pending_float_focus
  /\ v.pending_action = w.pending_action /\ v.pending_activate = w.pending_activate
  /\ w.focus_dirty => v.focus_dirty

\* What the event handlers leave alone.
Steady(w, v) ==
  /\ v.minimized = w.minimized /\ v.fullscreen = w.fullscreen
  /\ v.bar_fullscreen = w.bar_fullscreen
  /\ v.focused = w.focused
  /\ w.focus_dirty => v.focus_dirty

\* What the steps of a manage sequence leave alone: a slot may be emptied and the
\* focus may go to a floating window.
Kept(w, v) ==
  /\ v.closed = w.closed /\ v.floating = w.floating /\ v.minimized \subseteq w.minimized
  /\ v.fullscreen = w.fullscreen /\ v.bar_fullscreen = w.bar_fullscreen
  /\ v.focused = w.focused \/ v.focused \in v.floating
  /\ v.interacted = w.interacted \/ v.interacted = NULL
  /\ v.pending_float_focus = w.pending_float_focus \/ v.pending_float_focus = NULL
  /\ v.pending_action = w.pending_action \/ v.pending_action = "NONE"
  /\ v.pending_activate = w.pending_activate \/ v.pending_activate = NULL
  /\ w.focus_dirty => v.focus_dirty

LEMMA AimedTrans ==
  ASSUME NEW u, NEW v, NEW w, Aimed(u, v), Aimed(v, w)
  PROVE  Aimed(u, w)
BY DEF Aimed

LEMMA SteadyTrans ==
  ASSUME NEW u, NEW v, NEW w, Steady(u, v), Steady(v, w)
  PROVE  Steady(u, w)
BY DEF Steady

LEMMA KeptTrans ==
  ASSUME NEW u, NEW v, NEW w, Kept(u, v), Kept(v, w)
  PROVE  Kept(u, w)
BY DEF Kept

LEMMA AimedIs ==
  ASSUME NEW w, NEW v, Aimed(w, v)
  PROVE  Steady(w, v) /\ Kept(w, v)
BY DEF Aimed, Steady, Kept

LEMMA AimedSelf ==
  ASSUME NEW w
  PROVE  Aimed(w, w)
BY DEF Aimed

\* Single assignments.
LEMMA AimedBy ==
  ASSUME NEW w, Sound(w), NEW l, NEW n, NEW m
  PROVE  /\ Aimed(w, [w EXCEPT !.windows = l])
         /\ Aimed(w, [w EXCEPT !.target_index = n])
         /\ Aimed(w, [w EXCEPT !.maximized = m])
         /\ Aimed(w, [w EXCEPT !.target_index = n, !.maximized = m])
         /\ Aimed(w, Aim(w, n))
         /\ Aimed(w, [w EXCEPT !.focus_dirty = TRUE])
         /\ Aimed(w, [w EXCEPT !.manage_dirty = m])
<1>1. w \in WMState
  BY DEF Sound
<1>2. Aimed(w, [w EXCEPT !.windows = l])
  BY <1>1 DEF Aimed, WMState
<1>3. Aimed(w, [w EXCEPT !.target_index = n])
  BY <1>1 DEF Aimed, WMState
<1>4. Aimed(w, [w EXCEPT !.maximized = m])
  BY <1>1 DEF Aimed, WMState
<1>5. Aimed(w, [w EXCEPT !.target_index = n, !.maximized = m])
  BY <1>1 DEF Aimed, WMState
<1>6. Aimed(w, Aim(w, n))
  BY <1>1 DEF Aimed, WMState, Aim
<1>7. Aimed(w, [w EXCEPT !.focus_dirty = TRUE])
  BY <1>1 DEF Aimed, WMState
<1>8. Aimed(w, [w EXCEPT !.manage_dirty = m])
  BY <1>1 DEF Aimed, WMState
<1> QED BY <1>2, <1>3, <1>4, <1>5, <1>6, <1>7, <1>8

LEMMA AimedMoves ==
  ASSUME NEW w, Sound(w), NEW x, NEW y
  PROVE  /\ Aimed(w, move_first(w, x)) /\ Aimed(w, move_last(w, x))
         /\ Aimed(w, move_after(w, x, y)) /\ Aimed(w, move_to_region_end(w, x))
         /\ Aimed(w, clamp_target(w))
<1>1. Aimed(w, move_first(w, x))
  BY AimedBy DEF move_first
<1>2. Aimed(w, move_last(w, x))
  BY AimedBy DEF move_last
<1>3. Aimed(w, move_after(w, x, y))
  BY AimedBy DEF move_after
<1>4. Aimed(w, move_to_region_end(w, x))
  BY AimedBy DEF move_to_region_end
<1>5. Aimed(w, clamp_target(w))
  BY AimedBy, AimedSelf DEF clamp_target
<1> QED BY <1>1, <1>2, <1>3, <1>4, <1>5

LEMMA AimedAim ==
  ASSUME NEW w, NEW v, Sound(v), Aimed(w, v), NEW n
  PROVE  Aimed(w, Aim(v, n))
BY AimedBy, AimedTrans

LEMMA AimedDeck ==
  ASSUME NEW w, Sound(w)
  PROVE  /\ Aimed(w, md_swap_main_deck(w))
         /\ Aimed(w, md_deck_next(w))
         /\ Aimed(w, md_deck_prev(w))
         /\ Aimed(w, md_promote_target_to_main(w))
         /\ Aimed(w, md_send_target_to_deck_bottom(w))
<1>1. Aimed(w, w)
  BY AimedSelf
<1>2. Aimed(w, md_swap_main_deck(w))
  <2>1. CASE visible_window_count(w) < 2
    BY <1>1, <2>1 DEF md_swap_main_deck
  <2>2. CASE ~(visible_window_count(w) < 2)
    <3>1. window_at(w, 1) \in Live(w)
      BY <2>2, CardList, CardAt
    <3>2. Sound(move_first(w, window_at(w, 1))) /\ Aimed(w, move_first(w, window_at(w, 1)))
      BY <3>1, MoveFirst, AimedMoves DEF SameWindows
    <3> QED BY <2>2, <3>2, AimedAim DEF md_swap_main_deck
  <2> QED BY <2>1, <2>2
<1>3. Aimed(w, md_deck_next(w))
  <2>1. CASE visible_window_count(w) <= 2
    BY <1>1, <2>1 DEF md_deck_next
  <2>2. CASE ~(visible_window_count(w) <= 2)
    <3>1. window_at(w, 1) \in Live(w)
      BY <2>2, CardList, CardAt
    <3>2. /\ Sound(move_to_region_end(w, window_at(w, 1)))
          /\ Aimed(w, move_to_region_end(w, window_at(w, 1)))
      BY <3>1, MoveToRegionEnd, AimedMoves DEF SameWindows
    <3> QED BY <2>2, <3>2, AimedAim DEF md_deck_next
  <2> QED BY <2>1, <2>2
<1>4. Aimed(w, md_deck_prev(w))
  <2>1. CASE visible_window_count(w) <= 2
    BY <1>1, <2>1 DEF md_deck_prev
  <2>2. CASE ~(visible_window_count(w) <= 2)
    <3> DEFINE last == visible_window_count(w) - 1
    <3>1. last \in Nat /\ last < window_count(w) /\ 0 < window_count(w) /\ last # 0
      BY <2>2, CardList
    <3> HIDE DEF last
    <3>2. /\ window_at(w, last) \in Live(w) /\ window_at(w, 0) \in Live(w)
          /\ window_at(w, last) # window_at(w, 0)
      BY <3>1, CardAt
    <3> DEFINE v == move_after(w, window_at(w, last), window_at(w, 0))
    <3>3. Sound(v) /\ Aimed(w, v)
      BY <3>2, MoveAfter, AimedMoves DEF SameWindows
    <3>4. md_deck_prev(w) = Aim(v, 1)
      BY <2>2 DEF md_deck_prev, last
    <3> HIDE DEF v
    <3> QED BY <3>3, <3>4, AimedAim
  <2> QED BY <2>1, <2>2
<1>5. Aimed(w, md_promote_target_to_main(w))
  <2>1. CASE target_window(w) = NULL \/ w.target_index = 0
    BY <1>1, <2>1 DEF md_promote_target_to_main
  <2>2. CASE ~(target_window(w) = NULL \/ w.target_index = 0)
    <3>1. target_window(w) \in Live(w)
      BY <2>2, Target
    <3>2. Sound(move_first(w, target_window(w))) /\ Aimed(w, move_first(w, target_window(w)))
      BY <3>1, MoveFirst, AimedMoves DEF SameWindows
    <3> QED BY <2>2, <3>2, AimedAim DEF md_promote_target_to_main
  <2> QED BY <2>1, <2>2
<1>6. Aimed(w, md_send_target_to_deck_bottom(w))
  <2> DEFINE target == target_window(w)
             count == visible_window_count(w)
             idle == count <= 1 \/ target = NULL \/ (w.target_index = 1 /\ count <= 2)
  <2>1. CASE idle
    BY <1>1, <2>1 DEF md_send_target_to_deck_bottom
  <2>2. CASE ~idle /\ w.target_index = 0
    <3>1. target \in Live(w) /\ target = window_at(w, w.target_index)
      BY <2>2, Target
    <3>2. count \in Nat /\ count <= window_count(w) /\ window_count(w) \in Nat
      BY CardList
    <3>3. 1 < window_count(w) /\ 0 < window_count(w)
      BY <2>2, <3>2
    <3>4. window_at(w, 1) \in Live(w) /\ window_at(w, 1) # target
      BY <2>2, <3>1, <3>3, CardAt
    <3> DEFINE v == move_after(w, target, window_at(w, 1))
    <3>5. Sound(v) /\ Aimed(w, v)
      BY <3>1, <3>4, MoveAfter, AimedMoves DEF SameWindows
    <3>6. md_send_target_to_deck_bottom(w) = Aim(v, 1)
      BY <2>2 DEF md_send_target_to_deck_bottom
    <3> HIDE DEF v
    <3> QED BY <3>5, <3>6, AimedAim
  <2>3. CASE ~idle /\ w.target_index # 0
    <3>1. target \in Live(w)
      BY <2>3, Target
    <3> DEFINE v == move_to_region_end(w, target)
               c == clamp_target(v)
    <3>2. Sound(v) /\ Aimed(w, v)
      BY <3>1, MoveToRegionEnd, AimedMoves DEF SameWindows
    <3>3. md_send_target_to_deck_bottom(w) = [c EXCEPT !.maximized = FALSE]
      BY <2>3 DEF md_send_target_to_deck_bottom
    <3> HIDE DEF v
    <3>4. Sound(c) /\ Aimed(v, c)
      BY <3>2, ClampTarget, AimedMoves DEF SameWindows
    <3> HIDE DEF c
    <3>5. Aimed(c, [c EXCEPT !.maximized = FALSE])
      BY <3>4, AimedBy
    <3> QED BY <3>2, <3>3, <3>4, <3>5, AimedTrans
  <2> QED BY <2>1, <2>2, <2>3
<1> QED BY <1>2, <1>3, <1>4, <1>5, <1>6

LEMMA AimedAction ==
  ASSUME NEW w, Sound(w), NEW action
  PROVE  Aimed(w, seat_action(w, action))
<1> DEFINE Dirty(v) == [v EXCEPT !.focus_dirty = TRUE]
           v == seat_action(w, action)
<1>1. ASSUME NEW u, Sound(u), Aimed(w, u) PROVE Aimed(w, Dirty(u))
  BY <1>1, AimedBy, AimedTrans
<1>2. /\ Sound(md_swap_main_deck(w)) /\ Sound(md_deck_next(w)) /\ Sound(md_deck_prev(w))
      /\ Sound(md_promote_target_to_main(w)) /\ Sound(md_send_target_to_deck_bottom(w))
      /\ Sound(Aim(w, 0)) /\ Sound(Aim(w, 1))
      /\ Sound([w EXCEPT !.maximized = TRUE]) /\ Sound([w EXCEPT !.maximized = FALSE])
      /\ Sound([w EXCEPT !.maximized = ~@])
  <2>1. (~w.maximized) \in BOOLEAN
    OBVIOUS
  <2> QED BY <2>1, SwapMainDeck, DeckNext, DeckPrev, SendTargetToDeckBottom, PromoteTargetToMain,
         Targeted DEF SameWindows
<1>3. \/ v = w \/ v = [w EXCEPT !.maximized = FALSE]
      \/ v = Dirty(Aim(w, 0)) \/ v = Dirty(Aim(w, 1))
      \/ v = Dirty(md_swap_main_deck(w)) \/ v = Dirty(md_deck_next(w))
      \/ v = Dirty(md_deck_prev(w)) \/ v = Dirty(md_send_target_to_deck_bottom(w))
      \/ v = Dirty(md_promote_target_to_main(w))
      \/ v = Dirty([w EXCEPT !.maximized = TRUE]) \/ v = Dirty([w EXCEPT !.maximized = FALSE])
      \/ v = Dirty([w EXCEPT !.maximized = ~@])
  BY DEF seat_action
<1>4. /\ Aimed(w, w) /\ Aimed(w, [w EXCEPT !.maximized = FALSE])
      /\ Aimed(w, [w EXCEPT !.maximized = TRUE]) /\ Aimed(w, [w EXCEPT !.maximized = ~@])
      /\ Aimed(w, Aim(w, 0)) /\ Aimed(w, Aim(w, 1))
  BY AimedBy, AimedSelf
<1> HIDE DEF v, Dirty
<1>5. /\ Aimed(w, Dirty(Aim(w, 0))) /\ Aimed(w, Dirty(Aim(w, 1)))
      /\ Aimed(w, Dirty([w EXCEPT !.maximized = TRUE]))
      /\ Aimed(w, Dirty([w EXCEPT !.maximized = FALSE]))
      /\ Aimed(w, Dirty([w EXCEPT !.maximized = ~@]))
  BY <1>1, <1>2, <1>4
<1>6. /\ Aimed(w, Dirty(md_swap_main_deck(w))) /\ Aimed(w, Dirty(md_deck_next(w)))
      /\ Aimed(w, Dirty(md_deck_prev(w))) /\ Aimed(w, Dirty(md_promote_target_to_main(w)))
      /\ Aimed(w, Dirty(md_send_target_to_deck_bottom(w)))
  BY <1>1, <1>2, AimedDeck
<1>7. Aimed(w, v)
  BY <1>3, <1>4, <1>5, <1>6
<1> QED BY <1>7 DEF v

LEMMA AimedFires ==
  ASSUME NEW w, Sound(w), NEW hold, NEW due
  PROVE  Aimed(w, hold_fires(w, hold, due))
<1> DEFINE u == seat_action(w, hold)
           c == clamp_target(u)
<1>1. Sound(u) /\ Aimed(w, u)
  BY SeatAction, AimedAction DEF SameWindows
<1>2. hold_fires(w, hold, due) = IF hold \in due THEN [c EXCEPT !.manage_dirty = TRUE] ELSE w
  BY DEF hold_fires
<1> HIDE DEF u
<1>3. Sound(c) /\ Aimed(u, c)
  BY <1>1, ClampTarget, AimedMoves DEF SameWindows
<1> HIDE DEF c
<1>4. Aimed(c, [c EXCEPT !.manage_dirty = TRUE])
  BY <1>3, AimedBy
<1> QED BY <1>1, <1>2, <1>3, <1>4, AimedTrans, AimedSelf

LEMMA AimedHold ==
  ASSUME NEW w, Sound(w), NEW due
  PROVE  Aimed(w, process_hold_timers(w, due))
<1> DEFINE a == hold_fires(w, "SWAP_MAIN_DECK", due)
           b == hold_fires(a, "SEND_TARGET_TO_DECK_BOTTOM", due)
           c == hold_fires(b, "PROMOTE_TARGET_TO_MAIN", due)
<1>1. process_hold_timers(w, due) = c
  BY DEF process_hold_timers
<1>2. Sound(a) /\ Aimed(w, a)
  BY HoldFires, AimedFires DEF SameWindows
<1> HIDE DEF a
<1>3. Sound(b) /\ Aimed(w, b)
  BY <1>2, HoldFires, AimedFires, AimedTrans DEF SameWindows
<1> HIDE DEF b
<1>4. Aimed(w, c)
  BY <1>3, AimedFires, AimedTrans
<1> QED BY <1>1, <1>4

\* A hold that fires asks for a manage sequence.
LEMMA HoldsAsk ==
  ASSUME NEW w, Sound(w), NEW due \in SUBSET HoldAction, due # {}
  PROVE  process_hold_timers(w, due).manage_dirty
<1> DEFINE a == hold_fires(w, "SWAP_MAIN_DECK", due)
           b == hold_fires(a, "SEND_TARGET_TO_DECK_BOTTOM", due)
           c == hold_fires(b, "PROMOTE_TARGET_TO_MAIN", due)
<1>1. process_hold_timers(w, due) = c
  BY DEF process_hold_timers
<1>2. ASSUME NEW u, Sound(u), NEW hold
      PROVE  /\ hold \in due => hold_fires(u, hold, due).manage_dirty
             /\ hold \notin due => hold_fires(u, hold, due) = u
  <2> DEFINE v == clamp_target(seat_action(u, hold))
  <2>1. Sound(v)
    BY <1>2, SeatAction, ClampTarget DEF SameWindows
  <2>2. hold_fires(u, hold, due) = IF hold \in due THEN [v EXCEPT !.manage_dirty = TRUE] ELSE u
    BY DEF hold_fires
  <2> HIDE DEF v
  <2> QED BY <2>1, <2>2 DEF Sound, WMState
<1>3. Sound(a)
  BY HoldFires DEF SameWindows
<1>4. "SWAP_MAIN_DECK" \in due => a.manage_dirty
  BY <1>2
<1> HIDE DEF a
<1>5. Sound(b)
  BY <1>3, HoldFires DEF SameWindows
<1>6. /\ "SEND_TARGET_TO_DECK_BOTTOM" \in due => b.manage_dirty
      /\ "SEND_TARGET_TO_DECK_BOTTOM" \notin due => b = a
  BY <1>2, <1>3
<1> HIDE DEF b
<1>7. /\ "PROMOTE_TARGET_TO_MAIN" \in due => c.manage_dirty
      /\ "PROMOTE_TARGET_TO_MAIN" \notin due => c = b
  BY <1>2, <1>5
<1> HIDE DEF c
<1>8. \/ "SWAP_MAIN_DECK" \in due
      \/ "SEND_TARGET_TO_DECK_BOTTOM" \in due
      \/ "PROMOTE_TARGET_TO_MAIN" \in due
  BY DEF HoldAction
<1> QED BY <1>1, <1>4, <1>6, <1>7, <1>8

LEMMA KeptInteraction ==
  ASSUME NEW w, Sound(w)
  PROVE  Kept(w, seat_interaction(w)) /\ seat_interaction(w).interacted = NULL
<1> DEFINE x == w.interacted
           idx == window_index(w, x)
           done == [w EXCEPT !.interacted = NULL]
           m == done.maximized /\ idx = w.target_index
           aimed == [done EXCEPT !.focus_dirty = TRUE, !.target_index = idx, !.maximized = m]
           held == [done EXCEPT !.focused = x]
           v == seat_interaction(w)
<1>1. \/ v = w /\ x = NULL
      \/ v = done \/ v = aimed
      \/ v = held /\ x \in w.floating
  BY DEF seat_interaction
<1> HIDE DEF idx, m, v
<1>2. CASE v = w /\ x = NULL
  BY <1>2 DEF Kept, v
<1>3. CASE v = done
  <2>1. Kept(w, v) /\ v.interacted = NULL
    BY <1>3 DEF Kept, Sound, WMState
  <2> QED BY <2>1 DEF v
<1>4. CASE v = aimed
  <2>1. Kept(w, v) /\ v.interacted = NULL
    BY <1>4 DEF Kept, Sound, WMState
  <2> QED BY <2>1 DEF v
<1>5. CASE v = held /\ x \in w.floating
  <2>1. Kept(w, v) /\ v.interacted = NULL
    BY <1>5 DEF Kept, Sound, WMState
  <2> QED BY <2>1 DEF v
<1> QED BY <1>1, <1>2, <1>3, <1>4, <1>5

LEMMA KeptSeat ==
  ASSUME NEW w, Sound(w)
  PROVE  /\ Kept(w, seat_manage(w))
         /\ seat_manage(w).interacted = NULL /\ seat_manage(w).pending_action = "NONE"
<1> DEFINE v == seat_interaction(w)
           u == seat_action(v, v.pending_action)
           t == [u EXCEPT !.pending_action = "NONE"]
<1>1. Sound(v) /\ Kept(w, v) /\ v.interacted = NULL
  BY SeatInteraction, KeptInteraction DEF SameWindows
<1>2. seat_manage(w) = t
  BY DEF seat_manage
<1> HIDE DEF v
<1>3. Sound(u) /\ Aimed(v, u) /\ Kept(v, u)
  BY <1>1, SeatAction, AimedAction, AimedIs DEF SameWindows
<1> HIDE DEF u
<1>4. Kept(u, t) /\ t.pending_action = "NONE" /\ t.interacted = u.interacted
  BY <1>3 DEF Kept, Sound, WMState
<1>5. u.interacted = NULL
  BY <1>1, <1>3 DEF Aimed
<1> QED BY <1>1, <1>2, <1>3, <1>4, <1>5, KeptTrans

LEMMA KeptActivate ==
  ASSUME NEW w, Sound(w), NEW x \in Live(w)
  PROVE  Kept(w, activate_window_from_taskbar(w, x))
<1> DEFINE idx == window_index(w, x)
           first == Aim(move_first(w, x), 0)
           last == move_last(w, x)
           v == activate_window_from_taskbar(w, x)
<1>1. \/ v = w \/ v = Aim(w, idx) \/ v = first
      \/ v = [first EXCEPT !.minimized = @ \ {x}]
      \/ v = [last EXCEPT !.minimized = @ \ {x}, !.focused = x] /\ x \in w.floating
  BY DEF activate_window_from_taskbar
<1>2. /\ Sound(first) /\ Aimed(w, first)
      /\ Sound(last) /\ Aimed(w, last)
  <2>1. Sound(move_first(w, x)) /\ Aimed(w, move_first(w, x))
    BY MoveFirst, AimedMoves DEF SameWindows
  <2> QED BY <2>1, MoveFirst, MoveLast, AimSame, AimedAim, AimedMoves DEF SameWindows
<1>3. Aimed(w, w) /\ Aimed(w, Aim(w, idx))
  BY AimedSelf, AimedBy
<1> HIDE DEF first, last, v, idx
<1>4. Kept(first, [first EXCEPT !.minimized = @ \ {x}])
  BY <1>2 DEF Kept, Sound, WMState
<1>5. x \in w.floating => Kept(last, [last EXCEPT !.minimized = @ \ {x}, !.focused = x])
  BY <1>2 DEF Kept, Sound, WMState, Aimed
<1>6. Kept(w, w) /\ Kept(w, Aim(w, idx)) /\ Kept(w, first) /\ Kept(w, last)
  BY <1>2, <1>3, AimedIs
<1>7. Kept(w, v)
  <2>1. CASE v = w \/ v = Aim(w, idx) \/ v = first
    BY <1>6, <2>1
  <2>2. CASE v = [first EXCEPT !.minimized = @ \ {x}]
    BY <1>4, <1>6, <2>2, KeptTrans
  <2>3. CASE v = [last EXCEPT !.minimized = @ \ {x}, !.focused = x] /\ x \in w.floating
    BY <1>5, <1>6, <2>3, KeptTrans
  <2> QED BY <1>1, <2>1, <2>2, <2>3
<1> QED BY <1>7 DEF v

LEMMA KeptActivation ==
  ASSUME NEW w, Sound(w)
  PROVE  /\ Kept(w, apply_pending_taskbar_activation(w))
         /\ apply_pending_taskbar_activation(w).pending_activate = NULL
<1> DEFINE x == w.pending_activate
           taken == [w EXCEPT !.pending_activate = NULL]
           v == IF x \in Live(w) \ w.closed THEN activate_window_from_taskbar(taken, x) ELSE taken
<1>1. apply_pending_taskbar_activation(w) = v
  BY DEF apply_pending_taskbar_activation
<1>2. /\ taken \in WMState /\ taken.windows = w.windows /\ taken.parent = w.parent
      /\ taken.focused = w.focused /\ taken.interacted = w.interacted
      /\ taken.pending_float_focus = w.pending_float_focus
  BY DEF Sound, WMState, Pointer
<1>3. Kept(w, taken) /\ taken.pending_activate = NULL
  BY DEF Kept, Sound, WMState
<1>4. Sound(taken) /\ Live(taken) = Live(w)
  BY <1>2, SamePointers DEF SameWindows
<1> HIDE DEF taken, x
<1>5. x \in Live(w) => Kept(taken, activate_window_from_taskbar(taken, x))
  BY <1>4, KeptActivate
<1>6. Kept(taken, v)
  BY <1>5 DEF Kept
<1> HIDE DEF v
<1>7. v.pending_activate = NULL
  BY <1>3, <1>6 DEF Kept
<1> QED BY <1>1, <1>3, <1>6, <1>7, KeptTrans

LEMMA KeptFloatFocus ==
  ASSUME NEW w, Sound(w)
  PROVE  /\ Kept(w, apply_pending_float_focus(w))
         /\ apply_pending_float_focus(w).pending_float_focus = NULL
<1> DEFINE x == w.pending_float_focus
           holds == x # NULL /\ x \notin w.closed /\ x \in w.floating
           p == IF holds THEN x ELSE w.focused
           v == [w EXCEPT !.pending_float_focus = NULL, !.focused = p]
<1>1. apply_pending_float_focus(w) = v
  BY DEF apply_pending_float_focus
<1>2. p = w.focused \/ p \in w.floating
  OBVIOUS
<1> HIDE DEF p
<1>3. Kept(w, v) /\ v.pending_float_focus = NULL
  BY <1>2 DEF Kept, Sound, WMState
<1> QED BY <1>1, <1>3

\* Destroying D: what the last theorems need of it.
LEMMA DestroyFields ==
  ASSUME NEW w, Sound(w), NEW D
  PROVE  LET v == window_destroy_closed(w, D) IN
         /\ v.closed = w.closed \ D /\ v.floating = w.floating \ D
         /\ v.minimized = w.minimized \ D /\ v.fullscreen = w.fullscreen \ D
         /\ v.bar_fullscreen = (w.bar_fullscreen /\ D \cap w.fullscreen = {})
         /\ v.focused = (IF w.focused \in D THEN NULL ELSE w.focused)
         /\ v.focus_dirty = w.focus_dirty
         /\ v.pending_action = w.pending_action /\ v.pending_activate = w.pending_activate
<1> DEFINE v == window_destroy_closed(w, D)
           Nulled(p) == IF p \in D THEN NULL ELSE p
           list == At(w.windows, {i \in DOMAIN w.windows : w.windows[i] \notin D})
           parent == [x \in Window |-> IF x \in D THEN NULL ELSE Nulled(w.parent[x])]
           size == [x \in Window |-> IF x \in D THEN 0 ELSE w.size[x]]
           tile == [x \in Window |-> IF x \in D THEN "none" ELSE w.tile[x]]
           title == [x \in Window |-> IF x \in D THEN "none" ELSE w.title[x]]
           implicit == {x \in w.implicit_parent \ D : w.parent[x] \notin D}
           pf == Nulled(w.pending_float_focus)
           fo == Nulled(w.focused)
           ia == Nulled(w.interacted)
           hidden == w.bar_fullscreen /\ D \cap w.fullscreen = {}
<1>1. v = [w EXCEPT !.windows = list, !.parent = parent,
                    !.implicit_parent = implicit, !.named = @ \ D, !.title = title,
                    !.floating = @ \ D, !.autofloat = @ \ D, !.minimized = @ \ D,
                    !.fullscreen = @ \ D, !.closed = @ \ D,
                    !.size = size, !.tile = tile,
                    !.pending_float_focus = pf, !.focused = fo, !.interacted = ia,
                    !.bar_fullscreen = hidden]
  BY DEF window_destroy_closed, Drop
<1> HIDE DEF list, parent, size, tile, title, implicit, v, pf, fo, ia, hidden
<1>2. /\ v.closed = w.closed \ D /\ v.floating = w.floating \ D
      /\ v.minimized = w.minimized \ D /\ v.fullscreen = w.fullscreen \ D
      /\ v.bar_fullscreen = hidden
      /\ v.focused = fo
      /\ v.focus_dirty = w.focus_dirty
      /\ v.pending_action = w.pending_action /\ v.pending_activate = w.pending_activate
  BY <1>1 DEF Sound, WMState
<1> QED BY <1>2 DEF v, fo, hidden

\* Clamping twice is clamping once: an index that is out of range becomes 0, which
\* is in range unless there is no card at all.
LEMMA ClampTwice ==
  ASSUME NEW w, Sound(w)
  PROVE  clamp_target(clamp_target(w)) = clamp_target(w)
<1> DEFINE c == clamp_target(w)
           count == visible_window_count(w)
<1>1. /\ c.windows = w.windows /\ c.parent = w.parent
      /\ c.minimized = w.minimized /\ c.floating = w.floating
  BY DEF clamp_target, Sound, WMState
<1>2. visible_window_count(c) = count
  BY <1>1 DEF visible_window_count, Shown, IsShown, IsCard
<1>3. count \in Nat
  BY CardList
<1>4. CASE count = 0
  <2>1. c = [w EXCEPT !.target_index = 0, !.maximized = FALSE]
    BY <1>4 DEF clamp_target
  <2>2. clamp_target(c) = [c EXCEPT !.target_index = 0, !.maximized = FALSE]
    BY <1>2, <1>4 DEF clamp_target
  <2>3. [c EXCEPT !.target_index = 0, !.maximized = FALSE] = c
    BY <2>1 DEF Sound, WMState
  <2> QED BY <2>2, <2>3
<1>5. CASE count # 0
  <2>1. c = w \/ c = [w EXCEPT !.target_index = 0]
    BY <1>5 DEF clamp_target
  <2>2. /\ c.target_index = 0 \/ c = w
        /\ c = w => ~(w.target_index > 1 \/ w.target_index >= count) \/ w.target_index = 0
    BY <1>5, <2>1 DEF clamp_target, Sound, WMState
  <2>3. ~(c.target_index > 1 \/ c.target_index >= count)
    BY <1>3, <1>5, <2>2
  <2> QED BY <1>2, <1>5, <2>3 DEF clamp_target
<1> QED BY <1>4, <1>5

\* The state in which a manage sequence takes the layout signature.
LEMMA SettledFields ==
  ASSUME NEW w, Sound(w), NEW due
  PROVE  LET v == Settled(w, due) IN
         /\ v.closed = {}
         /\ v.pending_action = "NONE" /\ v.pending_activate = NULL
         /\ v.pending_float_focus = NULL /\ v.interacted = NULL
         /\ v.minimized \subseteq w.minimized \ w.closed
         /\ v.fullscreen = w.fullscreen \ w.closed
         /\ v.bar_fullscreen = (w.bar_fullscreen /\ w.closed \cap w.fullscreen = {})
         /\ v.focused \in v.floating \cup {IF w.focused \in w.closed THEN NULL ELSE w.focused}
         /\ w.focus_dirty => v.focus_dirty
         /\ clamp_target(v) = v
<1> DEFINE w0 == [w EXCEPT !.manage_dirty = FALSE]
           w1 == window_destroy_closed(w0, w.closed)
           w2 == process_hold_timers(w1, due)
           w3 == seat_manage(w2)
           w4 == apply_pending_taskbar_activation(w3)
           w5 == apply_pending_float_focus(w4)
           w6 == clamp_target(w5)
<1>1. Settled(w, due) = w6
  BY DEF Settled
<1>2. Sound(w0) /\ Aimed(w, w0)
  BY FocusDirtied, AimedBy DEF SameWindows
<1> HIDE DEF w0
<1>3. Sound(w1)
  BY <1>2, DestroyClosed
<1>4. /\ w1.closed = {}
      /\ w1.minimized = w.minimized \ w.closed /\ w1.fullscreen = w.fullscreen \ w.closed
      /\ w1.bar_fullscreen = (w.bar_fullscreen /\ w.closed \cap w.fullscreen = {})
      /\ w1.focused = (IF w.focused \in w.closed THEN NULL ELSE w.focused)
      /\ w.focus_dirty => w1.focus_dirty
  <2>1. /\ w1.closed = w0.closed \ w.closed
        /\ w1.minimized = w0.minimized \ w.closed /\ w1.fullscreen = w0.fullscreen \ w.closed
        /\ w1.bar_fullscreen = (w0.bar_fullscreen /\ w.closed \cap w0.fullscreen = {})
        /\ w1.focused = (IF w0.focused \in w.closed THEN NULL ELSE w0.focused)
        /\ w1.focus_dirty = w0.focus_dirty
    BY <1>2, DestroyFields
  <2> HIDE DEF w1
  <2> QED BY <1>2, <2>1 DEF Aimed
<1> HIDE DEF w1
<1>5. Sound(w2) /\ Kept(w1, w2)
  BY <1>3, ProcessHoldTimers, AimedHold, AimedIs DEF SameWindows
<1> HIDE DEF w2
<1>6. Sound(w3) /\ Kept(w2, w3) /\ w3.interacted = NULL /\ w3.pending_action = "NONE"
  BY <1>5, SeatManage, KeptSeat DEF SameWindows
<1> HIDE DEF w3
<1>7. Sound(w4) /\ Kept(w3, w4) /\ w4.pending_activate = NULL
  BY <1>6, ApplyTaskbarActivation, KeptActivation DEF SameWindows
<1> HIDE DEF w4
<1>8. Sound(w5) /\ Kept(w4, w5) /\ w5.pending_float_focus = NULL
  BY <1>7, ApplyFloatFocus, KeptFloatFocus DEF SameWindows
<1> HIDE DEF w5
<1>9. Aimed(w5, w6) /\ clamp_target(w6) = w6
  BY <1>8, AimedMoves, ClampTwice
<1> HIDE DEF w6
<1>10. Kept(w1, w6)
  BY <1>5, <1>6, <1>7, <1>8, <1>9, KeptTrans, AimedIs
<1>11. /\ w6.pending_action = "NONE" /\ w6.pending_activate = NULL
       /\ w6.pending_float_focus = NULL /\ w6.interacted = NULL
  BY <1>6, <1>7, <1>8, <1>9 DEF Kept, Aimed
<1> QED BY <1>1, <1>4, <1>10, <1>11, <1>9 DEF Kept

-----------------------------------------------------------------------------
(* The inductive invariant.                                                *)

BarShowsGame(w) ==
  w.bar_fullscreen => \E x \in Live(w) : x \in w.fullscreen \ w.minimized

\* What the manage sequence found when it computed a signature sig, as far as
\* it decides where the focus is: as long as nobody asks for the focus to be
\* moved no window appears, and the focus stays where sig has it unless a window
\* sig covers has gone.
FocusMatches(w, sig) ==
  (~w.focus_dirty /\ sig # <<>>) =>
    /\ Live(w) \subseteq Range(sig[1].windows)
    /\ Range(sig[1].windows) \subseteq Live(w) =>
         /\ w.focused \in Range(sig[1].windows) \cup {NULL}
         /\ w.focused \in sig[1].floating \cup {FocusOf(sig[1])}

FInv ==
  /\ BarShowsGame(wm)
  /\ FocusMatches(wm, last_layout_sig)
  /\ FocusFollowsTarget
  /\ NoLostWakeup

\* What keyboard focus is computed from.
LEMMA SameLineage ==
  ASSUME NEW w, NEW v, v.parent = w.parent, NEW x
  PROVE  Lineage(v, x) = Lineage(w, x)
BY DEF Lineage

LEMMA FocusDepends ==
  ASSUME NEW w, NEW v, v.windows = w.windows, v.parent = w.parent, v.minimized = w.minimized,
         v.floating = w.floating, v.target_index = w.target_index, v.maximized = w.maximized
  PROVE  FocusOf(v) = FocusOf(w)
<1>1. \A x : IsShown(v, x) = IsShown(w, x) /\ IsCard(v, x) = IsCard(w, x)
  BY DEF IsShown, IsCard
<1>2. Cards(v) = Cards(w) /\ Shown(v) = Shown(w)
  BY DEF Cards, Shown, IsShown, IsCard
<1>3. target_window(v) = target_window(w)
  BY <1>2 DEF target_window, visible_window_count, window_at, window_count
<1>4. \A x : Lineage(v, x) = Lineage(w, x)
  BY SameLineage
<1>5. \A x : window_is_really_visible(v, x) = window_is_really_visible(w, x)
  BY <1>2, <1>3, <1>4 DEF window_is_really_visible, top_window, single, MainAndDeck,
     visible_window_count
<1>6. \A x : top_window(v, x) = top_window(w, x)
  BY <1>4 DEF top_window
<1> QED BY <1>3, <1>5, <1>6 DEF FocusOf

\* The signature covers all of that.
LEMMA SignedFocus ==
  ASSUME NEW w, NEW v, LayoutOf(v) = LayoutOf(w)
  PROVE  /\ FocusOf(LayoutOf(w)) = FocusOf(w) /\ FocusOf(v) = FocusOf(w)
         /\ v.windows = w.windows /\ v.floating = w.floating
         /\ v.fullscreen = w.fullscreen /\ v.minimized = w.minimized
         /\ LayoutOf(w).windows = w.windows /\ LayoutOf(w).floating = w.floating
<1>1. \A u : /\ LayoutOf(u).windows = u.windows /\ LayoutOf(u).parent = u.parent
             /\ LayoutOf(u).minimized = u.minimized /\ LayoutOf(u).floating = u.floating
             /\ LayoutOf(u).fullscreen = u.fullscreen
             /\ LayoutOf(u).target_index = u.target_index /\ LayoutOf(u).maximized = u.maximized
  BY DEF LayoutOf
<1>2. FocusOf(LayoutOf(w)) = FocusOf(w)
  BY <1>1, FocusDepends
<1>3. FocusOf(v) = FocusOf(w)
  BY <1>1, FocusDepends
<1> QED BY <1>1, <1>2, <1>3

\* Everything but the layout proposals and the focus.
AsSettled(w, v) ==
  /\ LayoutOf(v) = LayoutOf(w)
  /\ v.closed = w.closed /\ v.bar_fullscreen = w.bar_fullscreen
  /\ v.interacted = w.interacted /\ v.pending_float_focus = w.pending_float_focus
  /\ v.pending_action = w.pending_action /\ v.pending_activate = w.pending_activate

LEMMA ManageLayoutFields ==
  ASSUME NEW w, Sound(w)
  PROVE  LET v == window_manage_layout(w) IN
         AsSettled(w, v) /\ v.focused = w.focused /\ v.focus_dirty = w.focus_dirty
<1> DEFINE shown == IF w.maximized THEN {target_window(w)} ELSE MainAndDeck(w)
           tiled == (shown \ w.fullscreen) \cap Unruly
           tile == [x \in Window |-> IF x \in tiled /\ w.tile[x] = "none"
                                     THEN "proposed" ELSE w.tile[x]]
           v == [w EXCEPT !.tile = tile]
<1>1. v = window_manage_layout(w)
  BY DEF window_manage_layout
<1> HIDE DEF tile
<1>2. AsSettled(w, v) /\ v.focused = w.focused /\ v.focus_dirty = w.focus_dirty
  BY DEF Sound, WMState, AsSettled, LayoutOf
<1> QED BY <1>1, <1>2

\* Where a manage sequence that moves the focus leaves it.
LEMMA FocusMoved ==
  ASSUME NEW w, Sound(w), clamp_target(w) = w
  PROVE  LET v == [focus_target_on_seats(w) EXCEPT !.focus_dirty = FALSE] IN
         /\ AsSettled(w, v) /\ ~v.focus_dirty
         /\ v.focused \in v.floating \cup {FocusOf(v)}
<1> DEFINE u == focus_target_on_seats(w)
           v == [u EXCEPT !.focus_dirty = FALSE]
           p == FocusOf(w)
<1>1. (u = w /\ w.focused \in w.floating) \/ u = [w EXCEPT !.focused = p]
  BY DEF focus_target_on_seats, KeepsFloatFocus
<1> HIDE DEF u, p
<1>2. CASE u = w /\ w.focused \in w.floating
  BY <1>2 DEF AsSettled, LayoutOf, Sound, WMState, u
<1>3. CASE u = [w EXCEPT !.focused = p]
  <2>1. AsSettled(w, v) /\ ~v.focus_dirty /\ v.focused = p
    BY <1>3 DEF AsSettled, LayoutOf, Sound, WMState
  <2>2. FocusOf(v) = p
    BY <2>1, SignedFocus DEF AsSettled, p
  <2> QED BY <2>1, <2>2 DEF u
<1> QED BY <1>1, <1>2, <1>3

\* A target that is in range stays so when nothing of the layout changes.
LEMMA ClampSettled ==
  ASSUME NEW w, Sound(w), clamp_target(w) = w, NEW v, Sound(v), AsSettled(w, v)
  PROVE  clamp_target(v) = v
<1> DEFINE count == visible_window_count(w)
<1>1. /\ v.windows = w.windows /\ v.parent = w.parent /\ v.floating = w.floating
      /\ v.minimized = w.minimized /\ v.target_index = w.target_index
      /\ v.maximized = w.maximized
  BY DEF AsSettled, LayoutOf
<1>2. visible_window_count(v) = count
  BY <1>1 DEF visible_window_count, Shown, IsShown, IsCard
<1>3. count = 0 => w.target_index = 0 /\ ~w.maximized
  BY DEF clamp_target, Sound, WMState
<1>4. count # 0 => ~(w.target_index > 1 \/ w.target_index >= count) \/ w.target_index = 0
  BY DEF clamp_target, Sound, WMState
<1>5. count = 0 => clamp_target(v) = v
  BY <1>1, <1>2, <1>3 DEF clamp_target, Sound, WMState
<1>6. count # 0 => clamp_target(v) = v
  BY <1>1, <1>2, <1>4 DEF clamp_target, Sound, WMState
<1> QED BY <1>5, <1>6

\* What a manage sequence leaves: the layout it signed, and the focus where that
\* has it.
LEMMA ManageFocus ==
  ASSUME Sound(wm), FInv, NEW due, NEW moved, wm_handle_manage_start(due, moved)
  PROVE  LET w == Settled(wm, due) IN
         /\ AsSettled(w, wm') /\ ~wm'.focus_dirty
         /\ wm'.focused \in wm'.floating \cup {FocusOf(wm')}
<1> DEFINE w == Settled(wm, due)
           sig == compute_layout_signature(w)
           changed == moved \/ sig # last_layout_sig
           laid == IF changed THEN window_manage_layout(w) ELSE w
<1>2. wm' = IF changed \/ w.focus_dirty
            THEN [focus_target_on_seats(laid) EXCEPT !.focus_dirty = FALSE]
            ELSE laid
  BY DEF wm_handle_manage_start
<1>3. sig # <<>> /\ sig[1] = LayoutOf(w)
  BY DEF compute_layout_signature
<1>4. Sound(w) /\ Live(w) = Live(wm) \ wm.closed
  BY SettledSound
<1>5. /\ w.closed = {}
      /\ w.pending_action = "NONE" /\ w.pending_activate = NULL
      /\ w.pending_float_focus = NULL /\ w.interacted = NULL
      /\ w.minimized \subseteq wm.minimized \ wm.closed
      /\ w.fullscreen = wm.fullscreen \ wm.closed
      /\ w.bar_fullscreen = (wm.bar_fullscreen /\ wm.closed \cap wm.fullscreen = {})
      /\ w.focused \in w.floating \cup {IF wm.focused \in wm.closed THEN NULL ELSE wm.focused}
      /\ wm.focus_dirty => w.focus_dirty
      /\ clamp_target(w) = w
  BY SettledFields
<1> HIDE DEF w, sig
\* When the signature is the last one the focus is still where that one has it.
<1>6. ~changed /\ ~w.focus_dirty => w.focused \in w.floating \cup {FocusOf(w)}
  <2> SUFFICES ASSUME ~changed, ~w.focus_dirty
               PROVE  w.focused \in w.floating \cup {FocusOf(w)}
    OBVIOUS
  <2>1. last_layout_sig = sig /\ ~wm.focus_dirty
    BY <1>5
  <2>2. Range(LayoutOf(w).windows) = Live(w)
    BY SignedFocus DEF Live
  <2>3. /\ wm.focused \in Live(w) \cup {NULL}
        /\ wm.focused \in w.floating \cup {FocusOf(w)}
    BY <1>3, <1>4, <2>1, <2>2, SignedFocus DEF FInv, FocusMatches
  <2>4. wm.focused \notin wm.closed \/ wm.focused = NULL
    BY <1>4, <2>3
  <2> QED BY <1>5, <2>3, <2>4
<1>7. Sound(laid) /\ AsSettled(w, laid) /\ laid.focused = w.focused /\ laid.focus_dirty = w.focus_dirty
  <2>1. AsSettled(w, w)
    BY DEF AsSettled
  <2> QED BY <1>4, <2>1, ManageLayout, ManageLayoutFields DEF SameWindows
<1>8. clamp_target(laid) = laid
  BY <1>4, <1>5, <1>7, ClampSettled
<1> HIDE DEF laid
<1>9. /\ AsSettled(w, wm') /\ ~wm'.focus_dirty
      /\ wm'.focused \in wm'.floating \cup {FocusOf(wm')}
  <2>1. CASE changed \/ w.focus_dirty
    <3>1. AsSettled(laid, wm') /\ ~wm'.focus_dirty /\ wm'.focused \in wm'.floating \cup {FocusOf(wm')}
      BY <1>2, <1>7, <1>8, <2>1, FocusMoved
    <3> QED BY <1>7, <3>1 DEF AsSettled
  <2>2. CASE ~(changed \/ w.focus_dirty)
    <3>1. wm' = w
      BY <1>2, <2>2 DEF laid
    <3> QED BY <1>6, <1>7, <2>2, <3>1 DEF AsSettled
  <2> QED BY <2>1, <2>2
<1> QED BY <1>9 DEF w

LEMMA ManageFInv ==
  ASSUME Sound(wm), FInv, ManageSequence
  PROVE  FInv'
<1>1. PICK due \in SUBSET (Key \cap HoldAction), moved \in BOOLEAN :
        wm_handle_manage_start(due, moved)
  BY DEF ManageSequence
<1> DEFINE w == Settled(wm, due)
           sig == compute_layout_signature(w)
<1>2. last_layout_sig' = sig
  BY <1>1 DEF wm_handle_manage_start
<1>3. sig # <<>> /\ sig[1] = LayoutOf(w)
  BY DEF compute_layout_signature
<1>4. Sound(w) /\ Live(w) = Live(wm) \ wm.closed
  BY SettledSound
<1>5. /\ w.closed = {}
      /\ w.pending_action = "NONE" /\ w.pending_activate = NULL
      /\ w.pending_float_focus = NULL /\ w.interacted = NULL
      /\ w.minimized \subseteq wm.minimized \ wm.closed
      /\ w.fullscreen = wm.fullscreen \ wm.closed
      /\ w.bar_fullscreen = (wm.bar_fullscreen /\ wm.closed \cap wm.fullscreen = {})
      /\ w.focused \in w.floating \cup {IF wm.focused \in wm.closed THEN NULL ELSE wm.focused}
      /\ wm.focus_dirty => w.focus_dirty
      /\ clamp_target(w) = w
  BY SettledFields
<1>9. /\ AsSettled(w, wm') /\ ~wm'.focus_dirty
      /\ wm'.focused \in wm'.floating \cup {FocusOf(wm')}
  BY <1>1, ManageFocus
<1> HIDE DEF w, sig
<1>10. Sound(wm') /\ Live(wm') = Live(w)
  BY <1>9, StepManage, SignedFocus DEF AsSettled, Goal, Live
<1>11. LayoutOf(wm') = sig[1]
  BY <1>3, <1>9 DEF AsSettled
<1>12. NoLostWakeup'
  BY <1>2, <1>5, <1>9, <1>11 DEF NoLostWakeup, AsSettled
<1>13. FocusFollowsTarget'
  BY <1>9 DEF FocusFollowsTarget
<1>14. BarShowsGame(wm')
  <2>1. /\ wm'.bar_fullscreen = w.bar_fullscreen /\ wm'.fullscreen = w.fullscreen
        /\ wm'.minimized = w.minimized
    BY <1>9, SignedFocus DEF AsSettled
  <2> SUFFICES ASSUME wm'.bar_fullscreen
               PROVE  \E x \in Live(wm') : x \in wm'.fullscreen \ wm'.minimized
    BY DEF BarShowsGame
  <2>2. wm.bar_fullscreen /\ wm.closed \cap wm.fullscreen = {}
    BY <1>5, <2>1
  <2>3. PICK x \in Live(wm) : x \in wm.fullscreen \ wm.minimized
    BY <2>2 DEF FInv, BarShowsGame
  <2> QED BY <1>4, <1>5, <1>10, <2>1, <2>2, <2>3
<1>15. FocusMatches(wm', last_layout_sig')
  <2>1. Range(sig[1].windows) = Live(wm') /\ sig[1].floating = wm'.floating
        /\ FocusOf(sig[1]) = FocusOf(wm')
    BY <1>11, SignedFocus DEF Live
  <2>2. wm'.focused \in Live(wm') \cup {NULL}
    BY <1>10 DEF Sound
  <2> QED BY <1>2, <1>9, <2>1, <2>2 DEF FocusMatches
<1> QED BY <1>12, <1>13, <1>14, <1>15 DEF FInv

-----------------------------------------------------------------------------
(* The handlers keep it: each asks for a manage sequence, a new size that  *)
(* changes nothing else excepted.                                          *)

\* Same but for the size and the tile reply of a window.
OnlyResized(w, v) ==
  /\ AsSettled(w, v)
  /\ v.focused = w.focused /\ v.focus_dirty = w.focus_dirty /\ v.manage_dirty = w.manage_dirty

\* What a handler may do.
Handles(w, v) ==
  /\ BarShowsGame(w) => BarShowsGame(v)
  /\ w.focus_dirty => v.focus_dirty
  /\ ~v.focus_dirty => /\ Live(v) \subseteq Live(w)
                       /\ Live(v) = Live(w) => v.focused = w.focused
  /\ v.manage_dirty \/ OnlyResized(w, v)

LEMMA HandlesFInv ==
  ASSUME Sound(wm), FInv, Handles(wm, wm'), UNCHANGED last_layout_sig
  PROVE  FInv'
<1>1. BarShowsGame(wm')
  BY DEF FInv, Handles
<1>2. FocusMatches(wm', last_layout_sig')
  <2> SUFFICES ASSUME ~wm'.focus_dirty, last_layout_sig # <<>>
               PROVE  LET sig == last_layout_sig IN
                      /\ Live(wm') \subseteq Range(sig[1].windows)
                      /\ Range(sig[1].windows) \subseteq Live(wm') =>
                           /\ wm'.focused \in Range(sig[1].windows) \cup {NULL}
                           /\ wm'.focused \in sig[1].floating \cup {FocusOf(sig[1])}
    BY DEF FocusMatches
  <2> DEFINE signed == Range(last_layout_sig[1].windows)
             kept == last_layout_sig[1].floating \cup {FocusOf(last_layout_sig[1])}
  <2>1. /\ Live(wm) \subseteq signed
        /\ signed \subseteq Live(wm) => wm.focused \in signed \cup {NULL} /\ wm.focused \in kept
    BY DEF FInv, FocusMatches, Handles
  <2>2. Live(wm') \subseteq Live(wm) /\ (Live(wm') = Live(wm) => wm'.focused = wm.focused)
    BY DEF Handles
  <2> HIDE DEF signed, kept
  <2>3. Live(wm') \subseteq signed
    BY <2>1, <2>2
  <2>4. signed \subseteq Live(wm') => wm'.focused \in signed \cup {NULL} /\ wm'.focused \in kept
    <3> HAVE signed \subseteq Live(wm')
    <3>1. Live(wm') = Live(wm) /\ signed \subseteq Live(wm)
      BY <2>1, <2>2
    <3> QED BY <2>1, <2>2, <3>1
  <2> QED BY <2>3, <2>4 DEF signed, kept
<1>3. CASE wm'.manage_dirty
  BY <1>1, <1>2, <1>3 DEF FInv, FocusFollowsTarget, NoLostWakeup
<1>4. CASE ~wm'.manage_dirty
  <2>1. OnlyResized(wm, wm')
    BY <1>4 DEF Handles
  <2>2. /\ wm'.floating = wm.floating /\ FocusOf(wm') = FocusOf(wm)
        /\ LayoutOf(wm') = LayoutOf(wm) /\ wm'.focused = wm.focused /\ ~wm.manage_dirty
    BY <1>4, <2>1, SignedFocus DEF OnlyResized, AsSettled
  <2>3. FocusFollowsTarget'
    BY <2>2 DEF FInv, FocusFollowsTarget
  <2>4. NoLostWakeup'
    BY <2>1, <2>2 DEF FInv, NoLostWakeup, OnlyResized, AsSettled
  <2> QED BY <1>1, <1>2, <2>3, <2>4 DEF FInv
<1> QED BY <1>3, <1>4

\* A handler that keeps the windows and what Steady lists, and owes a sequence.
LEMMA SteadyHandles ==
  ASSUME NEW w, Sound(w), NEW v, SameWindows(w, v), Steady(w, v)
  PROVE  /\ v.manage_dirty => Handles(w, v)
         /\ Handles(w, [v EXCEPT !.manage_dirty = TRUE])
<1>1. ASSUME NEW u, Live(u) = Live(w), Steady(w, u), u.manage_dirty
      PROVE  Handles(w, u)
  BY <1>1 DEF Handles, Steady, BarShowsGame
<1> DEFINE u == [v EXCEPT !.manage_dirty = TRUE]
<1>2. Sound(v) /\ Live(v) = Live(w)
  BY DEF SameWindows
<1>3. Live(u) = Live(v) /\ u.manage_dirty /\ Steady(v, u)
  BY <1>2 DEF Sound, WMState, Live, Steady
<1> HIDE DEF u
<1>4. Handles(w, u)
  BY <1>1, <1>2, <1>3, SteadyTrans
<1> QED BY <1>1, <1>2, <1>4 DEF u

LEMMA SteadyDesignate ==
  ASSUME NEW w, Sound(w), NEW x \in Live(w), NEW steal_focus \in BOOLEAN
  PROVE  LET v == window_designate_floating(w, x, steal_focus) IN
         /\ Steady(w, v)
         /\ v = w \/ v.manage_dirty
<1> DEFINE u == move_last(w, x)
           af == IF steal_focus THEN u.autofloat \ {x} ELSE u.autofloat \cup {x}
           pf == IF steal_focus THEN x ELSE u.pending_float_focus
           v == [u EXCEPT !.floating = @ \cup {x}, !.autofloat = af,
                          !.pending_float_focus = pf, !.manage_dirty = TRUE]
           d == window_designate_floating(w, x, steal_focus)
<1>1. d = v \/ d = w
  BY DEF window_designate_floating
<1>2. Sound(u) /\ Steady(w, u)
  BY MoveLast, AimedMoves, AimedIs DEF SameWindows
<1> HIDE DEF u, af, pf
<1>3. Steady(u, v) /\ v.manage_dirty
  BY <1>2 DEF Steady, Sound, WMState
<1>4. Steady(w, w)
  BY DEF Steady
<1> HIDE DEF v, d
<1>5. Steady(w, d) /\ (d = w \/ d.manage_dirty)
  BY <1>1, <1>2, <1>3, <1>4, SteadyTrans
<1> QED BY <1>5 DEF d

LEMMA SteadyParenting ==
  ASSUME NEW w, Sound(w), NEW x, NEW relevant
  PROVE  Steady(w, maybe_apply_implicit_parenting_for(w, x, relevant))
<1>1. Steady(w, w)
  BY DEF Steady
<1>2. ASSUME NEW l, NEW p, NEW a
      PROVE  Steady(w, [w EXCEPT !.windows = l, !.parent = p, !.implicit_parent = @ \cup a,
                                 !.manage_dirty = TRUE])
  BY DEF Steady, Sound, WMState
<1>3. Steady(w, maybe_apply_implicit_parenting(w))
  <2> DEFINE Candidate(i) == /\ w.windows[i] \in w.named \ w.floating
                             /\ w.parent[w.windows[i]] = NULL
             parents == {i \in DOMAIN w.windows : Candidate(i) /\ w.title[w.windows[i]] = "parent"}
             children == {i \in DOMAIN w.windows : Candidate(i) /\ w.title[w.windows[i]] = "other"}
             adopted == {w.windows[i] : i \in children}
             list == At(w.windows, DOMAIN w.windows \ children) \o At(w.windows, children)
             parent == [y \in Window |-> IF y \in adopted THEN w.windows[Min(parents)]
                                         ELSE w.parent[y]]
             v == [w EXCEPT !.windows = list, !.parent = parent,
                            !.implicit_parent = @ \cup adopted, !.manage_dirty = TRUE]
  <2>1. maybe_apply_implicit_parenting(w) = w \/ maybe_apply_implicit_parenting(w) = v
    BY DEF maybe_apply_implicit_parenting
  <2> HIDE DEF list, parent, adopted
  <2>2. Steady(w, v)
    BY <1>2
  <2> HIDE DEF v
  <2> QED BY <1>1, <2>1, <2>2
<1> QED BY <1>1, <1>3 DEF maybe_apply_implicit_parenting_for

LEMMA InsertFields ==
  ASSUME NEW w, Sound(w), NEW x
  PROVE  LET v == md_insert_new_window(w, x) IN
         Steady(w, v) /\ v.focus_dirty
<1> DEFINE rest == Without(w.windows, x)
           others == window_count([w EXCEPT !.windows = rest])
           l == IF others = 0 THEN Append(rest, x) ELSE <<x>> \o rest
           u == Aim(w, 0)
           v == [u EXCEPT !.windows = l, !.focus_dirty = TRUE]
<1>1. v = md_insert_new_window(w, x)
  BY DEF md_insert_new_window
<1>2. Sound(u) /\ Steady(w, u)
  BY Targeted, AimedBy, AimedIs DEF SameWindows
<1> HIDE DEF l, u
<1>3. Steady(u, v) /\ v.focus_dirty
  BY <1>2 DEF Steady, Sound, WMState
<1> HIDE DEF v
<1> QED BY <1>1, <1>2, <1>3, SteadyTrans

\* A handler under which the list may grow, and the focus moves.
LEMMA InsertHandles ==
  ASSUME NEW w, NEW v, Live(w) \subseteq Live(v), Sound(v), Steady(w, v), v.focus_dirty
  PROVE  Handles(w, [v EXCEPT !.manage_dirty = TRUE])
<1> DEFINE u == [v EXCEPT !.manage_dirty = TRUE]
<1>1. Live(u) = Live(v) /\ u.manage_dirty /\ u.focus_dirty /\ Steady(v, u)
  BY DEF Sound, WMState, Live, Steady
<1> HIDE DEF u
<1>2. BarShowsGame(w) => BarShowsGame(u)
  BY <1>1 DEF Steady, BarShowsGame
<1>3. Handles(w, u)
  BY <1>1, <1>2 DEF Handles
<1> QED BY <1>3 DEF u

LEMMA NewWindowHandles ==
  ASSUME Sound(wm), NEW x \in Window, wm_handle_window(x)
  PROVE  Handles(wm, wm')
<1>1. wm' = [md_insert_new_window(wm, x) EXCEPT !.manage_dirty = TRUE]
  BY DEF wm_handle_window, Event, Handled
<1>2. /\ Sound(md_insert_new_window(wm, x)) /\ Live(wm) \subseteq Live(md_insert_new_window(wm, x))
      /\ Steady(wm, md_insert_new_window(wm, x)) /\ md_insert_new_window(wm, x).focus_dirty
  BY InsertNewWindow, InsertFields
<1> QED BY <1>1, <1>2, InsertHandles

LEMMA ClosedHandles ==
  ASSUME Sound(wm), NEW x \in Window, window_handle_closed(x)
  PROVE  Handles(wm, wm')
<1> DEFINE u == [wm EXCEPT !.closed = @ \cup {x}]
           d == window_destroy_closed(u, {x})
           v == IF wm.parent[x] # NULL THEN d ELSE u
<1>1. wm' = [v EXCEPT !.manage_dirty = TRUE] /\ x \in Live(wm)
  BY DEF window_handle_closed, Event, Handled, Open
<1>2. SameWindows(wm, u) /\ Steady(wm, u)
  <2>1. /\ u \in WMState /\ u.windows = wm.windows /\ u.parent = wm.parent
        /\ u.focused = wm.focused /\ u.interacted = wm.interacted
        /\ u.pending_float_focus = wm.pending_float_focus
    BY DEF Sound, WMState
  <2>2. Steady(wm, u)
    BY DEF Steady, Sound, WMState
  <2> QED BY <2>1, <2>2, SamePointers
<1> HIDE DEF u
<1>3. Handles(wm, [u EXCEPT !.manage_dirty = TRUE])
  BY <1>2, SteadyHandles
<1>4. /\ Sound(d) /\ Live(d) = Live(wm) \ {x}
      /\ d.minimized = wm.minimized \ {x} /\ d.fullscreen = wm.fullscreen \ {x}
      /\ d.bar_fullscreen = (wm.bar_fullscreen /\ {x} \cap wm.fullscreen = {})
      /\ wm.focus_dirty => d.focus_dirty
  <2>1. Sound(u) /\ Live(u) = Live(wm)
    BY <1>2 DEF SameWindows
  <2>2. /\ Sound(d) /\ Live(d) = Live(u) \ {x}
        /\ d.minimized = u.minimized \ {x} /\ d.fullscreen = u.fullscreen \ {x}
        /\ d.bar_fullscreen = (u.bar_fullscreen /\ {x} \cap u.fullscreen = {})
        /\ d.focus_dirty = u.focus_dirty
    BY <2>1, DestroyClosed, DestroyFields
  <2> HIDE DEF d
  <2> QED BY <1>2, <2>1, <2>2 DEF Steady
<1> HIDE DEF d
<1>5. Handles(wm, [d EXCEPT !.manage_dirty = TRUE])
  <2> DEFINE e == [d EXCEPT !.manage_dirty = TRUE]
  <2>1. Live(e) = Live(d) /\ e.manage_dirty /\ Steady(d, e)
    BY <1>4 DEF Sound, WMState, Live, Steady
  <2> HIDE DEF e
  <2>2. Live(e) \subseteq Live(wm) /\ Live(e) # Live(wm)
    BY <1>1, <1>4, <2>1
  <2>3. BarShowsGame(wm) => BarShowsGame(e)
    <3> SUFFICES ASSUME BarShowsGame(wm), e.bar_fullscreen
                 PROVE  \E y \in Live(e) : y \in e.fullscreen \ e.minimized
      BY DEF BarShowsGame
    <3>1. wm.bar_fullscreen /\ x \notin wm.fullscreen
      BY <1>4, <2>1 DEF Steady
    <3>2. PICK y \in Live(wm) : y \in wm.fullscreen \ wm.minimized
      BY <3>1 DEF BarShowsGame
    <3> QED BY <1>4, <2>1, <3>1, <3>2 DEF Steady
  <2>4. wm.focus_dirty => e.focus_dirty
    BY <1>4, <2>1 DEF Steady
  <2>5. Handles(wm, e)
    BY <2>1, <2>2, <2>3, <2>4 DEF Handles
  <2> QED BY <2>5 DEF e
<1> QED BY <1>1, <1>3, <1>5

LEMMA AppIdHandles ==
  ASSUME Sound(wm), NEW x \in Window, window_handle_app_id(x)
  PROVE  Handles(wm, wm')
<1> DEFINE w == [wm EXCEPT !.named = @ \cup ({x} \cap Ruled)]
           u == IF x \in Floater THEN window_designate_floating(w, x, TRUE) ELSE w
           v == maybe_apply_implicit_parenting_for(u, x, TRUE)
<1>1. wm' = [v EXCEPT !.manage_dirty = TRUE] /\ x \in Live(wm)
  BY DEF window_handle_app_id, Event, Handled, Open
<1>2. SameWindows(wm, w) /\ Steady(wm, w)
  <2>1. /\ w \in WMState /\ w.windows = wm.windows /\ w.parent = wm.parent
        /\ w.focused = wm.focused /\ w.interacted = wm.interacted
        /\ w.pending_float_focus = wm.pending_float_focus
    BY DEF Sound, WMState
  <2>2. Steady(wm, w)
    BY DEF Steady, Sound, WMState
  <2> QED BY <2>1, <2>2, SamePointers
<1> HIDE DEF w
<1>3. SameWindows(wm, u) /\ Steady(wm, u)
  <2>1. SameWindows(w, window_designate_floating(w, x, TRUE)) /\ Steady(w, window_designate_floating(w, x, TRUE))
    BY <1>1, <1>2, DesignateFloating, SteadyDesignate DEF SameWindows
  <2> QED BY <1>2, <2>1, SameWindowsTrans, SteadyTrans
<1> HIDE DEF u
<1>4. SameWindows(wm, v) /\ Steady(wm, v)
  <2>1. Sound(u)
    BY <1>3 DEF SameWindows
  <2>2. SameWindows(u, v) /\ Steady(u, v)
    BY <2>1, ImplicitParentingFor, SteadyParenting
  <2> QED BY <1>3, <2>2, SameWindowsTrans, SteadyTrans
<1> HIDE DEF v
<1> QED BY <1>1, <1>4, SteadyHandles

LEMMA TitleHandles ==
  ASSUME Sound(wm), NEW x \in Window, NEW t \in Titles[x], window_handle_title(x, t)
  PROVE  Handles(wm, wm')
<1> DEFINE w == [wm EXCEPT !.title[x] = t]
           relevant == wm.title[x] = "none" \/ t = "parent"
           v == maybe_apply_implicit_parenting_for(w, x, relevant)
<1>1. wm' = [v EXCEPT !.manage_dirty = TRUE]
  BY DEF window_handle_title, Event, Handled
<1>2. t \in Title
  BY TitleAssumption DEF TitleAssumption
<1>3. SameWindows(wm, w) /\ Steady(wm, w)
  <2>1. /\ w \in WMState /\ w.windows = wm.windows /\ w.parent = wm.parent
        /\ w.focused = wm.focused /\ w.interacted = wm.interacted
        /\ w.pending_float_focus = wm.pending_float_focus
    BY <1>2 DEF Sound, WMState
  <2>2. Steady(wm, w)
    BY DEF Steady, Sound, WMState
  <2> QED BY <2>1, <2>2, SamePointers
<1> HIDE DEF w, relevant
<1>4. SameWindows(wm, v) /\ Steady(wm, v)
  <2>1. Sound(w)
    BY <1>3 DEF SameWindows
  <2>2. SameWindows(w, v) /\ Steady(w, v)
    BY <2>1, ImplicitParentingFor, SteadyParenting
  <2> QED BY <1>3, <2>2, SameWindowsTrans, SteadyTrans
<1> HIDE DEF v
<1> QED BY <1>1, <1>4, SteadyHandles

LEMMA HintHandles ==
  ASSUME Sound(wm), NEW x \in Window, window_handle_dimensions_hint(x)
  PROVE  Handles(wm, wm')
<1>1. /\ x \in Live(wm)
      /\ wm' = [window_designate_floating(wm, x, FALSE) EXCEPT !.manage_dirty = TRUE]
  BY DEF window_handle_dimensions_hint, Open, Event, Handled
<1>2. /\ SameWindows(wm, window_designate_floating(wm, x, FALSE))
      /\ Steady(wm, window_designate_floating(wm, x, FALSE))
  BY <1>1, DesignateFloating, SteadyDesignate
<1> QED BY <1>1, <1>2, SteadyHandles

\* The one handler that may leave without asking for a manage sequence.
LEMMA DimensionsHandles ==
  ASSUME Sound(wm), NEW x \in Window, NEW s \in Size, NEW reply,
         window_handle_dimensions(x, s, reply)
  PROVE  Handles(wm, wm')
<1> DEFINE sized == [wm EXCEPT !.size[x] = s]
           judged == IsShown(wm, x) /\ x \notin wm.fullscreen /\ wm.tile[x] = "proposed"
           kept == [sized EXCEPT !.tile[x] = "settled"]
           floated == window_designate_floating(sized, x, FALSE)
           tiled == IF judged /\ reply = "match" THEN kept
                    ELSE IF judged /\ reply = "mismatch" THEN floated
                    ELSE sized
           shown == IF wm.parent[x] # NULL /\ window_is_really_visible(wm, x)
                    THEN [tiled EXCEPT !.manage_dirty = TRUE] ELSE tiled
           taking == [shown EXCEPT !.pending_float_focus = x, !.manage_dirty = TRUE]
<1>1. x \in Live(wm) /\ (wm' = shown \/ wm' = taking)
  BY DEF window_handle_dimensions, Handled, Open
<1>2. SameWindows(wm, sized) /\ Steady(wm, sized) /\ OnlyResized(wm, sized)
  <2>1. /\ sized \in WMState /\ sized.windows = wm.windows /\ sized.parent = wm.parent
        /\ sized.focused = wm.focused /\ sized.interacted = wm.interacted
        /\ sized.pending_float_focus = wm.pending_float_focus
    BY DEF Sound, WMState
  <2>2. Steady(wm, sized) /\ OnlyResized(wm, sized)
    BY DEF Steady, OnlyResized, AsSettled, LayoutOf, Sound, WMState
  <2> QED BY <2>1, <2>2, SamePointers
<1> HIDE DEF sized
<1>3. SameWindows(sized, kept) /\ Steady(sized, kept) /\ OnlyResized(sized, kept)
  <2>1. /\ kept \in WMState /\ kept.windows = sized.windows /\ kept.parent = sized.parent
        /\ kept.focused = sized.focused /\ kept.interacted = sized.interacted
        /\ kept.pending_float_focus = sized.pending_float_focus
    BY <1>2 DEF Sound, SameWindows, WMState, TileReply
  <2>2. Steady(sized, kept) /\ OnlyResized(sized, kept)
    BY <1>2 DEF Steady, OnlyResized, AsSettled, LayoutOf, Sound, SameWindows, WMState
  <2> QED BY <1>2, <2>1, <2>2, SamePointers DEF SameWindows
<1>4. /\ SameWindows(sized, floated) /\ Steady(sized, floated)
      /\ floated = sized \/ floated.manage_dirty
  BY <1>1, <1>2, DesignateFloating, SteadyDesignate DEF SameWindows
<1> HIDE DEF kept, floated, judged
<1>5. /\ SameWindows(wm, tiled) /\ Steady(wm, tiled)
      /\ tiled.manage_dirty \/ OnlyResized(wm, tiled)
  <2>1. OnlyResized(wm, kept)
    BY <1>2, <1>3 DEF OnlyResized, AsSettled
  <2> QED BY <1>2, <1>3, <1>4, <2>1, SameWindowsTrans, SteadyTrans
<1> HIDE DEF tiled
<1>6. Sound(tiled) /\ Live(tiled) = Live(wm)
  BY <1>5 DEF SameWindows
<1>7. Handles(wm, tiled) /\ Handles(wm, [tiled EXCEPT !.manage_dirty = TRUE])
  <2>1. Handles(wm, [tiled EXCEPT !.manage_dirty = TRUE])
    BY <1>5, SteadyHandles
  <2>2. BarShowsGame(wm) => BarShowsGame(tiled)
    BY <1>5, <1>6 DEF Steady, BarShowsGame
  <2> QED BY <1>5, <1>6, <2>1, <2>2 DEF Handles, Steady
<1>8. Sound(shown) /\ SameWindows(wm, shown) /\ Steady(wm, shown)
  <2> DEFINE d == [tiled EXCEPT !.manage_dirty = TRUE]
  <2>1. SameWindows(tiled, d) /\ Steady(tiled, d)
    BY <1>6, FocusDirtied, AimedBy, AimedIs
  <2>2. SameWindows(wm, d) /\ Steady(wm, d)
    BY <1>5, <2>1, SameWindowsTrans, SteadyTrans
  <2> QED BY <1>5, <2>2 DEF SameWindows
<1>9. Handles(wm, shown)
  BY <1>7
<1> HIDE DEF shown
<1>10. Handles(wm, taking)
  <2> DEFINE u == [shown EXCEPT !.pending_float_focus = x]
  <2>1. u \in WMState /\ u.windows = shown.windows /\ Steady(shown, u)
    BY <1>1, <1>8, LiveWindows DEF Sound, WMState, Pointer, Steady
  <2>2. taking = [u EXCEPT !.manage_dirty = TRUE]
    BY <1>8 DEF Sound, WMState
  <2>3. Live(taking) = Live(wm) /\ Steady(u, taking) /\ taking.manage_dirty
    <3>1. taking.windows = u.windows /\ Steady(u, taking) /\ taking.manage_dirty
      BY <2>1, <2>2 DEF WMState, Steady
    <3> QED BY <1>8, <2>1, <3>1 DEF Live, SameWindows
  <2> HIDE DEF u, taking
  <2>4. Steady(wm, taking)
    BY <1>8, <2>1, <2>3, SteadyTrans
  <2> QED BY <2>3, <2>4 DEF Handles, Steady, BarShowsGame
<1> QED BY <1>1, <1>9, <1>10

LEMMA ParentHandles ==
  ASSUME Sound(wm), NEW x \in Window, NEW p \in Pointer, window_handle_parent(x, p)
  PROVE  Handles(wm, wm')
<1> DEFINE w == [wm EXCEPT !.parent[x] = p, !.implicit_parent = @ \ {x}]
           child == [w EXCEPT !.floating = @ \ {x}, !.autofloat = @ \ {x}]
           root == [w EXCEPT !.tile[x] = "none"]
           moved == move_last(child, x)
           fresh == md_insert_new_window(root, x)
<1>1. /\ \/ wm' = [w EXCEPT !.manage_dirty = TRUE]
         \/ wm' = [fresh EXCEPT !.manage_dirty = TRUE]
         \/ wm' = [moved EXCEPT !.manage_dirty = TRUE]
         \/ wm' = [child EXCEPT !.manage_dirty = TRUE]
      /\ x \in Live(wm) /\ p \in Live(wm) \cup {NULL}
  BY DEF window_handle_parent, Event, Handled, Open
<1>2. SameWindows(wm, w) /\ Steady(wm, w)
  <2>1. /\ w \in WMState /\ w.windows = wm.windows /\ w.focused = wm.focused
        /\ w.interacted = wm.interacted /\ w.pending_float_focus = wm.pending_float_focus
        /\ w.parent = [wm.parent EXCEPT ![x] = p]
    BY DEF Sound, WMState
  <2>2. \A y \in Window : w.parent[y] \in Live(wm) \cup {NULL}
    BY <1>1, <2>1 DEF Sound, WMState
  <2>3. Steady(wm, w)
    BY DEF Steady, Sound, WMState
  <2> HIDE DEF w
  <2> QED BY <2>1, <2>2, <2>3, LivePointers DEF Sound
<1> HIDE DEF w
<1>3. SameWindows(w, child) /\ Steady(w, child)
  <2>1. /\ child \in WMState /\ child.windows = w.windows /\ child.parent = w.parent
        /\ child.focused = w.focused /\ child.interacted = w.interacted
        /\ child.pending_float_focus = w.pending_float_focus
    BY <1>2 DEF Sound, SameWindows, WMState
  <2>2. Steady(w, child)
    BY <1>2 DEF Steady, Sound, SameWindows, WMState
  <2> QED BY <1>2, <2>1, <2>2, SamePointers DEF SameWindows
<1>4. SameWindows(w, root) /\ Steady(w, root)
  <2>1. /\ root \in WMState /\ root.windows = w.windows /\ root.parent = w.parent
        /\ root.focused = w.focused /\ root.interacted = w.interacted
        /\ root.pending_float_focus = w.pending_float_focus
    BY <1>2 DEF Sound, SameWindows, WMState, TileReply
  <2>2. Steady(w, root)
    BY <1>2 DEF Steady, Sound, SameWindows, WMState
  <2> QED BY <1>2, <2>1, <2>2, SamePointers DEF SameWindows
<1> HIDE DEF child, root
<1>5. /\ SameWindows(wm, child) /\ SameWindows(wm, root)
      /\ Steady(wm, child) /\ Steady(wm, root)
  BY <1>2, <1>3, <1>4, SameWindowsTrans, SteadyTrans
<1>6. Sound(child) /\ Sound(root) /\ Live(child) = Live(wm) /\ Live(root) = Live(wm)
  BY <1>5 DEF SameWindows
<1>7. SameWindows(wm, moved) /\ Steady(wm, moved)
  <2>1. SameWindows(child, moved) /\ Steady(child, moved)
    BY <1>1, <1>6, MoveLast, AimedMoves, AimedIs
  <2> QED BY <1>5, <2>1, SameWindowsTrans, SteadyTrans
<1>8. Sound(fresh) /\ Live(wm) \subseteq Live(fresh) /\ Steady(wm, fresh) /\ fresh.focus_dirty
  <2>1. Sound(fresh) /\ Live(fresh) = Live(root) \cup {x} /\ Steady(root, fresh) /\ fresh.focus_dirty
    BY <1>6, InsertNewWindow, InsertFields
  <2> QED BY <1>5, <1>6, <2>1, SteadyTrans
<1> HIDE DEF moved, fresh
<1>9. Handles(wm, [fresh EXCEPT !.manage_dirty = TRUE])
  BY <1>8, InsertHandles
<1>10. /\ Handles(wm, [w EXCEPT !.manage_dirty = TRUE])
       /\ Handles(wm, [moved EXCEPT !.manage_dirty = TRUE])
       /\ Handles(wm, [child EXCEPT !.manage_dirty = TRUE])
  BY <1>2, <1>5, <1>7, SteadyHandles
<1> QED BY <1>1, <1>9, <1>10

\* A handler that keeps the windows and the focus and leaves the bar as the
\* fullscreen windows want it.
LEMMA BarHandles ==
  ASSUME NEW w, NEW v, SameWindows(w, v), BarShowsGame(w) => BarShowsGame(v),
         v.focused = w.focused, w.focus_dirty => v.focus_dirty
  PROVE  Handles(w, [v EXCEPT !.manage_dirty = TRUE])
<1> DEFINE u == [v EXCEPT !.manage_dirty = TRUE]
<1>1. Live(u) = Live(v) /\ u.manage_dirty /\ Steady(v, u) /\ Live(v) = Live(w)
  BY DEF SameWindows, Sound, WMState, Live, Steady
<1> HIDE DEF u
<1>2. BarShowsGame(v) => BarShowsGame(u)
  BY <1>1 DEF Steady, BarShowsGame
<1>3. Handles(w, u)
  BY <1>1, <1>2 DEF Handles, Steady
<1> QED BY <1>3 DEF u

LEMMA FullscreenHandles ==
  ASSUME Sound(wm), NEW x \in Window, window_handle_fullscreen_requested(x)
  PROVE  Handles(wm, wm')
<1> DEFINE w == [wm EXCEPT !.fullscreen = @ \cup {x}]
           idx == window_index(w, x)
           raised == IF idx \in {0, 1} THEN Aim(w, idx)
                     ELSE IF idx >= 2 THEN Aim(move_first(w, x), 0)
                     ELSE [w EXCEPT !.maximized = FALSE]
           hidden == [raised EXCEPT !.bar_fullscreen = TRUE]
           v == IF x \in wm.minimized THEN w ELSE hidden
<1>1. wm' = [v EXCEPT !.manage_dirty = TRUE] /\ x \in Live(wm)
  BY DEF window_handle_fullscreen_requested, Event, Handled, Open
<1>2. /\ SameWindows(wm, w)
      /\ w.fullscreen = wm.fullscreen \cup {x} /\ w.minimized = wm.minimized
      /\ w.bar_fullscreen = wm.bar_fullscreen /\ w.focused = wm.focused
      /\ w.focus_dirty = wm.focus_dirty
  <2>1. /\ w \in WMState /\ w.windows = wm.windows /\ w.parent = wm.parent
        /\ w.focused = wm.focused /\ w.interacted = wm.interacted
        /\ w.pending_float_focus = wm.pending_float_focus
        /\ w.fullscreen = wm.fullscreen \cup {x} /\ w.minimized = wm.minimized
        /\ w.bar_fullscreen = wm.bar_fullscreen /\ w.focus_dirty = wm.focus_dirty
    BY DEF Sound, WMState
  <2> QED BY <2>1, SamePointers
<1> HIDE DEF w, idx
<1>3. Sound(w) /\ x \in Live(w) /\ Live(w) = Live(wm)
  BY <1>1, <1>2 DEF SameWindows
<1>4. SameWindows(w, raised) /\ Steady(w, raised)
  <2>1. idx \in {0, 1} => SameWindows(w, Aim(w, idx)) /\ Aimed(w, Aim(w, idx))
    BY <1>3, Targeted, AimedBy
  <2>2. SameWindows(w, Aim(move_first(w, x), 0)) /\ Aimed(w, Aim(move_first(w, x), 0))
    BY <1>3, MoveFirst, AimSame, AimedMoves, AimedAim DEF SameWindows
  <2>3. SameWindows(w, [w EXCEPT !.maximized = FALSE]) /\ Aimed(w, [w EXCEPT !.maximized = FALSE])
    BY <1>3, Targeted, AimedBy
  <2> QED BY <2>1, <2>2, <2>3, AimedIs
<1> HIDE DEF raised
<1>5. /\ SameWindows(raised, hidden)
      /\ hidden.fullscreen = raised.fullscreen /\ hidden.minimized = raised.minimized
      /\ hidden.focused = raised.focused /\ hidden.focus_dirty = raised.focus_dirty
  <2>1. /\ hidden \in WMState /\ hidden.windows = raised.windows /\ hidden.parent = raised.parent
        /\ hidden.focused = raised.focused /\ hidden.interacted = raised.interacted
        /\ hidden.pending_float_focus = raised.pending_float_focus
        /\ hidden.fullscreen = raised.fullscreen /\ hidden.minimized = raised.minimized
        /\ hidden.focus_dirty = raised.focus_dirty
    BY <1>4 DEF Sound, SameWindows, WMState
  <2> QED BY <1>4, <2>1, SamePointers DEF SameWindows
<1> HIDE DEF hidden
\* A minimised window is made fullscreen without hiding the bar.
<1>6. CASE x \in wm.minimized
  <2>1. BarShowsGame(wm) => BarShowsGame(w)
    BY <1>2, <1>3 DEF BarShowsGame
  <2>2. Handles(wm, [w EXCEPT !.manage_dirty = TRUE])
    BY <1>2, <2>1, BarHandles
  <2> QED BY <1>1, <1>6, <2>2
<1>7. CASE x \notin wm.minimized
  <2>1. SameWindows(wm, hidden) /\ x \in Live(hidden)
    BY <1>1, <1>2, <1>4, <1>5, SameWindowsTrans DEF SameWindows
  <2>2. x \in hidden.fullscreen \ hidden.minimized
    BY <1>2, <1>4, <1>5, <1>7 DEF Steady
  <2>3. BarShowsGame(hidden)
    BY <2>1, <2>2 DEF BarShowsGame
  <2>4. hidden.focused = wm.focused /\ (wm.focus_dirty => hidden.focus_dirty)
    BY <1>2, <1>4, <1>5 DEF Steady
  <2>5. Handles(wm, [hidden EXCEPT !.manage_dirty = TRUE])
    BY <2>1, <2>3, <2>4, BarHandles
  <2> QED BY <1>1, <1>7, <2>5
<1> QED BY <1>6, <1>7

LEMMA ExitFullscreenHandles ==
  ASSUME Sound(wm), NEW x \in Window, window_handle_exit_fullscreen_requested(x)
  PROVE  Handles(wm, wm')
<1> DEFINE v == [wm EXCEPT !.fullscreen = @ \ {x}, !.bar_fullscreen = FALSE]
<1>1. wm' = [v EXCEPT !.manage_dirty = TRUE]
  BY DEF window_handle_exit_fullscreen_requested, Event, Handled
<1>2. /\ v \in WMState /\ v.windows = wm.windows /\ v.parent = wm.parent
      /\ v.focused = wm.focused /\ v.interacted = wm.interacted
      /\ v.pending_float_focus = wm.pending_float_focus
      /\ ~v.bar_fullscreen /\ v.focus_dirty = wm.focus_dirty
  BY DEF Sound, WMState
<1>3. SameWindows(wm, v) /\ BarShowsGame(v)
  BY <1>2, SamePointers DEF BarShowsGame
<1> HIDE DEF v
<1> QED BY <1>1, <1>2, <1>3, BarHandles

LEMMA MinimizeHandles ==
  ASSUME Sound(wm), NEW x \in Window, window_handle_minimize_requested(x)
  PROVE  Handles(wm, wm')
<1> DEFINE u == Aim(move_last(wm, x), 0)
           b == u.bar_fullscreen /\ x \notin wm.fullscreen
           v == [u EXCEPT !.minimized = @ \cup {x}, !.fullscreen = @ \ {x}, !.bar_fullscreen = b]
<1>1. wm' = [v EXCEPT !.manage_dirty = TRUE] /\ x \in Live(wm)
  BY DEF window_handle_minimize_requested, Event, Handled, Open
<1>2. SameWindows(wm, u) /\ Steady(wm, u)
  <2>1. SameWindows(wm, move_last(wm, x)) /\ Aimed(wm, move_last(wm, x))
    BY <1>1, MoveLast, AimedMoves
  <2> QED BY <2>1, AimSame, AimedAim, AimedIs DEF SameWindows
<1>3. b \in BOOLEAN /\ (b => u.bar_fullscreen /\ x \notin wm.fullscreen)
  OBVIOUS
<1> HIDE DEF u, b
<1>4. /\ SameWindows(u, v)
      /\ v.minimized = u.minimized \cup {x} /\ v.fullscreen = u.fullscreen \ {x}
      /\ v.bar_fullscreen = b /\ v.focused = u.focused /\ v.focus_dirty = u.focus_dirty
  <2>1. /\ v \in WMState /\ v.windows = u.windows /\ v.parent = u.parent
        /\ v.focused = u.focused /\ v.interacted = u.interacted
        /\ v.pending_float_focus = u.pending_float_focus
        /\ v.minimized = u.minimized \cup {x} /\ v.fullscreen = u.fullscreen \ {x}
        /\ v.bar_fullscreen = b /\ v.focus_dirty = u.focus_dirty
    BY <1>2, <1>3 DEF Sound, SameWindows, WMState
  <2> QED BY <1>2, <2>1, SamePointers DEF SameWindows
<1> HIDE DEF v
<1>5. SameWindows(wm, v)
  BY <1>2, <1>4, SameWindowsTrans
<1>6. BarShowsGame(wm) => BarShowsGame(v)
  <2> SUFFICES ASSUME BarShowsGame(wm), v.bar_fullscreen
               PROVE  \E y \in Live(v) : y \in v.fullscreen \ v.minimized
    BY DEF BarShowsGame
  <2>1. wm.bar_fullscreen /\ x \notin wm.fullscreen
    BY <1>2, <1>3, <1>4 DEF Steady
  <2>2. PICK y \in Live(wm) : y \in wm.fullscreen \ wm.minimized
    BY <2>1 DEF BarShowsGame
  <2> QED BY <1>2, <1>4, <1>5, <2>1, <2>2 DEF Steady, SameWindows
<1>7. v.focused = wm.focused /\ (wm.focus_dirty => v.focus_dirty)
  BY <1>2, <1>4 DEF Steady
<1> QED BY <1>1, <1>5, <1>6, <1>7, BarHandles

LEMMA SeatHandles ==
  ASSUME Sound(wm), SeatEvent
  PROVE  Handles(wm, wm')
<1>1. ASSUME NEW action \in Key, xkb_binding_handle(action)
      PROVE  Handles(wm, wm')
  <2> DEFINE v == [wm EXCEPT !.pending_action = action]
  <2>1. wm' = [v EXCEPT !.manage_dirty = TRUE]
    BY <1>1 DEF xkb_binding_handle, Event, Handled
  <2>2. /\ v \in WMState /\ v.windows = wm.windows /\ v.parent = wm.parent
        /\ v.focused = wm.focused /\ v.interacted = wm.interacted
        /\ v.pending_float_focus = wm.pending_float_focus
    BY BoundAssumption DEF BoundAssumption, Sound, WMState
  <2>3. SameWindows(wm, v) /\ Steady(wm, v)
    <3>1. Steady(wm, v)
      BY DEF Steady, Sound, WMState
    <3> QED BY <2>2, <3>1, SamePointers
  <2> HIDE DEF v
  <2> QED BY <2>1, <2>3, SteadyHandles
<1>2. ASSUME NEW x \in Window, seat_handle_window_interaction(x)
      PROVE  Handles(wm, wm')
  <2> DEFINE v == [wm EXCEPT !.interacted = x]
  <2>1. wm' = [v EXCEPT !.manage_dirty = TRUE] /\ x \in Live(wm)
    BY <1>2 DEF seat_handle_window_interaction, Event, Handled, Open
  <2>2. /\ v \in WMState /\ v.windows = wm.windows /\ v.parent = wm.parent
        /\ v.focused = wm.focused /\ v.interacted = x
        /\ v.pending_float_focus = wm.pending_float_focus
    BY DEF Sound, WMState, Pointer
  <2>3. SameWindows(wm, v) /\ Steady(wm, v)
    <3>1. Steady(wm, v)
      BY DEF Steady, Sound, WMState
    <3> QED BY <2>1, <2>2, <3>1, LivePointers DEF Sound
  <2> HIDE DEF v
  <2> QED BY <2>1, <2>3, SteadyHandles
<1>3. CASE layer_shell_seat_handle_focus_none
  <2>1. wm' = [[wm EXCEPT !.focus_dirty = TRUE] EXCEPT !.manage_dirty = TRUE]
    BY <1>3 DEF layer_shell_seat_handle_focus_none, Event, Handled
  <2>2. /\ SameWindows(wm, [wm EXCEPT !.focus_dirty = TRUE])
        /\ Steady(wm, [wm EXCEPT !.focus_dirty = TRUE])
    BY FocusDirtied, AimedBy, AimedIs
  <2> QED BY <2>1, <2>2, SteadyHandles
<1>4. ASSUME NEW due \in SUBSET (Key \cap HoldAction), hold_timeout(due)
      PROVE  Handles(wm, wm')
  <2> DEFINE v == process_hold_timers(wm, due)
  <2>1. wm' = v
    BY <1>4 DEF hold_timeout, Handled
  <2>2. SameWindows(wm, v) /\ Steady(wm, v)
    BY ProcessHoldTimers, AimedHold, AimedIs
  <2>3. v.manage_dirty
    BY <1>4, HoldsAsk DEF hold_timeout
  <2> HIDE DEF v
  <2> QED BY <2>1, <2>2, <2>3, SteadyHandles
<1> QED BY <1>1, <1>2, <1>3, <1>4 DEF SeatEvent

LEMMA IpcHandles ==
  ASSUME Sound(wm), NEW x \in Window, ipc_handle_message(x)
  PROVE  Handles(wm, wm')
<1> DEFINE v == [wm EXCEPT !.pending_activate = x, !.manage_dirty = TRUE]
<1>1. wm' = v
  BY DEF ipc_handle_message, Handled
<1>2. /\ v \in WMState /\ v.windows = wm.windows /\ v.parent = wm.parent
      /\ v.focused = wm.focused /\ v.interacted = wm.interacted
      /\ v.pending_float_focus = wm.pending_float_focus
      /\ v.manage_dirty
  BY DEF Sound, WMState, Pointer
<1>3. SameWindows(wm, v) /\ Steady(wm, v)
  <2>1. Steady(wm, v)
    BY DEF Steady, Sound, WMState
  <2> QED BY <1>2, <2>1, SamePointers
<1> HIDE DEF v
<1> QED BY <1>1, <1>2, <1>3, SteadyHandles

\* No handler touches the signature.
LEMMA HandlersKeepSignature ==
  ASSUME Next
  PROVE  UNCHANGED last_layout_sig \/ ManageSequence
<1>1. CASE \E x \in Window : WindowEvent(x)
  <2>1. PICK x \in Window : WindowEvent(x)
    BY <1>1
  <2>2. ASSUME NEW s \in Size, NEW reply, window_handle_dimensions(x, s, reply)
        PROVE  UNCHANGED last_layout_sig
    BY <2>2 DEF window_handle_dimensions, Handled
  <2>3. ASSUME NEW p \in Pointer, window_handle_parent(x, p)
        PROVE  UNCHANGED last_layout_sig
    BY <2>3 DEF window_handle_parent, Event, Handled
  <2>4. ASSUME NEW t, window_handle_title(x, t)
        PROVE  UNCHANGED last_layout_sig
    BY <2>4 DEF window_handle_title, Event, Handled
  <2>5. CASE wm_handle_window(x) \/ window_handle_closed(x) \/ window_handle_app_id(x)
             \/ window_handle_dimensions_hint(x)
    BY <2>5 DEF wm_handle_window, window_handle_closed, window_handle_app_id,
       window_handle_dimensions_hint, Event, Handled
  <2>6. CASE window_handle_fullscreen_requested(x) \/ window_handle_exit_fullscreen_requested(x)
             \/ window_handle_minimize_requested(x)
    BY <2>6 DEF window_handle_fullscreen_requested, window_handle_exit_fullscreen_requested,
       window_handle_minimize_requested, Event, Handled
  <2> QED BY <2>1, <2>2, <2>3, <2>4, <2>5, <2>6 DEF WindowEvent
<1>2. CASE SeatEvent
  BY <1>2 DEF SeatEvent, xkb_binding_handle, seat_handle_window_interaction,
     layer_shell_seat_handle_focus_none, hold_timeout, Event, Handled
<1>3. CASE \E x \in Window : ipc_handle_message(x)
  BY <1>3 DEF ipc_handle_message, Handled
<1> QED BY <1>1, <1>2, <1>3 DEF Next

LEMMA StepFInv ==
  ASSUME Sound(wm), FInv, Next
  PROVE  FInv'
<1>1. CASE ManageSequence
  BY <1>1, ManageFInv
<1>2. CASE ~ManageSequence
  <2>1. UNCHANGED last_layout_sig
    BY <1>2, HandlersKeepSignature
  <2>2. ASSUME NEW x \in Window, WindowEvent(x)
        PROVE  Handles(wm, wm')
    BY <2>2, NewWindowHandles, ClosedHandles, AppIdHandles, TitleHandles, HintHandles,
       DimensionsHandles, ParentHandles, FullscreenHandles, ExitFullscreenHandles,
       MinimizeHandles DEF WindowEvent
  <2>3. Handles(wm, wm')
    BY <1>2, <2>2, SeatHandles, IpcHandles DEF Next
  <2> QED BY <2>1, <2>3, HandlesFInv
<1> QED BY <1>1, <1>2

LEMMA InitFInv ==
  ASSUME Init
  PROVE  FInv
<1>1. /\ wm.windows = <<>> /\ wm.target_index = 0 /\ ~wm.bar_fullscreen /\ ~wm.focus_dirty
      /\ wm.pending_action = "NONE" /\ wm.pending_activate = NULL
      /\ wm.pending_float_focus = NULL /\ wm.interacted = NULL /\ wm.focused = NULL
      /\ wm.closed = {} /\ last_layout_sig = <<>>
  BY DEF Init
<1>2. FocusOf(wm) = NULL
  <2>1. DOMAIN wm.windows = {}
    BY <1>1
  <2> DEFINE J == {i \in DOMAIN wm.windows : IsShown(wm, wm.windows[i])}
  <2>2. J = {}
    BY <2>1
  <2>3. wm.windows \in Seq(Window) /\ IsInjective(wm.windows)
    BY InitSound DEF IInv, Sound, WMState
  <2> HIDE DEF J
  <2>4. Len(At(wm.windows, J)) = Cardinality(J) /\ Cardinality(J) = 0
    BY <2>2, <2>3, AtProperties, FS_EmptySet
  <2>5. visible_window_count(wm) = 0
    BY <2>4 DEF visible_window_count, Shown, J
  <2>6. target_window(wm) = NULL
    BY <1>1, <2>5 DEF target_window
  <2> QED BY <2>6 DEF FocusOf
<1> QED BY <1>1, <1>2 DEF FInv, BarShowsGame, FocusMatches, FocusFollowsTarget, NoLostWakeup

LEMMA FocusInvariance == Spec => []FInv
<1>1. Init => FInv
  BY InitFInv
<1>2. IInv /\ FInv /\ [Next]_vars => FInv'
  <2> SUFFICES ASSUME IInv, FInv, [Next]_vars PROVE FInv'
    OBVIOUS
  <2>1. CASE Next
    BY <2>1, StepFInv DEF IInv
  <2>2. CASE UNCHANGED vars
    BY <2>2 DEF vars, FInv, BarShowsGame, FocusMatches, FocusFollowsTarget, NoLostWakeup
  <2> QED BY <2>1, <2>2
<1> QED BY <1>1, <1>2, Invariance, PTL DEF Spec

\* When no manage sequence is owed the focus is on the target, on the topmost
\* dialog over it or on a floating window, whatever was handled since: the
\* layout signature and focus_dirty together miss no reason to move it.
THEOREM FocusIsOnTarget == Spec => []FocusFollowsTarget
<1>1. FInv => FocusFollowsTarget
  BY DEF FInv
<1> QED BY <1>1, FocusInvariance, PTL

\* Whatever is left for the manage sequence, one is owed for it: no slot stays
\* full, no closed window stays in the list and no change of layout unsent.
THEOREM WakeupsKept == Spec => []NoLostWakeup
<1>1. FInv => NoLostWakeup
  BY DEF FInv
<1> QED BY <1>1, FocusInvariance, PTL

\* The bar is hidden only while a window of the list that is not minimised is
\* fullscreen, so it comes back when the last one closes, leaves or is minimised.
THEOREM BarComesBack == Spec => []BarHiddenOnlyForFullscreen
<1>1. FInv => BarHiddenOnlyForFullscreen
  BY DEF FInv, BarShowsGame, BarHiddenOnlyForFullscreen
<1> QED BY <1>1, FocusInvariance, PTL

-----------------------------------------------------------------------------
(***************************************************************************)
(* The window manager implements the deck, for any number of windows that  *)
(* can only be cards.                                                      *)
(*                                                                         *)
(* The argument: between two operations the list of the window manager is  *)
(* some cards c followed by the icons m (Cut, Dealt), although no code     *)
(* says so.  With that, what the code finds by counting is found in c, so  *)
(* each operation on the list has a lemma that says which move of the deck *)
(* it makes (Plays), and a manage sequence makes the moves that it was     *)
(* asked for in the order of the deck (Sequel).  A handler is an event of  *)
(* the deck (DeckEvent), a sequence a sequence (DeckSequence).             *)
(***************************************************************************)

Dk(c, icons, t, z) == [cards |-> c, icons |-> icons, target |-> t, zoomed |-> z]
DeckOf(w) == Dk(Shown(w), w.minimized, w.target_index + 1, w.maximized)

\* The list of w is the cards c, then the icons m, and nothing else is in it.
Arranged(w, c, m) ==
  /\ c \in Seq(Window) /\ m \in Seq(Window)
  /\ w.windows = c \o m
  /\ \A x \in Window : w.parent[x] = NULL
  /\ w.floating = {}
  /\ Range(c) \cap w.minimized = {}
  /\ Range(m) \subseteq w.minimized

Cut(w, c, m) ==
  /\ Sound(w)
  /\ Arranged(w, c, m)
  /\ w.minimized = Range(m)
  /\ w.target_index \in {0, 1}

Dealt(w) == \E c, m \in Seq(Window) : Cut(w, c, m)

-----------------------------------------------------------------------------
(* The deck's own operators, on a deck given by its parts.                 *)

LEMMA DeckLists ==
  ASSUME NEW s, NEW x, NEW D
  PROVE  /\ TheDeck!Without(s, x) = Without(s, x)
         /\ TheDeck!Drop(s, D) = Drop(s, D)
         /\ TheDeck!Range(s) = Range(s)
<1>1. TheDeck!Without(s, x) = Without(s, x)
  BY DEF TheDeck!Without, TheDeck!At, TheDeck!Nth, TheDeck!Cardinality,
         Without, At, Nth, Cardinality
<1>2. TheDeck!Drop(s, D) = Drop(s, D)
  BY DEF TheDeck!Drop, TheDeck!At, TheDeck!Nth, TheDeck!Cardinality,
         Drop, At, Nth, Cardinality
<1>3. TheDeck!Range(s) = Range(s)
  BY DEF TheDeck!Range, Range
<1> QED BY <1>1, <1>2, <1>3

Decks == [cards : Seq(Window), icons : SUBSET Window, target : Nat, zoomed : BOOLEAN]

LEMMA DeckParts ==
  ASSUME NEW c \in Seq(Window), NEW icons \in SUBSET Window, NEW t \in Nat, NEW z \in BOOLEAN
  PROVE  /\ Dk(c, icons, t, z) \in Decks
         /\ Dk(c, icons, t, z).cards = c /\ Dk(c, icons, t, z).icons = icons
         /\ Dk(c, icons, t, z).target = t /\ Dk(c, icons, t, z).zoomed = z
BY DEF Dk, Decks

LEMMA DeckIs ==
  ASSUME NEW d \in Decks
  PROVE  d = Dk(d.cards, d.icons, d.target, d.zoomed)
BY DEF Dk, Decks

\* Single assignments.
LEMMA PutCards ==
  ASSUME NEW d \in Decks, NEW c \in Seq(Window)
  PROVE  [d EXCEPT !.cards = c] = Dk(c, d.icons, d.target, d.zoomed)
<1> DEFINE e == [d EXCEPT !.cards = c]
<1>1. /\ e \in Decks
      /\ e.cards = c /\ e.icons = d.icons /\ e.target = d.target /\ e.zoomed = d.zoomed
  BY DEF Decks
<1> HIDE DEF e
<1>2. e = Dk(c, d.icons, d.target, d.zoomed)
  BY <1>1, DeckIs
<1> QED BY <1>2 DEF e

LEMMA PutCardsIcons ==
  ASSUME NEW d \in Decks, NEW c \in Seq(Window), NEW icons \in SUBSET Window
  PROVE  [d EXCEPT !.cards = c, !.icons = icons] = Dk(c, icons, d.target, d.zoomed)
<1> DEFINE e == [d EXCEPT !.cards = c, !.icons = icons]
<1>1. /\ e \in Decks
      /\ e.cards = c /\ e.icons = icons /\ e.target = d.target /\ e.zoomed = d.zoomed
  BY DEF Decks
<1> HIDE DEF e
<1>2. e = Dk(c, icons, d.target, d.zoomed)
  BY <1>1, DeckIs
<1> QED BY <1>2 DEF e

LEMMA PutTarget ==
  ASSUME NEW d \in Decks, NEW t \in Nat
  PROVE  [d EXCEPT !.target = t] = Dk(d.cards, d.icons, t, d.zoomed)
<1> DEFINE e == [d EXCEPT !.target = t]
<1>1. /\ e \in Decks
      /\ e.cards = d.cards /\ e.icons = d.icons /\ e.target = t /\ e.zoomed = d.zoomed
  BY DEF Decks
<1> HIDE DEF e
<1>2. e = Dk(d.cards, d.icons, t, d.zoomed)
  BY <1>1, DeckIs
<1> QED BY <1>2 DEF e

LEMMA PutZoomed ==
  ASSUME NEW d \in Decks, NEW z \in BOOLEAN
  PROVE  [d EXCEPT !.zoomed = z] = Dk(d.cards, d.icons, d.target, z)
<1> DEFINE e == [d EXCEPT !.zoomed = z]
<1>1. /\ e \in Decks
      /\ e.cards = d.cards /\ e.icons = d.icons /\ e.target = d.target /\ e.zoomed = z
  BY DEF Decks
<1> HIDE DEF e
<1>2. e = Dk(d.cards, d.icons, d.target, z)
  BY <1>1, DeckIs
<1> QED BY <1>2 DEF e

LEMMA PutAim ==
  ASSUME NEW d \in Decks, NEW t \in Nat, NEW z \in BOOLEAN
  PROVE  [d EXCEPT !.target = t, !.zoomed = z] = Dk(d.cards, d.icons, t, z)
<1> DEFINE e == [d EXCEPT !.target = t, !.zoomed = z]
<1>1. /\ e \in Decks
      /\ e.cards = d.cards /\ e.icons = d.icons /\ e.target = t /\ e.zoomed = z
  BY DEF Decks
<1> HIDE DEF e
<1>2. e = Dk(d.cards, d.icons, t, z)
  BY <1>1, DeckIs
<1> QED BY <1>2 DEF e

LEMMA DeckAimed ==
  ASSUME NEW c \in Seq(Window), NEW icons \in SUBSET Window, NEW t \in Nat, NEW z \in BOOLEAN,
         NEW u \in Nat
  PROVE  TheDeck!Aimed(Dk(c, icons, t, z), u) = Dk(c, icons, u, FALSE)
<1> DEFINE d == Dk(c, icons, t, z)
           f == FALSE
<1>0. /\ d \in Decks
      /\ d.cards = c /\ d.icons = icons /\ d.target = t /\ d.zoomed = z
  BY DeckParts
<1>1. f \in BOOLEAN /\ TheDeck!Aimed(d, u) = [d EXCEPT !.target = u, !.zoomed = f]
  BY DEF TheDeck!Aimed
<1> HIDE DEF d, f
<1>2. TheDeck!Aimed(d, u) = Dk(c, icons, u, f)
  BY <1>0, <1>1, PutAim
<1> QED BY <1>2 DEF d, f

Fronted(c, x) == <<x>> \o Without(c, x)

\* A card comes to MAIN, or goes to the icons.
LEMMA DeckMoves ==
  ASSUME NEW c \in Seq(Window), NEW icons \in SUBSET Window, NEW t \in Nat, NEW z \in BOOLEAN,
         NEW x \in Window
  PROVE  LET d == Dk(c, icons, t, z) IN
         /\ TheDeck!ToMain(d, x) = Dk(Fronted(c, x), icons \ {x}, 1, FALSE)
         /\ TheDeck!ToIcon(d, x) = Dk(Without(c, x), icons \cup {x}, 1, FALSE)
<1> DEFINE d == Dk(c, icons, t, z)
           n == 1
           a == TheDeck!Aimed(d, n)
           one == <<x>> \o Without(c, x)
           rest == Without(c, x)
<1>1. n \in Nat
  OBVIOUS
<1> HIDE DEF n
<1>2. a = Dk(c, icons, n, FALSE)
  BY <1>1, DeckAimed
<1>3. /\ a \in Decks
      /\ a.cards = c /\ a.icons = icons /\ a.target = n /\ a.zoomed = FALSE
  <2> DEFINE f == FALSE
  <2>1. f \in BOOLEAN
    OBVIOUS
  <2> HIDE DEF f
  <2>2. /\ Dk(c, icons, n, f) \in Decks
        /\ Dk(c, icons, n, f).cards = c /\ Dk(c, icons, n, f).icons = icons
        /\ Dk(c, icons, n, f).target = n /\ Dk(c, icons, n, f).zoomed = f
    BY <1>1, <2>1, DeckParts
  <2> HIDE DEF a
  <2> QED BY <1>2, <2>2 DEF f
<1>4. rest \in Seq(Window) /\ one \in Seq(Window)
  BY WithoutProperties, ConsProperties
<1>5. icons \ {x} \in SUBSET Window /\ icons \cup {x} \in SUBSET Window
  OBVIOUS
<1> HIDE DEF rest, one, d
<1>6. TheDeck!ToMain(d, x) = Dk(one, icons \ {x}, 1, FALSE)
  <2>1. TheDeck!ToMain(d, x) = [a EXCEPT !.cards = one, !.icons = icons \ {x}]
    BY <1>3, DeckLists DEF TheDeck!ToMain, TheDeck!MAIN, n, one
  <2> HIDE DEF a
  <2> QED BY <1>3, <1>4, <1>5, <2>1, PutCardsIcons DEF n
<1>7. TheDeck!ToIcon(d, x) = Dk(rest, icons \cup {x}, 1, FALSE)
  <2>1. TheDeck!ToIcon(d, x) = [a EXCEPT !.cards = rest, !.icons = icons \cup {x}]
    BY <1>3, DeckLists DEF TheDeck!ToIcon, TheDeck!MAIN, n, rest
  <2> HIDE DEF a
  <2> QED BY <1>3, <1>4, <1>5, <2>1, PutCardsIcons DEF n
<1> QED BY <1>6, <1>7 DEF d, one, rest, Fronted

LEMMA DeckGone ==
  ASSUME NEW c \in Seq(Window), NEW icons \in SUBSET Window, NEW t \in Nat, NEW z \in BOOLEAN,
         NEW D
  PROVE  TheDeck!Gone(Dk(c, icons, t, z), D) = Dk(Drop(c, D), icons \ D, t, z)
<1> DEFINE d == Dk(c, icons, t, z)
           drop == Drop(c, D)
<1>1. /\ d \in Decks
      /\ d.cards = c /\ d.icons = icons /\ d.target = t /\ d.zoomed = z
  BY DeckParts
<1>2. drop \in Seq(Window) /\ icons \ D \in SUBSET Window
  BY DropProperties
<1> HIDE DEF d
<1>3. TheDeck!Gone(d, D) = [d EXCEPT !.cards = drop, !.icons = icons \ D]
  BY <1>1, DeckLists DEF TheDeck!Gone
<1> HIDE DEF drop
<1>4. TheDeck!Gone(d, D) = Dk(drop, icons \ D, t, z)
  BY <1>1, <1>2, <1>3, PutCardsIcons
<1> QED BY <1>4 DEF d, drop

LEMMA DeckSteady ==
  ASSUME NEW c \in Seq(Window), NEW icons \in SUBSET Window, NEW t \in Nat, NEW z \in BOOLEAN
  PROVE  TheDeck!Steady(Dk(c, icons, t, z))
           = Dk(c, icons, IF t \in DOMAIN c THEN t ELSE 1, z /\ c # <<>>)
<1> DEFINE d == Dk(c, icons, t, z)
           u == IF t \in DOMAIN c THEN t ELSE 1
           y == z /\ c # <<>>
<1>0. /\ d \in Decks
      /\ d.cards = c /\ d.icons = icons /\ d.target = t /\ d.zoomed = z
  BY DeckParts
<1> HIDE DEF d
<1>1. u \in Nat /\ y \in BOOLEAN
  OBVIOUS
<1>2. TheDeck!Steady(d) = [d EXCEPT !.target = u, !.zoomed = y]
  BY <1>0 DEF TheDeck!Steady, TheDeck!HasTarget, TheDeck!MAIN
<1> HIDE DEF u, y
<1>3. TheDeck!Steady(d) = Dk(c, icons, u, y)
  BY <1>0, <1>1, <1>2, PutCards, PutCardsIcons, PutTarget, PutZoomed, PutAim
<1> QED BY <1>3 DEF d, u, y

\* The moves of a deck with a visible DECK card: what they make of the cards.
Swapped(c) == <<c[2], c[1]>> \o SubSeq(c, 3, Len(c))
Sunk(c) == <<c[1]>> \o SubSeq(c, 3, Len(c)) \o <<c[2]>>
Lifted(c) == <<c[1], c[Len(c)]>> \o SubSeq(c, 2, Len(c) - 1)

LEMMA DeckTurns ==
  ASSUME NEW c \in Seq(Window), NEW icons \in SUBSET Window, NEW t \in Nat, NEW z \in BOOLEAN,
         Len(c) >= 2
  PROVE  LET d == Dk(c, icons, t, z) IN
         /\ Swapped(c) \in Seq(Window) /\ Sunk(c) \in Seq(Window) /\ Lifted(c) \in Seq(Window)
         /\ TheDeck!Swap(d) = Dk(Swapped(c), icons, IF t = 1 THEN 2 ELSE 1, FALSE)
         /\ TheDeck!Sink(d) = Dk(Sunk(c), icons, t, z)
         /\ TheDeck!Raise(d) = Dk(Lifted(c), icons, t, z)
<1> DEFINE d == Dk(c, icons, t, z)
           n == Len(c)
           two == SubSeq(c, 2, n - 1)
           three == SubSeq(c, 3, n)
<1>0. /\ d \in Decks
      /\ d.cards = c /\ d.icons = icons /\ d.target = t /\ d.zoomed = z
  BY DeckParts
<1> HIDE DEF d
<1>1. n \in Nat /\ c[1] \in Window /\ c[2] \in Window /\ c[n] \in Window
  BY LenProperties, ElementOfSeq
<1>2. two \in Seq(Window) /\ three \in Seq(Window)
  <2>1. 2 \in 1..n + 1 /\ 3 \in 1..n + 1 /\ n \in 0..n /\ n - 1 \in 0..n
    BY <1>1
  <2> QED BY <2>1, SubList
<1>3. /\ <<c[1]>> \in Seq(Window) /\ <<c[2]>> \in Seq(Window)
      /\ <<c[2], c[1]>> \in Seq(Window) /\ <<c[1], c[n]>> \in Seq(Window)
  BY <1>1
<1> HIDE DEF n
<1>4. Swapped(c) \in Seq(Window) /\ Sunk(c) \in Seq(Window) /\ Lifted(c) \in Seq(Window)
  <2> HIDE DEF two, three
  <2>1. /\ <<c[2], c[1]>> \o three \in Seq(Window)
        /\ <<c[1]>> \o three \in Seq(Window)
        /\ <<c[1], c[n]>> \o two \in Seq(Window)
    BY <1>2, <1>3, ConcatProperties
  <2>2. (<<c[1]>> \o three) \o <<c[2]>> \in Seq(Window)
    BY <1>3, <2>1, ConcatProperties
  <2> QED BY <2>1, <2>2 DEF Swapped, Sunk, Lifted, two, three, n
<1>5. TheDeck!Swap(d) = Dk(Swapped(c), icons, IF t = 1 THEN 2 ELSE 1, FALSE)
  <2> DEFINE u == IF t = 1 THEN 2 ELSE 1
             a == TheDeck!Aimed(d, u)
             s == Swapped(c)
  <2>1. u \in Nat
    OBVIOUS
  <2>2. TheDeck!Swap(d) = [a EXCEPT !.cards = s]
    <3>1. TheDeck!Aimed(d, TheDeck!Other(d.target)) = a
      BY <1>0 DEF TheDeck!Other, TheDeck!MAIN, TheDeck!DECK
    <3>2. a.cards = c
      <4> HIDE DEF u
      <4> QED BY <1>0, <2>1 DEF TheDeck!Aimed, Decks
    <3> HIDE DEF a
    <3>3. TheDeck!Swap(d) = [a EXCEPT !.cards = <<@[2], @[1]>> \o SubSeq(@, 3, Len(@))]
      BY <1>0, <1>1, <3>1 DEF TheDeck!Swap, TheDeck!MAIN, TheDeck!DECK, n
    <3> QED BY <3>2, <3>3 DEF Swapped
  <2> HIDE DEF u, s
  <2>3. /\ a \in Decks
        /\ a.cards = c /\ a.icons = icons /\ a.target = u /\ a.zoomed = FALSE
    BY <1>0, <2>1 DEF TheDeck!Aimed, Decks
  <2> HIDE DEF a
  <2>4. s \in Seq(Window)
    BY <1>4 DEF s
  <2>5. TheDeck!Swap(d) = Dk(s, icons, u, FALSE)
    BY <2>2, <2>3, <2>4, PutCards
  <2> QED BY <2>5 DEF s, u
<1>6. TheDeck!Sink(d) = Dk(Sunk(c), icons, t, z)
  <2> DEFINE s == Sunk(c)
  <2>1. TheDeck!Sink(d) = [d EXCEPT !.cards = s]
    BY <1>0 DEF TheDeck!Sink, TheDeck!MAIN, TheDeck!DECK, Sunk
  <2>2. s \in Seq(Window)
    BY <1>4
  <2> HIDE DEF s
  <2>3. TheDeck!Sink(d) = Dk(s, icons, t, z)
    BY <1>0, <2>1, <2>2, PutCards, PutCardsIcons, PutTarget, PutZoomed, PutAim
  <2> QED BY <2>3 DEF s
<1>7. TheDeck!Raise(d) = Dk(Lifted(c), icons, t, z)
  <2> DEFINE s == Lifted(c)
  <2>1. TheDeck!Raise(d) = [d EXCEPT !.cards = s]
    BY <1>0 DEF TheDeck!Raise, TheDeck!MAIN, TheDeck!DECK, Lifted
  <2>2. s \in Seq(Window)
    BY <1>4
  <2> HIDE DEF s
  <2>3. TheDeck!Raise(d) = Dk(s, icons, t, z)
    BY <1>0, <2>1, <2>2, PutCards, PutCardsIcons, PutTarget, PutZoomed, PutAim
  <2> QED BY <2>3 DEF s
<1> QED BY <1>4, <1>5, <1>6, <1>7 DEF d

-----------------------------------------------------------------------------
(* What the code finds by counting in such a list.                         *)

LEMMA ArrangedLists ==
  ASSUME NEW w, NEW c, NEW m, Arranged(w, c, m)
  PROVE  /\ Len(c) \in Nat /\ DOMAIN c = 1..Len(c) /\ c \in Seq(Window)
         /\ Len(m) \in Nat /\ DOMAIN m = 1..Len(m) /\ m \in Seq(Window)
         /\ w.windows = c \o m /\ w.windows \in Seq(Window)
         /\ Len(w.windows) = Len(c) + Len(m) /\ DOMAIN w.windows = 1..Len(c) + Len(m)
         /\ \A i \in 1..Len(c) : w.windows[i] = c[i] /\ c[i] \in Window
         /\ \A i \in DOMAIN w.windows : i > Len(c) => w.windows[i] \in Range(m)
         /\ \A i \in DOMAIN w.windows : w.windows[i] \in Window
         /\ Live(w) = Range(c) \cup Range(m)
         /\ Range(c) \subseteq Window /\ Range(m) \subseteq Window
<1>1. c \in Seq(Window) /\ m \in Seq(Window) /\ w.windows = c \o m
  BY DEF Arranged
<1>2. /\ Len(c) \in Nat /\ DOMAIN c = 1..Len(c)
      /\ Len(m) \in Nat /\ DOMAIN m = 1..Len(m)
  BY <1>1, LenProperties
<1>3. /\ c \o m \in Seq(Window) /\ Len(c \o m) = Len(c) + Len(m)
      /\ \A i \in 1..Len(c) + Len(m) : (c \o m)[i] = IF i <= Len(c) THEN c[i] ELSE m[i - Len(c)]
  BY <1>1, ConcatProperties
<1>4. DOMAIN (c \o m) = 1..Len(c) + Len(m)
  BY <1>3, LenProperties
<1>5. \A i \in 1..Len(c) : (c \o m)[i] = c[i] /\ c[i] \in Window
  <2>1. \A i \in 1..Len(c) : i \in 1..Len(c) + Len(m) /\ i <= Len(c)
    BY <1>2
  <2>2. \A i \in 1..Len(c) : c[i] \in Window
    BY <1>1, ElementOfSeq
  <2> QED BY <1>3, <2>1, <2>2
<1>6. \A i \in 1..Len(c) + Len(m) : i > Len(c) => (c \o m)[i] \in Range(m)
  <2> SUFFICES ASSUME NEW i \in 1..Len(c) + Len(m), i > Len(c)
               PROVE  (c \o m)[i] \in Range(m)
    OBVIOUS
  <2>1. (c \o m)[i] = m[i - Len(c)] /\ i - Len(c) \in DOMAIN m
    BY <1>2, <1>3
  <2> QED BY <2>1 DEF Range
<1>7. Range(c \o m) = Range(c) \cup Range(m)
  BY <1>1, ConcatList
<1>8. Range(c) \subseteq Window /\ Range(m) \subseteq Window
  BY <1>1, RangeOfSeq
<1>9. \A i \in 1..Len(c) + Len(m) : (c \o m)[i] \in Window
  BY <1>3, ElementOfSeq
<1> QED BY <1>1, <1>2, <1>3, <1>4, <1>5, <1>6, <1>7, <1>8, <1>9 DEF Live

LEMMA ArrangedShown ==
  ASSUME NEW w, NEW c, NEW m, Arranged(w, c, m)
  PROVE  /\ Cards(w) = w.windows
         /\ Shown(w) = c
         /\ visible_window_count(w) = Len(c)
         /\ window_count(w) = Len(c) + Len(m)
         /\ visible_region_end(w) = Len(c) + 1
<1> DEFINE s == w.windows
           n == Len(c)
<1>1. /\ n \in Nat /\ Len(m) \in Nat /\ c \in Seq(Window)
      /\ s \in Seq(Window) /\ Len(s) = n + Len(m) /\ DOMAIN s = 1..n + Len(m)
      /\ \A i \in 1..n : s[i] = c[i]
  BY ArrangedLists
<1>2. \A i \in DOMAIN s : IsCard(w, s[i])
  BY ArrangedLists DEF IsCard, Arranged
<1>3. \A i \in DOMAIN s : IsShown(w, s[i]) <=> i <= n
  <2>1. ASSUME NEW i \in DOMAIN s, i <= n PROVE s[i] \notin w.minimized
    <3>1. i \in DOMAIN c /\ s[i] = c[i]
      BY <1>1, <2>1, LenProperties
    <3> QED BY <3>1 DEF Arranged, Range
  <2>2. ASSUME NEW i \in DOMAIN s, ~(i <= n) PROVE s[i] \in w.minimized
    <3>1. i > n
      BY <1>1, <2>2
    <3> QED BY <3>1, ArrangedLists DEF Arranged
  <2> QED BY <1>2, <2>1, <2>2 DEF IsShown
<1>4. Cards(w) = s
  <2>1. {i \in DOMAIN s : IsCard(w, s[i])} = DOMAIN s
    BY <1>2
  <2> QED BY <1>1, <2>1, AtWhole DEF Cards
<1>5. Shown(w) = c
  <2>1. {i \in DOMAIN s : IsShown(w, s[i])} = 1..n
    BY <1>1, <1>3
  <2> DEFINE t == At(s, 1..n)
  <2>2. n \in 0..Len(s)
    BY <1>1
  <2>3. t \in Seq(Window) /\ Len(t) = n /\ \A i \in 1..n : t[i] = s[i]
    BY <1>1, <2>2, AtPrefix
  <2> HIDE DEF t
  <2>4. t = c
    BY <1>1, <2>3, SeqEqual
  <2> QED BY <2>1, <2>4 DEF Shown, t
<1>6. visible_region_end(w) = n + 1
  <2> DEFINE tail == {i \in DOMAIN s : ~IsShown(w, s[i])}
  <2>1. tail = n + 1..n + Len(m)
    BY <1>1, <1>3
  <2>2. visible_region_end(w) = IF tail = {} THEN Len(s) + 1 ELSE Min(tail)
    BY DEF visible_region_end
  <2> HIDE DEF tail
  <2>3. CASE Len(m) = 0
    BY <1>1, <2>1, <2>2, <2>3
  <2>4. CASE Len(m) # 0
    <3>1. n + 1 \in tail /\ \A i \in tail : n + 1 <= i
      BY <1>1, <2>1, <2>4
    <3>2. tail \subseteq Nat /\ \A i, j \in tail : i <= j /\ j <= i => i = j
      BY <1>1, <2>1
    <3>3. Min(tail) = n + 1
      <4>1. Min(tail) = CHOOSE i \in tail : \A j \in tail : i <= j
        BY DEF Min
      <4>2. ASSUME NEW i \in tail, \A j \in tail : i <= j PROVE i = n + 1
        BY <3>1, <3>2, <4>2
      <4> QED BY <3>1, <4>1, <4>2
    <3> QED BY <2>2, <3>1, <3>3
  <2> QED BY <2>3, <2>4
<1> QED BY <1>1, <1>4, <1>5, <1>6 DEF visible_window_count, window_count

LEMMA ConcatInjective ==
  ASSUME NEW S, NEW s \in Seq(S), NEW t \in Seq(S), IsInjective(s \o t)
  PROVE  IsInjective(s) /\ IsInjective(t) /\ Range(s) \cap Range(t) = {}
<1> DEFINE u == s \o t
<1>1. /\ Len(s) \in Nat /\ DOMAIN s = 1..Len(s)
      /\ Len(t) \in Nat /\ DOMAIN t = 1..Len(t)
  BY LenProperties
<1>2. /\ u \in Seq(S) /\ Len(u) = Len(s) + Len(t)
      /\ \A i \in 1..Len(s) + Len(t) : u[i] = IF i <= Len(s) THEN s[i] ELSE t[i - Len(s)]
  BY ConcatProperties
<1>3. DOMAIN u = 1..Len(s) + Len(t)
  BY <1>2, LenProperties
<1>4. IsInjective(u)
  OBVIOUS
<1> HIDE DEF u
<1>5. \A i \in DOMAIN s : i \in DOMAIN u /\ u[i] = s[i]
  BY <1>1, <1>2, <1>3
<1>6. \A j \in DOMAIN t : Len(s) + j \in DOMAIN u /\ u[Len(s) + j] = t[j]
  <2> TAKE j \in DOMAIN t
  <2>1. /\ Len(s) + j \in 1..Len(s) + Len(t) /\ ~(Len(s) + j <= Len(s))
        /\ Len(s) + j - Len(s) = j
    BY <1>1
  <2> QED BY <1>2, <1>3, <2>1
<1>7. IsInjective(s)
  BY <1>4, <1>5 DEF IsInjective
<1>8. IsInjective(t)
  <2> SUFFICES ASSUME NEW i \in DOMAIN t, NEW j \in DOMAIN t, t[i] = t[j] PROVE i = j
    BY DEF IsInjective
  <2>1. Len(s) + i = Len(s) + j
    BY <1>4, <1>6 DEF IsInjective
  <2> QED BY <1>1, <2>1
<1>9. ASSUME NEW i \in DOMAIN s, NEW j \in DOMAIN t PROVE s[i] # t[j]
  <2>1. i # Len(s) + j
    BY <1>1
  <2> QED BY <1>4, <1>5, <1>6, <2>1 DEF IsInjective
<1> QED BY <1>7, <1>8, <1>9 DEF Range

\* What is left when a card on screen, or the last one, is taken out.
LEMMA TakenOut ==
  ASSUME NEW c \in Seq(Window), IsInjective(c), Len(c) >= 2
  PROVE  LET n == Len(c)
             two == SubSeq(c, 2, n - 1)
             three == SubSeq(c, 3, n) IN
         /\ two \in Seq(Window) /\ three \in Seq(Window)
         /\ c[1] \in Window /\ c[2] \in Window /\ c[n] \in Window
         /\ c[1] \in Range(c) /\ c[2] \in Range(c) /\ c[n] \in Range(c)
         /\ c[1] # c[2] /\ c[1] # c[n]
         /\ Without(c, c[1]) = <<c[2]>> \o three
         /\ Without(c, c[2]) = <<c[1]>> \o three
         /\ Without(c, c[n]) = <<c[1]>> \o two
<1> DEFINE n == Len(c)
           two == SubSeq(c, 2, n - 1)
           three == SubSeq(c, 3, n)
<1>1. n \in Nat /\ DOMAIN c = 1..n /\ \A i \in 1..n : c[i] \in Window
  BY LenProperties, ElementOfSeq
<1>2. 1 \in DOMAIN c /\ 2 \in DOMAIN c /\ n \in DOMAIN c
  BY <1>1
<1>3. /\ c[1] \in Window /\ c[2] \in Window /\ c[n] \in Window
      /\ c[1] \in Range(c) /\ c[2] \in Range(c) /\ c[n] \in Range(c)
      /\ c[1] # c[2] /\ c[1] # c[n]
  <2>1. 1 # n
    BY <1>1
  <2> QED BY <1>1, <1>2, <2>1 DEF Range, IsInjective
<1>4. two \in Seq(Window) /\ three \in Seq(Window)
  <2>1. 2 \in 1..n + 1 /\ 3 \in 1..n + 1 /\ n \in 0..n /\ n - 1 \in 0..n
    BY <1>1
  <2> QED BY <2>1, SubList
<1>5. Without(c, c[1]) = <<c[2]>> \o three
  <2>1. Without(c, c[1]) = SubSeq(c, 1, 1 - 1) \o SubSeq(c, 1 + 1, n)
    BY <1>2, SplitAt
  <2>2. SubSeq(c, 1, 0) = <<>>
    BY SubSeqEmpty
  <2>3. SubSeq(c, 2, n) = <<c[2]>> \o SubSeq(c, 2 + 1, n)
    <3>1. 2 \in 1..n /\ n \in 2..n
      BY <1>1
    <3> QED BY <3>1, SubSeqRecursiveFirst
  <2>4. <<c[2]>> \in Seq(Window)
    BY <1>3
  <2>5. <<c[2]>> \o three \in Seq(Window)
    BY <1>4, <2>4, ConcatProperties
  <2>6. <<>> \o (<<c[2]>> \o three) = <<c[2]>> \o three
    BY <2>5, ConcatEmptySeq
  <2>7. 1 - 1 = 0 /\ 1 + 1 = 2 /\ 2 + 1 = 3
    OBVIOUS
  <2> QED BY <2>1, <2>2, <2>3, <2>6, <2>7
<1>6. SubSeq(c, 1, 1) = <<c[1]>>
  <2>1. 1 \in 1..n /\ 1 \in 1..n
    BY <1>1
  <2>2. SubSeq(c, 1, 1) = <<c[1]>> \o SubSeq(c, 1 + 1, 1)
    BY <1>1, <2>1, SubSeqRecursiveFirst
  <2>3. SubSeq(c, 1 + 1, 1) = <<>>
    BY SubSeqEmpty
  <2>4. <<c[1]>> \in Seq(Window)
    BY <1>3
  <2> QED BY <2>2, <2>3, <2>4, ConcatEmptySeq
<1>7. Without(c, c[2]) = <<c[1]>> \o three
  <2>1. Without(c, c[2]) = SubSeq(c, 1, 2 - 1) \o SubSeq(c, 2 + 1, n)
    BY <1>2, SplitAt
  <2>2. 2 - 1 = 1 /\ 2 + 1 = 3
    OBVIOUS
  <2> QED BY <1>6, <2>1, <2>2
<1>8. Without(c, c[n]) = <<c[1]>> \o two
  <2>1. Without(c, c[n]) = SubSeq(c, 1, n - 1) \o SubSeq(c, n + 1, n)
    BY <1>2, SplitAt
  <2>2. SubSeq(c, n + 1, n) = <<>>
    BY <1>1, SubSeqEmpty
  <2>3. SubSeq(c, 1, n - 1) = <<c[1]>> \o SubSeq(c, 1 + 1, n - 1)
    <3>1. 1 \in 1..n /\ n - 1 \in 1..n
      BY <1>1
    <3> QED BY <3>1, SubSeqRecursiveFirst
  <2>4. <<c[1]>> \in Seq(Window)
    BY <1>3
  <2>5. <<c[1]>> \o two \in Seq(Window)
    BY <1>4, <2>4, ConcatProperties
  <2>6. (<<c[1]>> \o two) \o <<>> = <<c[1]>> \o two
    BY <2>5, ConcatEmptySeq
  <2>7. 1 + 1 = 2
    OBVIOUS
  <2> QED BY <2>1, <2>2, <2>3, <2>6, <2>7
<1> QED BY <1>3, <1>4, <1>5, <1>7, <1>8

\* The turns of the deck, by taking out and putting in.
LEMMA Turned ==
  ASSUME NEW c \in Seq(Window), IsInjective(c), Len(c) >= 2
  PROVE  /\ <<c[2]>> \o Without(c, c[2]) = Swapped(c)
         /\ Append(Without(c, c[2]), c[2]) = Sunk(c)
         /\ <<c[2]>> \o (<<c[1]>> \o SubSeq(c, 3, Len(c))) = Swapped(c)
         /\ <<c[1]>> \o (<<c[Len(c)]>> \o SubSeq(c, 2, Len(c) - 1)) = Lifted(c)
<1> DEFINE n == Len(c)
           two == SubSeq(c, 2, n - 1)
           three == SubSeq(c, 3, n)
<1>1. /\ two \in Seq(Window) /\ three \in Seq(Window)
      /\ c[1] \in Window /\ c[2] \in Window /\ c[n] \in Window
      /\ Without(c, c[2]) = <<c[1]>> \o three
  BY TakenOut
<1>2. \A a, b \in Window, s \in Seq(Window) : <<a>> \o (<<b>> \o s) = <<a, b>> \o s
  <2> TAKE a \in Window, b \in Window, s \in Seq(Window)
  <2> DEFINE p == <<a>>
             q == <<b>>
             r == <<a, b>>
             u == p \o q
  <2>3. /\ p \in Seq(Window) /\ Len(p) = 1 /\ p[1] = a
        /\ q \in Seq(Window) /\ Len(q) = 1 /\ q[1] = b
        /\ r \in Seq(Window) /\ Len(r) = 2 /\ r[1] = a /\ r[2] = b
    OBVIOUS
  <2> HIDE DEF p, q, r
  <2>4. u \in Seq(Window) /\ Len(u) = Len(p) + Len(q)
        /\ \A i \in 1..Len(p) + Len(q) : u[i] = IF i <= Len(p) THEN p[i] ELSE q[i - Len(p)]
    BY <2>3, ConcatProperties
  <2> HIDE DEF u
  <2>5. Len(u) = 2 /\ u[1] = a /\ u[2] = b
    BY <2>3, <2>4
  <2>6. u = r
    <3>1. \A i \in 1..Len(u) : u[i] = r[i]
      <4>1. \A i \in 1..Len(u) : i = 1 \/ i = 2
        BY <2>5
      <4> QED BY <2>3, <2>5, <4>1
    <3> QED BY <2>3, <2>4, <2>5, <3>1, SeqEqual
  <2>1. <<a>> \in Seq(Window) /\ <<b>> \in Seq(Window) /\ <<a>> \o <<b>> = <<a, b>>
    BY <2>3, <2>6 DEF p, q, r, u
  <2>2. (<<a>> \o <<b>>) \o s = <<a>> \o (<<b>> \o s)
    BY <2>1, ConcatAssociative
  <2> QED BY <2>1, <2>2
<1>3. Swapped(c) = <<c[2], c[1]>> \o three /\ Lifted(c) = <<c[1], c[n]>> \o two
      /\ Sunk(c) = (<<c[1]>> \o three) \o <<c[2]>>
  BY DEF Swapped, Lifted, Sunk
<1> HIDE DEF two, three
<1>4. <<c[1]>> \o three \in Seq(Window)
  <2>1. <<c[1]>> \in Seq(Window)
    BY <1>1
  <2> QED BY <1>1, <2>1, ConcatProperties
<1>5. Append(<<c[1]>> \o three, c[2]) = (<<c[1]>> \o three) \o <<c[2]>>
  BY <1>1, <1>4, AppendIsConcat
<1>6. <<c[2]>> \o (<<c[1]>> \o three) = Swapped(c) /\ <<c[1]>> \o (<<c[n]>> \o two) = Lifted(c)
  BY <1>1, <1>2, <1>3
<1> QED BY <1>1, <1>3, <1>5, <1>6 DEF two, three

-----------------------------------------------------------------------------
(* Cut: the state between two operations.                                  *)

LEMMA CutLists ==
  ASSUME NEW w, NEW c, NEW m, Cut(w, c, m)
  PROVE  /\ Sound(w) /\ Arranged(w, c, m)
         /\ c \in Seq(Window) /\ m \in Seq(Window)
         /\ Len(c) \in Nat /\ DOMAIN c = 1..Len(c)
         /\ IsInjective(c) /\ IsInjective(m)
         /\ Range(c) \cap Range(m) = {} /\ Range(c) \cup Range(m) = Live(w)
         /\ w.windows = c \o m
         /\ w.minimized = Range(m) /\ w.minimized \in SUBSET Window
         /\ w.target_index \in {0, 1} /\ w.maximized \in BOOLEAN
<1>1. Sound(w) /\ Arranged(w, c, m) /\ w.minimized = Range(m) /\ w.target_index \in {0, 1}
  BY DEF Cut
<1>2. w.maximized \in BOOLEAN /\ w.minimized \in SUBSET Window
  BY <1>1 DEF Sound, WMState
<1>3. /\ c \in Seq(Window) /\ m \in Seq(Window) /\ w.windows = c \o m
      /\ Len(c) \in Nat /\ DOMAIN c = 1..Len(c) /\ Range(c) \cup Range(m) = Live(w)
  BY <1>1, ArrangedLists
<1>4. IsInjective(c \o m)
  BY <1>1, <1>3 DEF Sound
<1>5. IsInjective(c) /\ IsInjective(m) /\ Range(c) \cap Range(m) = {}
  BY <1>3, <1>4, ConcatInjective
<1> QED BY <1>1, <1>2, <1>3, <1>5

LEMMA CutCounts ==
  ASSUME NEW w, NEW c, NEW m, Cut(w, c, m)
  PROVE  /\ visible_window_count(w) = Len(c)
         /\ Cards(w) = w.windows
         /\ \A i \in 1..Len(c) : window_at(w, i - 1) = c[i]
         /\ target_window(w) = IF w.target_index + 1 \in DOMAIN c
                               THEN c[w.target_index + 1] ELSE NULL
         /\ target_window(w) = NULL <=> w.target_index + 1 \notin DOMAIN c
<1>1. /\ Len(c) \in Nat /\ DOMAIN c = 1..Len(c) /\ Len(m) \in Nat
      /\ \A i \in 1..Len(c) : w.windows[i] = c[i] /\ c[i] \in Window
  BY ArrangedLists DEF Cut
<1>2. /\ Cards(w) = w.windows /\ visible_window_count(w) = Len(c)
      /\ window_count(w) = Len(c) + Len(m)
  BY ArrangedShown DEF Cut
<1>3. \A i \in 1..Len(c) : window_at(w, i - 1) = c[i]
  <2> TAKE i \in 1..Len(c)
  <2>1. i - 1 < window_count(w) /\ i - 1 + 1 = i
    BY <1>1, <1>2
  <2> QED BY <1>1, <1>2, <2>1 DEF window_at
<1>4. target_window(w) = IF w.target_index + 1 \in DOMAIN c THEN c[w.target_index + 1] ELSE NULL
  <2>1. w.target_index \in Nat
    BY DEF Cut
  <2>2. CASE w.target_index >= Len(c)
    BY <1>1, <1>2, <2>1, <2>2 DEF target_window
  <2>3. CASE ~(w.target_index >= Len(c))
    <3>1. w.target_index + 1 \in 1..Len(c) /\ w.target_index + 1 - 1 = w.target_index
      BY <1>1, <2>1, <2>3
    <3>2. \A i \in 1..Len(c) : i - 1 = w.target_index => window_at(w, w.target_index) = c[i]
      BY <1>3
    <3>3. window_at(w, w.target_index) = c[w.target_index + 1]
      <4> DEFINE i == w.target_index + 1
      <4>1. i \in 1..Len(c) /\ i - 1 = w.target_index
        BY <1>1, <2>1, <3>1
      <4> HIDE DEF i
      <4>2. window_at(w, w.target_index) = c[i]
        BY <3>2, <4>1
      <4> QED BY <4>2 DEF i
    <3>4. target_window(w) = window_at(w, w.target_index)
      BY <1>2, <2>3 DEF target_window
    <3> QED BY <1>1, <3>1, <3>3, <3>4
  <2> QED BY <2>2, <2>3
<1>5. target_window(w) = NULL <=> w.target_index + 1 \notin DOMAIN c
  BY <1>1, <1>4, WindowAssumption DEF WindowAssumption
<1> QED BY <1>2, <1>3, <1>4, <1>5

LEMMA CutDeck ==
  ASSUME NEW w, NEW c, NEW m, Cut(w, c, m)
  PROVE  /\ Dealt(w)
         /\ DeckOf(w) = Dk(c, w.minimized, w.target_index + 1, w.maximized)
BY CutLists, ArrangedShown DEF Dealt, DeckOf

\* An operation that leaves the icons alone: the new list need only be split.
LEMMA Rearranged ==
  ASSUME NEW w, NEW c, NEW m, Cut(w, c, m),
         NEW v, SameWindows(w, v), Aimed(w, v), v.target_index \in {0, 1},
         NEW s \in Seq(Window), v.windows = s \o m
  PROVE  /\ Cut(v, s, m)
         /\ Dealt(v)
         /\ DeckOf(v) = Dk(s, w.minimized, v.target_index + 1, v.maximized)
<1>1. /\ Sound(w) /\ Arranged(w, c, m) /\ m \in Seq(Window) /\ w.minimized = Range(m)
  BY CutLists
<1>2. Sound(v) /\ v.minimized = w.minimized /\ v.floating = w.floating /\ v.parent = w.parent
  BY DEF SameWindows, Aimed
<1>3. IsInjective(s \o m)
  BY <1>2 DEF Sound
<1>4. Range(s) \cap Range(m) = {}
  BY <1>1, <1>3, ConcatInjective
<1>5. Arranged(v, s, m)
  BY <1>1, <1>2, <1>4 DEF Arranged
<1>6. Cut(v, s, m)
  BY <1>1, <1>2, <1>5 DEF Cut
<1> QED BY <1>2, <1>6, CutDeck

\* Taking a window out of the list.
LEMMA Removed ==
  ASSUME NEW w, NEW c, NEW m, Cut(w, c, m), NEW x \in Window
  PROVE  /\ x \in Range(c) => Without(w.windows, x) = Without(c, x) \o m
         /\ x \in Range(m) => /\ Without(w.windows, x) = c \o Without(m, x)
                              /\ Without(c, x) = c
         /\ x \notin Live(w) => Without(w.windows, x) = w.windows /\ Without(c, x) = c
<1> DEFINE D == {x}
<1>1. /\ c \in Seq(Window) /\ m \in Seq(Window) /\ w.windows = c \o m
      /\ Range(c) \cap Range(m) = {} /\ Range(c) \cup Range(m) = Live(w)
  BY CutLists
<1>2. /\ x \notin Range(c) => Range(c) \cap D = {}
      /\ x \notin Range(m) => Range(m) \cap D = {}
  OBVIOUS
<1>3. \A s : Without(s, x) = Drop(s, D)
  BY WithoutIsDrop
<1> HIDE DEF D
<1>4. Drop(c \o m, D) = Drop(c, D) \o Drop(m, D)
  BY <1>1, DropConcat
<1>5. x \notin Range(c) => Drop(c, D) = c
  BY <1>1, <1>2, DropNone
<1>6. x \notin Range(m) => Drop(m, D) = m
  BY <1>1, <1>2, DropNone
<1> QED BY <1>1, <1>3, <1>4, <1>5, <1>6

LEMMA RemovedCard ==
  ASSUME NEW w, NEW c, NEW m, Cut(w, c, m), NEW x \in Range(c)
  PROVE  Without(w.windows, x) = Without(c, x) \o m
<1>1. x \in Window
  BY CutLists, RangeOfSeq
<1> QED BY <1>1, Removed

\* Fields of Aim.
LEMMA AimFields ==
  ASSUME NEW w, Sound(w), NEW n \in Nat
  PROVE  /\ Aim(w, n).windows = w.windows
         /\ Aim(w, n).target_index = n /\ Aim(w, n).maximized = FALSE
BY DEF Aim, Sound, WMState

\* An operation that rearranges the list to u and aims at one of its first cards.
LEMMA Turn ==
  ASSUME NEW w, NEW c, NEW m, Cut(w, c, m),
         NEW u, SameWindows(w, u), Aimed(w, u),
         NEW s \in Seq(Window), u.windows = s \o m, NEW n \in {0, 1}
  PROVE  /\ SameWindows(w, Aim(u, n)) /\ Aimed(w, Aim(u, n))
         /\ Dealt(Aim(u, n))
         /\ DeckOf(Aim(u, n)) = Dk(s, w.minimized, n + 1, FALSE)
<1> DEFINE v == Aim(u, n)
<1>1. Sound(u) /\ n \in Nat
  BY DEF SameWindows
<1>2. v.windows = u.windows /\ v.target_index = n /\ v.maximized = FALSE
  BY <1>1, AimFields
<1>3. SameWindows(w, v) /\ Aimed(w, v)
  BY <1>1, AimSame, AimedAim
<1> HIDE DEF v
<1>4. Dealt(v) /\ DeckOf(v) = Dk(s, w.minimized, v.target_index + 1, v.maximized)
  BY <1>2, <1>3, Rearranged
<1> QED BY <1>2, <1>3, <1>4 DEF v

-----------------------------------------------------------------------------
(* The three ways a card is put elsewhere in the list.                     *)

LEMMA ToFront ==
  ASSUME NEW w, NEW c, NEW m, Cut(w, c, m), NEW x \in Range(c)
  PROVE  /\ SameWindows(w, move_first(w, x)) /\ Aimed(w, move_first(w, x))
         /\ Fronted(c, x) \in Seq(Window)
         /\ move_first(w, x).windows = Fronted(c, x) \o m
<1> DEFINE rest == Without(c, x)
           l == <<x>> \o Without(w.windows, x)
<1>1. /\ Sound(w) /\ c \in Seq(Window) /\ m \in Seq(Window) /\ x \in Live(w) /\ x \in Window
  BY CutLists, LiveWindows
<1>2. SameWindows(w, move_first(w, x)) /\ Aimed(w, move_first(w, x))
  BY <1>1, MoveFirst, AimedMoves
<1>3. rest \in Seq(Window) /\ <<x>> \in Seq(Window)
  BY <1>1, WithoutProperties
<1>4. Without(w.windows, x) = rest \o m
  BY <1>1, Removed
<1> HIDE DEF rest
<1>5. l = (<<x>> \o rest) \o m
  <2>1. (<<x>> \o rest) \o m = <<x>> \o (rest \o m)
    BY <1>1, <1>3, ConcatAssociative
  <2> QED BY <1>4, <2>1
<1>6. <<x>> \o rest \in Seq(Window)
  BY <1>3, ConcatProperties
<1>7. move_first(w, x).windows = l
  <2>1. move_first(w, x) = [w EXCEPT !.windows = l]
    BY DEF move_first
  <2> HIDE DEF l
  <2> QED BY <1>1, <2>1 DEF Sound, WMState
<1> QED BY <1>2, <1>5, <1>6, <1>7 DEF rest, Fronted

LEMMA ToEnd ==
  ASSUME NEW w, NEW c, NEW m, Cut(w, c, m), NEW x \in Range(c)
  PROVE  /\ SameWindows(w, move_to_region_end(w, x)) /\ Aimed(w, move_to_region_end(w, x))
         /\ Append(Without(c, x), x) \in Seq(Window)
         /\ move_to_region_end(w, x).windows = Append(Without(c, x), x) \o m
<1> DEFINE rest == Without(c, x)
           list == Without(w.windows, x)
           r == [w EXCEPT !.windows = list]
           l == InsertAt(list, visible_region_end(r), x)
<1>1. /\ Sound(w) /\ Arranged(w, c, m) /\ w.minimized = Range(m)
      /\ c \in Seq(Window) /\ m \in Seq(Window) /\ x \in Live(w) /\ x \in Window
  BY CutLists, LiveWindows
<1>2. SameWindows(w, move_to_region_end(w, x)) /\ Aimed(w, move_to_region_end(w, x))
  BY <1>1, MoveToRegionEnd, AimedMoves
<1>3. rest \in Seq(Window) /\ Range(rest) \subseteq Range(c) /\ <<x>> \in Seq(Window)
  BY <1>1, WithoutProperties
<1>4. list = rest \o m
  BY <1>1, Removed
<1> HIDE DEF rest, list
<1>5. /\ r.windows = list /\ r.parent = w.parent /\ r.floating = w.floating
      /\ r.minimized = w.minimized
  BY <1>1 DEF Sound, WMState
<1> HIDE DEF r
<1>6. Arranged(r, rest, m)
  BY <1>1, <1>3, <1>4, <1>5 DEF Arranged
<1>7. visible_region_end(r) = Len(rest) + 1
  BY <1>6, ArrangedShown
<1>8. l = Append(rest, x) \o m
  <2>1. InsertAt(rest \o m, Len(rest) + 1, x) = rest \o (<<x>> \o m)
    BY <1>1, <1>3, InsertBetween
  <2>2. (rest \o <<x>>) \o m = rest \o (<<x>> \o m)
    BY <1>1, <1>3, ConcatAssociative
  <2>3. Append(rest, x) = rest \o <<x>>
    BY <1>1, <1>3, AppendIsConcat
  <2> QED BY <1>4, <1>7, <2>1, <2>2, <2>3
<1>9. Append(rest, x) \in Seq(Window)
  BY <1>1, <1>3, AppendProperties
<1>10. move_to_region_end(w, x).windows = l
  <2>1. move_to_region_end(w, x) = [w EXCEPT !.windows = l]
    BY DEF move_to_region_end, r, list
  <2> HIDE DEF l
  <2> QED BY <1>1, <2>1 DEF Sound, WMState
<1> QED BY <1>2, <1>8, <1>9, <1>10 DEF rest

Leaves(c, x, y, s) == Without(c, x) = <<y>> \o s

Seconded(x, y, s) == <<y>> \o (<<x>> \o s)

\* x goes after y, which is first once x is taken out.
LEMMA ToSecond ==
  ASSUME NEW w, NEW c, NEW m, Cut(w, c, m), NEW x \in Range(c), NEW y \in Range(c), x # y,
         NEW s \in Seq(Window), Leaves(c, x, y, s)
  PROVE  /\ SameWindows(w, move_after(w, x, y)) /\ Aimed(w, move_after(w, x, y))
         /\ Seconded(x, y, s) \in Seq(Window)
         /\ move_after(w, x, y).windows = Seconded(x, y, s) \o m
<1> DEFINE list == Without(w.windows, x)
           i == CHOOSE k \in DOMAIN list : list[k] = y
           l == InsertAt(list, 1 + i, x)
           tail == s \o m
<1>1. /\ Sound(w) /\ IsInjective(w.windows) /\ w.windows \in Seq(Window)
      /\ c \in Seq(Window) /\ m \in Seq(Window)
      /\ x \in Live(w) /\ y \in Live(w) /\ x \in Window /\ y \in Window
  BY CutLists, LiveWindows DEF Sound
<1>2. SameWindows(w, move_after(w, x, y)) /\ Aimed(w, move_after(w, x, y))
  BY <1>1, MoveAfter, AimedMoves
<1>3. /\ <<x>> \in Seq(Window) /\ <<y>> \in Seq(Window) /\ Len(<<y>>) = 1 /\ <<y>>[1] = y
      /\ tail \in Seq(Window)
  BY <1>1, ConcatProperties
<1>4. list = <<y>> \o tail
  <2>1. list = (<<y>> \o s) \o m
    <3>1. list = Without(c, x) \o m
      BY RemovedCard
    <3>2. Without(c, x) = <<y>> \o s
      BY DEF Leaves
    <3> HIDE DEF list
    <3> QED BY <3>1, <3>2
  <2>2. (<<y>> \o s) \o m = <<y>> \o (s \o m)
    BY <1>1, <1>3, ConcatAssociative
  <2> QED BY <2>1, <2>2
<1>5. IsInjective(list) /\ list \in Seq(Window)
  BY <1>1, WithoutProperties
<1> HIDE DEF list
<1>6. i = 1
  <2> HIDE DEF tail
  <2> DEFINE t == <<y>> \o tail
  <2>1. /\ t \in Seq(Window) /\ Len(t) = Len(<<y>>) + Len(tail)
        /\ \A k \in 1..Len(<<y>>) + Len(tail) :
             t[k] = IF k <= Len(<<y>>) THEN <<y>>[k] ELSE tail[k - Len(<<y>>)]
    BY <1>3, ConcatProperties
  <2>2. Len(tail) \in Nat /\ DOMAIN t = 1..Len(t)
    BY <1>3, <2>1, LenProperties
  <2> HIDE DEF t
  <2>3. 1 \in DOMAIN t /\ t[1] = y
    BY <1>3, <2>1, <2>2
  <2>4. 1 \in DOMAIN list /\ list[1] = y
    BY <1>4, <2>3 DEF t
  <2>5. \A k \in DOMAIN list : list[k] = y => k = 1
    BY <1>5, <2>4 DEF IsInjective
  <2> QED BY <2>4, <2>5
<1>7. l = (<<y>> \o (<<x>> \o s)) \o m
  <2> DEFINE xs == <<x>> \o s
  <2>1. InsertAt(<<y>> \o tail, Len(<<y>>) + 1, x) = <<y>> \o (<<x>> \o tail)
    <3> HIDE DEF tail
    <3> QED BY <1>1, <1>3, InsertBetween
  <2>2. xs \in Seq(Window)
    BY <1>3, ConcatProperties
  <2>3. xs \o m = <<x>> \o tail
    BY <1>1, <1>3, ConcatAssociative
  <2> HIDE DEF xs, tail
  <2>4. (<<y>> \o xs) \o m = <<y>> \o (xs \o m)
    BY <1>1, <1>3, <2>2, ConcatAssociative
  <2>5. Len(<<y>>) + 1 = 1 + i
    BY <1>3, <1>6
  <2>6. l = <<y>> \o (<<x>> \o tail)
    BY <1>4, <2>1, <2>5
  <2> HIDE DEF l
  <2> QED BY <2>3, <2>4, <2>6 DEF xs
<1>8. <<y>> \o (<<x>> \o s) \in Seq(Window)
  <2>1. <<x>> \o s \in Seq(Window)
    BY <1>3, ConcatProperties
  <2> QED BY <1>3, <2>1, ConcatProperties
<1>9. move_after(w, x, y).windows = l
  <2>1. move_after(w, x, y) = [w EXCEPT !.windows = l]
    BY DEF move_after, list
  <2> HIDE DEF l
  <2> QED BY <1>1, <2>1 DEF Sound, WMState
<1> QED BY <1>2, <1>7, <1>8, <1>9 DEF Seconded

-----------------------------------------------------------------------------
(* The operations of the deck.                                             *)

\* v is w after a move that makes its deck d.
Plays(w, v, d) == SameWindows(w, v) /\ Aimed(w, v) /\ Dealt(v) /\ DeckOf(v) = d

LEMMA PlaysNothing ==
  ASSUME NEW w, Dealt(w)
  PROVE  Plays(w, w, DeckOf(w))
<1>1. Sound(w)
  BY DEF Dealt, Cut
<1> QED BY <1>1, AimedSelf DEF Plays, SameWindows

LEMMA PlaysTrans ==
  ASSUME NEW u, NEW v, NEW w, NEW d, NEW e, Plays(u, v, e), Plays(v, w, d)
  PROVE  Plays(u, w, d)
BY SameWindowsTrans, AimedTrans DEF Plays

LEMMA CutWindows ==
  ASSUME NEW w, NEW c, NEW m, Cut(w, c, m), Len(c) >= 2
  PROVE  /\ window_at(w, 0) = c[1] /\ window_at(w, 1) = c[2]
         /\ window_at(w, visible_window_count(w) - 1) = c[Len(c)]
<1>1. /\ visible_window_count(w) = Len(c) /\ Len(c) \in Nat
      /\ \A i \in 1..Len(c) : window_at(w, i - 1) = c[i]
  BY CutLists, CutCounts
<1> DEFINE n == Len(c)
<1>2. n \in 1..Len(c) /\ 1 \in 1..Len(c) /\ 2 \in 1..Len(c) /\ 1 - 1 = 0 /\ 2 - 1 = 1
  BY <1>1
<1> HIDE DEF n
<1>3. window_at(w, n - 1) = c[n]
  BY <1>1, <1>2
<1>4. window_at(w, 1 - 1) = c[1] /\ window_at(w, 2 - 1) = c[2]
  BY <1>1, <1>2
<1> QED BY <1>1, <1>2, <1>3, <1>4 DEF n

LEMMA Swaps ==
  ASSUME NEW w, Dealt(w)
  PROVE  Plays(w, md_swap_main_deck(w), TheDeck!Swap(DeckOf(w)))
<1>1. PICK c, m \in Seq(Window) : Cut(w, c, m)
  BY DEF Dealt
<1> DEFINE icons == w.minimized
           t == w.target_index + 1
           z == w.maximized
           d == Dk(c, icons, t, z)
<1>2. /\ c \in Seq(Window) /\ Len(c) \in Nat /\ IsInjective(c)
      /\ icons \in SUBSET Window /\ w.target_index \in {0, 1} /\ t \in Nat /\ z \in BOOLEAN
  BY <1>1, CutLists
<1>3. DeckOf(w) = d /\ d.cards = c
  BY <1>1, <1>2, CutDeck, DeckParts
<1>4. visible_window_count(w) = Len(c)
  BY <1>1, CutCounts
<1>5. CASE Len(c) < 2
  <2>1. md_swap_main_deck(w) = w
    BY <1>4, <1>5 DEF md_swap_main_deck
  <2>2. TheDeck!Swap(d) = d
    BY <1>3, <1>5 DEF TheDeck!Swap
  <2> QED BY <1>3, <2>1, <2>2, PlaysNothing
<1>6. CASE Len(c) >= 2
  <2> DEFINE x == c[2]
             u == move_first(w, x)
             s == Swapped(c)
             n == IF w.target_index = 0 THEN 1 ELSE 0
  <2>1. window_at(w, 1) = x /\ x \in Range(c)
    BY <1>1, <1>2, <1>6, CutWindows, TakenOut
  <2>2. md_swap_main_deck(w) = Aim(u, n)
    BY <1>2, <1>4, <1>6, <2>1 DEF md_swap_main_deck
  <2>3. SameWindows(w, u) /\ Aimed(w, u) /\ u.windows = s \o m
    <3> HIDE DEF x
    <3>1. /\ SameWindows(w, u) /\ Aimed(w, u)
          /\ u.windows = Fronted(c, x) \o m
      <4>1. Cut(w, c, m) /\ x \in Range(c)
        BY <1>1, <2>1
      <4> QED BY <4>1, ToFront
    <3>2. Fronted(c, x) = s
      BY <1>2, <1>6, Turned DEF x, Fronted
    <3> HIDE DEF u, s
    <3> QED BY <3>1, <3>2
  <2>4. /\ s \in Seq(Window)
        /\ TheDeck!Swap(d) = Dk(s, icons, IF t = 1 THEN 2 ELSE 1, FALSE)
    BY <1>2, <1>6, DeckTurns
  <2>5. n \in {0, 1} /\ n + 1 = IF t = 1 THEN 2 ELSE 1
    BY <1>2
  <2> HIDE DEF u, s, n, d
  <2>6. /\ SameWindows(w, Aim(u, n)) /\ Aimed(w, Aim(u, n)) /\ Dealt(Aim(u, n))
        /\ DeckOf(Aim(u, n)) = Dk(s, icons, n + 1, FALSE)
    BY <1>1, <2>3, <2>4, <2>5, Turn
  <2> QED BY <1>3, <2>2, <2>4, <2>5, <2>6 DEF Plays
<1> QED BY <1>2, <1>5, <1>6

\* A move of a deck of more than two cards that ends with the DECK card as the
\* target.
LEMMA Nexts ==
  ASSUME NEW w, Dealt(w)
  PROVE  Plays(w, md_deck_next(w), TheDeck!Do(DeckOf(w), "DECK_NEXT"))
<1>1. PICK c, m \in Seq(Window) : Cut(w, c, m)
  BY DEF Dealt
<1> DEFINE icons == w.minimized
           t == w.target_index + 1
           z == w.maximized
           d == Dk(c, icons, t, z)
<1>2. /\ c \in Seq(Window) /\ Len(c) \in Nat /\ IsInjective(c)
      /\ icons \in SUBSET Window /\ w.target_index \in {0, 1} /\ t \in Nat /\ z \in BOOLEAN
  BY <1>1, CutLists
<1>3. DeckOf(w) = d /\ d.cards = c
  BY <1>1, <1>2, CutDeck, DeckParts
<1>4. visible_window_count(w) = Len(c)
  BY <1>1, CutCounts
<1>5. TheDeck!Do(d, "DECK_NEXT")
        = IF Len(c) <= 2 THEN d ELSE TheDeck!Aimed(TheDeck!Sink(d), 2)
  BY <1>3 DEF TheDeck!Do, TheDeck!DECK
<1>6. CASE Len(c) <= 2
  <2>1. md_deck_next(w) = w
    BY <1>4, <1>6 DEF md_deck_next
  <2> QED BY <1>3, <1>5, <1>6, <2>1, PlaysNothing
<1>7. CASE ~(Len(c) <= 2)
  <2> DEFINE x == c[2]
             u == move_to_region_end(w, x)
             s == Sunk(c)
  <2>0. Len(c) >= 2
    BY <1>2, <1>7
  <2>1. window_at(w, 1) = x /\ x \in Range(c)
    BY <1>1, <1>2, <2>0, CutWindows, TakenOut
  <2>2. md_deck_next(w) = Aim(u, 1)
    BY <1>2, <1>4, <1>7, <2>1 DEF md_deck_next
  <2>3. SameWindows(w, u) /\ Aimed(w, u) /\ u.windows = s \o m
    <3> HIDE DEF x
    <3>1. /\ SameWindows(w, u) /\ Aimed(w, u)
          /\ u.windows = Append(Without(c, x), x) \o m
      BY <1>1, <2>1, ToEnd
    <3>2. Append(Without(c, x), x) = s
      BY <1>2, <2>0, Turned DEF x
    <3> HIDE DEF u, s
    <3> QED BY <3>1, <3>2
  <2>4. s \in Seq(Window) /\ TheDeck!Sink(d) = Dk(s, icons, t, z)
    BY <1>2, <2>0, DeckTurns
  <2>5. TheDeck!Aimed(Dk(s, icons, t, z), 2) = Dk(s, icons, 2, FALSE)
    <3> DEFINE two == 2
    <3>1. two \in Nat /\ s \in Seq(Window)
      BY <2>4
    <3> HIDE DEF s, t, z, icons, two
    <3>2. TheDeck!Aimed(Dk(s, icons, t, z), two) = Dk(s, icons, two, FALSE)
      BY <1>2, <3>1, DeckAimed
    <3> QED BY <3>2 DEF two
  <2> HIDE DEF u, s, d
  <2>6. /\ SameWindows(w, Aim(u, 1)) /\ Aimed(w, Aim(u, 1)) /\ Dealt(Aim(u, 1))
        /\ DeckOf(Aim(u, 1)) = Dk(s, icons, 2, FALSE)
    <3> DEFINE n == 1
    <3>1. n \in {0, 1} /\ n + 1 = 2
      OBVIOUS
    <3> HIDE DEF n
    <3>2. /\ SameWindows(w, Aim(u, n)) /\ Aimed(w, Aim(u, n)) /\ Dealt(Aim(u, n))
          /\ DeckOf(Aim(u, n)) = Dk(s, icons, n + 1, FALSE)
      BY <1>1, <2>3, <2>4, <3>1, Turn
    <3> QED BY <3>1, <3>2 DEF n
  <2> QED BY <1>3, <1>5, <1>7, <2>2, <2>4, <2>5, <2>6 DEF Plays
<1> QED BY <1>2, <1>6, <1>7

LEMMA Prevs ==
  ASSUME NEW w, Dealt(w)
  PROVE  Plays(w, md_deck_prev(w), TheDeck!Do(DeckOf(w), "DECK_PREV"))
<1>1. PICK c, m \in Seq(Window) : Cut(w, c, m)
  BY DEF Dealt
<1> DEFINE icons == w.minimized
           t == w.target_index + 1
           z == w.maximized
           d == Dk(c, icons, t, z)
<1>2. /\ c \in Seq(Window) /\ Len(c) \in Nat /\ IsInjective(c)
      /\ icons \in SUBSET Window /\ w.target_index \in {0, 1} /\ t \in Nat /\ z \in BOOLEAN
  BY <1>1, CutLists
<1>3. DeckOf(w) = d /\ d.cards = c
  BY <1>1, <1>2, CutDeck, DeckParts
<1>4. visible_window_count(w) = Len(c)
  BY <1>1, CutCounts
<1>5. TheDeck!Do(d, "DECK_PREV")
        = IF Len(c) <= 2 THEN d ELSE TheDeck!Aimed(TheDeck!Raise(d), 2)
  BY <1>3 DEF TheDeck!Do, TheDeck!DECK
<1>6. CASE Len(c) <= 2
  <2>1. md_deck_prev(w) = w
    BY <1>4, <1>6 DEF md_deck_prev
  <2> QED BY <1>3, <1>5, <1>6, <2>1, PlaysNothing
<1>7. CASE ~(Len(c) <= 2)
  <2> DEFINE x == c[Len(c)]
             y == c[1]
             two == SubSeq(c, 2, Len(c) - 1)
             u == move_after(w, x, y)
             s == Lifted(c)
  <2>0. Len(c) >= 2
    BY <1>2, <1>7
  <2>1. /\ window_at(w, visible_window_count(w) - 1) = x /\ window_at(w, 0) = y
        /\ x \in Range(c) /\ y \in Range(c) /\ x # y /\ two \in Seq(Window)
        /\ Leaves(c, x, y, two)
    BY <1>1, <1>2, <2>0, CutWindows, TakenOut DEF Leaves
  <2>2. md_deck_prev(w) = Aim(u, 1)
    BY <1>2, <1>4, <1>7, <2>1 DEF md_deck_prev
  <2>3. SameWindows(w, u) /\ Aimed(w, u) /\ u.windows = s \o m
    <3>2. Seconded(x, y, two) = s
      BY <1>2, <2>0, Turned DEF Seconded
    <3> HIDE DEF x, y, two
    <3>1. /\ SameWindows(w, u) /\ Aimed(w, u)
          /\ u.windows = Seconded(x, y, two) \o m
      BY <1>1, <2>1, ToSecond
    <3> HIDE DEF u, s
    <3> QED BY <3>1, <3>2
  <2>4. s \in Seq(Window) /\ TheDeck!Raise(d) = Dk(s, icons, t, z)
    BY <1>2, <2>0, DeckTurns
  <2>5. TheDeck!Aimed(Dk(s, icons, t, z), 2) = Dk(s, icons, 2, FALSE)
    <3> DEFINE k == 2
    <3>1. k \in Nat /\ s \in Seq(Window)
      BY <2>4
    <3> HIDE DEF s, t, z, icons, k
    <3>2. TheDeck!Aimed(Dk(s, icons, t, z), k) = Dk(s, icons, k, FALSE)
      BY <1>2, <3>1, DeckAimed
    <3> QED BY <3>2 DEF k
  <2> HIDE DEF u, s, d
  <2>6. /\ SameWindows(w, Aim(u, 1)) /\ Aimed(w, Aim(u, 1)) /\ Dealt(Aim(u, 1))
        /\ DeckOf(Aim(u, 1)) = Dk(s, icons, 2, FALSE)
    <3> DEFINE n == 1
    <3>1. n \in {0, 1} /\ n + 1 = 2
      OBVIOUS
    <3> HIDE DEF n
    <3>2. /\ SameWindows(w, Aim(u, n)) /\ Aimed(w, Aim(u, n)) /\ Dealt(Aim(u, n))
          /\ DeckOf(Aim(u, n)) = Dk(s, icons, n + 1, FALSE)
      BY <1>1, <2>3, <2>4, <3>1, Turn
    <3> QED BY <3>1, <3>2 DEF n
  <2> QED BY <1>3, <1>5, <1>7, <2>2, <2>4, <2>5, <2>6 DEF Plays
<1> QED BY <1>2, <1>6, <1>7

\* A card comes to the front and is the target.
LEMMA Fronts ==
  ASSUME NEW w, NEW c, NEW m, Cut(w, c, m), NEW x \in Range(c)
  PROVE  Plays(w, Aim(move_first(w, x), 0), TheDeck!ToMain(DeckOf(w), x))
<1> DEFINE icons == w.minimized
           t == w.target_index + 1
           z == w.maximized
           u == move_first(w, x)
           s == Fronted(c, x)
           n == 0
<1>2. /\ c \in Seq(Window) /\ x \in Window /\ x \notin icons /\ x \in Range(c)
      /\ icons \in SUBSET Window /\ t \in Nat /\ z \in BOOLEAN
  BY CutLists, RangeOfSeq
<1>3. DeckOf(w) = Dk(c, icons, t, z)
  BY CutDeck
<1>4. SameWindows(w, u) /\ Aimed(w, u) /\ s \in Seq(Window) /\ u.windows = s \o m
  BY ToFront
<1>5. n \in {0, 1} /\ n + 1 = 1 /\ n \in Nat
  OBVIOUS
<1>6. icons \ {x} = icons
  BY <1>2
<1>7. TheDeck!ToMain(Dk(c, icons, t, z), x) = Dk(s, icons, 1, FALSE)
  <2> HIDE DEF t, z, icons, n
  <2>1. TheDeck!ToMain(Dk(c, icons, t, z), x) = Dk(Fronted(c, x), icons \ {x}, 1, FALSE)
    BY <1>2, <1>5, DeckMoves
  <2> QED BY <1>6, <2>1
<1> HIDE DEF u, s, n
<1>8. /\ SameWindows(w, Aim(u, n)) /\ Aimed(w, Aim(u, n)) /\ Dealt(Aim(u, n))
      /\ DeckOf(Aim(u, n)) = Dk(s, icons, n + 1, FALSE)
  BY <1>4, <1>5, Turn
<1>9. Plays(w, Aim(u, n), TheDeck!ToMain(DeckOf(w), x))
  BY <1>3, <1>5, <1>7, <1>8 DEF Plays
<1> QED BY <1>9 DEF u, n

LEMMA Promotes ==
  ASSUME NEW w, Dealt(w)
  PROVE  Plays(w, md_promote_target_to_main(w), TheDeck!Do(DeckOf(w), "PROMOTE_TARGET_TO_MAIN"))
<1>1. PICK c, m \in Seq(Window) : Cut(w, c, m)
  BY DEF Dealt
<1> DEFINE icons == w.minimized
           t == w.target_index + 1
           z == w.maximized
           d == Dk(c, icons, t, z)
<1>2. /\ c \in Seq(Window) /\ Len(c) \in Nat /\ DOMAIN c = 1..Len(c)
      /\ icons \in SUBSET Window /\ w.target_index \in {0, 1} /\ t \in Nat /\ z \in BOOLEAN
  BY <1>1, CutLists
<1>3. DeckOf(w) = d /\ d.cards = c /\ d.target = t
  BY <1>1, <1>2, CutDeck, DeckParts
<1>4. /\ target_window(w) = IF w.target_index + 1 \in DOMAIN c
                            THEN c[w.target_index + 1] ELSE NULL
      /\ target_window(w) = NULL <=> w.target_index + 1 \notin DOMAIN c
  BY <1>1, CutCounts
<1>5. TheDeck!Do(d, "PROMOTE_TARGET_TO_MAIN")
        = IF t = 2 /\ t \in DOMAIN c THEN TheDeck!ToMain(d, c[2]) ELSE d
  BY <1>3 DEF TheDeck!Do, TheDeck!DECK, TheDeck!HasTarget
<1>6. CASE w.target_index = 1 /\ t \in DOMAIN c
  <2>1. t = 2 /\ target_window(w) = c[2] /\ target_window(w) # NULL /\ 2 \in DOMAIN c
    BY <1>4, <1>6
  <2>2. c[2] \in Range(c)
    BY <2>1 DEF Range
  <2>3. md_promote_target_to_main(w) = Aim(move_first(w, c[2]), 0)
    BY <1>6, <2>1 DEF md_promote_target_to_main
  <2>4. Plays(w, Aim(move_first(w, c[2]), 0), TheDeck!ToMain(DeckOf(w), c[2]))
    BY <1>1, <2>2, Fronts
  <2> QED BY <1>3, <1>5, <2>1, <2>3, <2>4
<1>7. CASE ~(w.target_index = 1 /\ t \in DOMAIN c)
  <2>1. md_promote_target_to_main(w) = w
    BY <1>2, <1>4, <1>7 DEF md_promote_target_to_main
  <2>2. ~(t = 2 /\ t \in DOMAIN c)
    BY <1>2, <1>7
  <2> QED BY <1>3, <1>5, <2>1, <2>2, PlaysNothing
<1> QED BY <1>6, <1>7

LEMMA Clamps ==
  ASSUME NEW w, Dealt(w)
  PROVE  Plays(w, clamp_target(w), TheDeck!Steady(DeckOf(w)))
<1>1. PICK c, m \in Seq(Window) : Cut(w, c, m)
  BY DEF Dealt
<1> DEFINE icons == w.minimized
           t == w.target_index + 1
           z == w.maximized
           v == clamp_target(w)
<1>2. /\ c \in Seq(Window) /\ Len(c) \in Nat /\ DOMAIN c = 1..Len(c) /\ Sound(w)
      /\ icons \in SUBSET Window /\ w.target_index \in {0, 1} /\ t \in Nat /\ z \in BOOLEAN
      /\ w.windows = c \o m
  BY <1>1, CutLists
<1>3. DeckOf(w) = Dk(c, icons, t, z)
  BY <1>1, CutDeck
<1>4. visible_window_count(w) = Len(c)
  BY <1>1, CutCounts
<1>5. SameWindows(w, v) /\ Aimed(w, v)
  BY <1>2, ClampTarget, AimedMoves
<1>6. /\ v.windows = w.windows
      /\ v.target_index = IF t \in DOMAIN c THEN w.target_index ELSE 0
      /\ v.maximized = (z /\ c # <<>>)
  <2>1. Len(c) = 0 <=> c = <<>>
    BY <1>2, EmptySeq
  <2>2. CASE Len(c) = 0
    <3>1. v = [w EXCEPT !.target_index = 0, !.maximized = FALSE]
      BY <1>4, <2>2 DEF clamp_target
    <3>2. v.windows = w.windows /\ v.target_index = 0 /\ v.maximized = FALSE
      BY <1>2, <3>1 DEF Sound, WMState
    <3>3. t \notin DOMAIN c
      BY <1>2, <2>2
    <3> QED BY <2>1, <2>2, <3>2, <3>3
  <2>3. CASE Len(c) # 0 /\ w.target_index >= Len(c)
    <3>1. v = [w EXCEPT !.target_index = 0]
      BY <1>4, <2>3 DEF clamp_target
    <3>2. v.windows = w.windows /\ v.target_index = 0 /\ v.maximized = w.maximized
      BY <1>2, <3>1 DEF Sound, WMState
    <3>3. t \notin DOMAIN c
      BY <1>2, <2>3
    <3> HIDE DEF v
    <3> QED BY <1>2, <2>1, <2>3, <3>2, <3>3
  <2>4. CASE Len(c) # 0 /\ ~(w.target_index >= Len(c))
    <3>1. v = w
      BY <1>2, <1>4, <2>4 DEF clamp_target
    <3>3. t \in DOMAIN c
      BY <1>2, <2>4
    <3> HIDE DEF v
    <3> QED BY <1>2, <2>1, <2>4, <3>1, <3>3
  <2> QED BY <2>2, <2>3, <2>4
<1> HIDE DEF v
<1>7. v.target_index \in {0, 1} /\ v.target_index + 1 = IF t \in DOMAIN c THEN t ELSE 1
  BY <1>2, <1>6
<1>8. Dealt(v) /\ DeckOf(v) = Dk(c, icons, v.target_index + 1, v.maximized)
  <2>1. v.windows = c \o m
    BY <1>2, <1>6
  <2> QED BY <1>1, <1>2, <1>5, <1>7, <2>1, Rearranged
<1>9. TheDeck!Steady(Dk(c, icons, t, z))
        = Dk(c, icons, IF t \in DOMAIN c THEN t ELSE 1, z /\ c # <<>>)
  BY <1>2, DeckSteady
<1>10. DeckOf(v) = TheDeck!Steady(DeckOf(w))
  BY <1>3, <1>6, <1>7, <1>8, <1>9
<1> QED BY <1>5, <1>8, <1>10 DEF Plays, v

LEMMA SunkLength ==
  ASSUME NEW c \in Seq(Window), Len(c) >= 2
  PROVE  Len(Sunk(c)) = Len(c)
<1> DEFINE three == SubSeq(c, 3, Len(c))
           n == Len(c)
           a == 3
<1>1. n \in Nat /\ c[1] \in Window /\ c[2] \in Window /\ n >= 2
  BY LenProperties, ElementOfSeq
<1>2. a \in 1..n + 1 /\ n \in 0..n
  BY <1>1
<1> HIDE DEF n, a
<1>3. SubSeq(c, a, n) \in Seq(Window) /\ Len(SubSeq(c, a, n)) = IF a <= n THEN n - a + 1 ELSE 0
  BY <1>2, SubList DEF n
<1>4. three \in Seq(Window) /\ Len(three) = n - 2
  <2>1. three = SubSeq(c, a, n) /\ a = 3
    BY DEF a, n
  <2> HIDE DEF three
  <2> QED BY <1>1, <1>3, <2>1
<1> HIDE DEF three
<1>5. /\ <<c[1]>> \in Seq(Window) /\ Len(<<c[1]>>) = 1
      /\ <<c[2]>> \in Seq(Window) /\ Len(<<c[2]>>) = 1
  BY <1>1
<1>6. <<c[1]>> \o three \in Seq(Window) /\ Len(<<c[1]>> \o three) = 1 + (n - 2)
  BY <1>4, <1>5, ConcatProperties
<1>7. Len((<<c[1]>> \o three) \o <<c[2]>>) = 1 + (n - 2) + 1
  BY <1>5, <1>6, ConcatProperties
<1>8. Len(Sunk(c)) = 1 + (n - 2) + 1
  BY <1>7 DEF Sunk, three, n
<1> QED BY <1>1, <1>8 DEF n

LEMMA Sends ==
  ASSUME NEW w, Dealt(w)
  PROVE  Plays(w, md_send_target_to_deck_bottom(w), TheDeck!Send(DeckOf(w)))
<1>1. PICK c, m \in Seq(Window) : Cut(w, c, m)
  BY DEF Dealt
<1> DEFINE icons == w.minimized
           t == w.target_index + 1
           z == w.maximized
           d == Dk(c, icons, t, z)
           idle == \/ visible_window_count(w) <= 1 \/ target_window(w) = NULL
                   \/ w.target_index = 1 /\ visible_window_count(w) <= 2
<1>2. /\ c \in Seq(Window) /\ Len(c) \in Nat /\ DOMAIN c = 1..Len(c) /\ IsInjective(c)
      /\ icons \in SUBSET Window /\ w.target_index \in {0, 1} /\ t \in Nat /\ z \in BOOLEAN
      /\ Sound(w)
  BY <1>1, CutLists
<1>3. DeckOf(w) = d /\ d.cards = c /\ d.target = t
  BY <1>1, <1>2, CutDeck, DeckParts
<1>4. /\ visible_window_count(w) = Len(c)
      /\ target_window(w) = IF w.target_index + 1 \in DOMAIN c
                            THEN c[w.target_index + 1] ELSE NULL
      /\ target_window(w) = NULL <=> w.target_index + 1 \notin DOMAIN c
  BY <1>1, CutCounts
<1>5. TheDeck!Send(d)
        = IF Len(c) < 2 \/ t \notin DOMAIN c THEN d
          ELSE IF t = 1 THEN TheDeck!Swap(d)
          ELSE IF Len(c) > 2 THEN TheDeck!Aimed(TheDeck!Sink(d), 2) ELSE d
  BY <1>3 DEF TheDeck!Send, TheDeck!DECK, TheDeck!MAIN, TheDeck!HasTarget
<1>6. CASE idle
  <2>1. md_send_target_to_deck_bottom(w) = w
    BY <1>6 DEF md_send_target_to_deck_bottom
  <2>2. TheDeck!Send(d) = d
    <3>1. \/ Len(c) < 2 \/ t \notin DOMAIN c
          \/ t # 1 /\ ~(Len(c) > 2)
      BY <1>2, <1>4, <1>6
    <3> QED BY <1>5, <3>1
  <2> QED BY <1>3, <2>1, <2>2, PlaysNothing
<1>7. CASE ~idle /\ w.target_index = 0
  <2> DEFINE x == c[1]
             y == c[2]
             three == SubSeq(c, 3, Len(c))
             u == move_after(w, x, y)
             s == Swapped(c)
  <2>0. Len(c) >= 2 /\ t = 1 /\ t \in DOMAIN c
    BY <1>2, <1>4, <1>7
  <2>1. /\ target_window(w) = x /\ window_at(w, 1) = y
        /\ x \in Range(c) /\ y \in Range(c) /\ x # y /\ three \in Seq(Window)
        /\ Leaves(c, x, y, three)
    BY <1>1, <1>2, <1>4, <2>0, CutWindows, TakenOut DEF Leaves
  <2>2. md_send_target_to_deck_bottom(w) = Aim(u, 1)
    BY <1>7, <2>1 DEF md_send_target_to_deck_bottom
  <2>3. SameWindows(w, u) /\ Aimed(w, u) /\ u.windows = s \o m
    <3>2. Seconded(x, y, three) = s
      BY <1>2, <2>0, Turned DEF Seconded
    <3> HIDE DEF x, y, three
    <3>1. /\ SameWindows(w, u) /\ Aimed(w, u)
          /\ u.windows = Seconded(x, y, three) \o m
      BY <1>1, <2>1, ToSecond
    <3> HIDE DEF u, s
    <3> QED BY <3>1, <3>2
  <2>4. /\ s \in Seq(Window)
        /\ TheDeck!Swap(d) = Dk(s, icons, IF t = 1 THEN 2 ELSE 1, FALSE)
    BY <1>2, <2>0, DeckTurns
  <2> HIDE DEF u, s, d
  <2>6. /\ SameWindows(w, Aim(u, 1)) /\ Aimed(w, Aim(u, 1)) /\ Dealt(Aim(u, 1))
        /\ DeckOf(Aim(u, 1)) = Dk(s, icons, 2, FALSE)
    <3> DEFINE n == 1
    <3>1. n \in {0, 1} /\ n + 1 = 2
      OBVIOUS
    <3> HIDE DEF n
    <3>2. /\ SameWindows(w, Aim(u, n)) /\ Aimed(w, Aim(u, n)) /\ Dealt(Aim(u, n))
          /\ DeckOf(Aim(u, n)) = Dk(s, icons, n + 1, FALSE)
      BY <1>1, <2>3, <2>4, <3>1, Turn
    <3> QED BY <3>1, <3>2 DEF n
  <2>7. TheDeck!Send(d) = Dk(s, icons, 2, FALSE)
    <3>1. TheDeck!Send(d) = TheDeck!Swap(d)
      BY <1>2, <1>5, <2>0
    <3> QED BY <2>0, <2>4, <3>1
  <2> QED BY <1>3, <2>2, <2>6, <2>7 DEF Plays
<1>8. CASE ~idle /\ w.target_index = 1
  <2> DEFINE x == c[2]
             u == move_to_region_end(w, x)
             s == Sunk(c)
             v == [u EXCEPT !.maximized = FALSE]
  <2>0. Len(c) >= 2 /\ Len(c) > 2 /\ t = 2 /\ t \in DOMAIN c
    BY <1>2, <1>4, <1>8
  <2>1. target_window(w) = x /\ x \in Range(c) /\ x \in Live(w)
    <3>1. x \in Range(c)
      BY <1>2, <2>0, TakenOut
    <3>2. x \in Live(w)
      BY <1>1, <3>1, CutLists
    <3>3. w.target_index + 1 = 2
      BY <1>8
    <3> QED BY <1>4, <2>0, <3>1, <3>2, <3>3
  <2>2. SameWindows(w, u) /\ Aimed(w, u) /\ u.windows = s \o m
    <3> HIDE DEF x
    <3>1. /\ SameWindows(w, u) /\ Aimed(w, u)
          /\ u.windows = Append(Without(c, x), x) \o m
      BY <1>1, <2>1, ToEnd
    <3>2. Append(Without(c, x), x) = s
      BY <1>2, <2>0, Turned DEF x
    <3> HIDE DEF u, s
    <3> QED BY <3>1, <3>2
  <2>3. s \in Seq(Window) /\ TheDeck!Sink(d) = Dk(s, icons, t, z)
    BY <1>2, <2>0, DeckTurns
  <2>4. Len(s) = Len(c)
    BY <1>2, <2>0, SunkLength
  <2>5. TheDeck!Aimed(Dk(s, icons, t, z), 2) = Dk(s, icons, 2, FALSE)
    <3> DEFINE k == 2
    <3>1. k \in Nat /\ s \in Seq(Window)
      BY <2>3
    <3> HIDE DEF s, t, z, icons, k
    <3>2. TheDeck!Aimed(Dk(s, icons, t, z), k) = Dk(s, icons, k, FALSE)
      BY <1>2, <3>1, DeckAimed
    <3> QED BY <3>2 DEF k
  <2> HIDE DEF s, d
  <2>6. u.target_index = 1
    <3> DEFINE l == InsertAt(Without(w.windows, x),
                             visible_region_end([w EXCEPT !.windows = Without(@, x)]), x)
    <3>1. u = [w EXCEPT !.windows = l] \/ u.target_index = w.target_index
      <4>1. [w EXCEPT !.windows = Without(@, x)].windows = Without(w.windows, x)
        BY <1>2 DEF Sound, WMState
      <4> QED BY <4>1 DEF move_to_region_end
    <3> HIDE DEF l, u
    <3> QED BY <1>2, <1>8, <3>1 DEF Sound, WMState
  <2> HIDE DEF u
  <2>7. visible_window_count(u) = Len(c) /\ Sound(u)
    <3>1. Cut(u, s, m)
      BY <1>1, <2>2, <2>3, <2>6, Rearranged
    <3> QED BY <2>4, <3>1, CutCounts, CutLists
  <2>8. md_send_target_to_deck_bottom(w) = v
    <3>1. clamp_target(u) = u
      BY <1>2, <2>0, <2>6, <2>7 DEF clamp_target
    <3>2. md_send_target_to_deck_bottom(w) = [clamp_target(move_to_region_end(w, x)) EXCEPT !.maximized = FALSE]
      BY <1>8, <2>1 DEF md_send_target_to_deck_bottom
    <3> QED BY <3>1, <3>2 DEF u
  <2>9. v.windows = s \o m /\ v.target_index = 1 /\ v.maximized = FALSE
    BY <2>2, <2>6, <2>7 DEF Sound, WMState
  <2>10. SameWindows(w, v) /\ Aimed(w, v)
    <3>1. SameWindows(u, v) /\ Aimed(u, v)
      BY <2>7, Targeted, AimedBy
    <3> HIDE DEF v
    <3> QED BY <2>2, <3>1, SameWindowsTrans, AimedTrans
  <2> HIDE DEF v
  <2>11. Dealt(v) /\ DeckOf(v) = Dk(s, icons, 2, FALSE)
    <3>1. v.target_index \in {0, 1} /\ v.target_index + 1 = 2
      BY <2>9
    <3>2. Dealt(v) /\ DeckOf(v) = Dk(s, icons, v.target_index + 1, v.maximized)
      BY <1>1, <2>3, <2>9, <2>10, <3>1, Rearranged
    <3> QED BY <2>9, <3>1, <3>2
  <2>12. TheDeck!Send(d) = Dk(s, icons, 2, FALSE)
    <3>1. TheDeck!Send(d) = TheDeck!Aimed(TheDeck!Sink(d), 2)
      BY <1>2, <1>5, <2>0
    <3> QED BY <2>3, <2>5, <3>1
  <2> QED BY <1>3, <2>8, <2>10, <2>11, <2>12 DEF Plays
<1> QED BY <1>2, <1>6, <1>7, <1>8

-----------------------------------------------------------------------------
(* Keys and clicks.                                                        *)

\* What the deck does not see.
LEMMA Unseen ==
  ASSUME NEW w, Dealt(w), NEW v, Sound(v),
         v.windows = w.windows, v.parent = w.parent, v.floating = w.floating,
         v.minimized = w.minimized, v.target_index = w.target_index, v.maximized = w.maximized
  PROVE  Dealt(v) /\ DeckOf(v) = DeckOf(w)
<1>1. PICK c, m \in Seq(Window) : Cut(w, c, m)
  BY DEF Dealt
<1>2. Cut(v, c, m)
  BY <1>1 DEF Cut, Arranged
<1> QED BY <1>1, <1>2, CutDeck

LEMMA UnseenFlag ==
  ASSUME NEW w, Dealt(w), NEW b \in BOOLEAN
  PROVE  /\ Plays(w, [w EXCEPT !.focus_dirty = TRUE], DeckOf(w))
         /\ Plays(w, [w EXCEPT !.manage_dirty = b], DeckOf(w))
<1> DEFINE t == TRUE
           u == [w EXCEPT !.focus_dirty = t]
           v == [w EXCEPT !.manage_dirty = b]
<1>1. Sound(w) /\ t \in BOOLEAN
  BY DEF Dealt, Cut
<1>2. SameWindows(w, u) /\ SameWindows(w, v)
  <2> HIDE DEF t
  <2> QED BY <1>1, FocusDirtied
<1>3. Aimed(w, u) /\ Aimed(w, v)
  BY <1>1, AimedBy
<1>4. /\ u.windows = w.windows /\ u.parent = w.parent /\ u.floating = w.floating
      /\ u.minimized = w.minimized /\ u.target_index = w.target_index /\ u.maximized = w.maximized
  BY <1>1 DEF Sound, WMState
<1>5. /\ v.windows = w.windows /\ v.parent = w.parent /\ v.floating = w.floating
      /\ v.minimized = w.minimized /\ v.target_index = w.target_index /\ v.maximized = w.maximized
  BY <1>1 DEF Sound, WMState
<1> HIDE DEF u, v
<1>6. Dealt(u) /\ DeckOf(u) = DeckOf(w) /\ Dealt(v) /\ DeckOf(v) = DeckOf(w)
  BY <1>2, <1>4, <1>5, Unseen DEF SameWindows
<1> QED BY <1>2, <1>3, <1>6 DEF Plays, u, v, t

LEMMA Dirtied ==
  ASSUME NEW w, NEW v, NEW d, Plays(w, v, d)
  PROVE  Plays(w, [v EXCEPT !.focus_dirty = TRUE], d)
<1> DEFINE b == TRUE
<1>1. Dealt(v) /\ DeckOf(v) = d /\ b \in BOOLEAN
  BY DEF Plays
<1> HIDE DEF b
<1>2. Plays(v, [v EXCEPT !.focus_dirty = TRUE], d)
  BY <1>1, UnseenFlag
<1> QED BY <1>2, PlaysTrans

LEMMA Zooms ==
  ASSUME NEW w, Dealt(w), NEW b \in BOOLEAN
  PROVE  Plays(w, [w EXCEPT !.maximized = b], [DeckOf(w) EXCEPT !.zoomed = b])
<1>1. PICK c, m \in Seq(Window) : Cut(w, c, m)
  BY DEF Dealt
<1> DEFINE icons == w.minimized
           t == w.target_index + 1
           z == w.maximized
           d == Dk(c, icons, t, z)
           v == [w EXCEPT !.maximized = b]
<1>2. /\ c \in Seq(Window) /\ Sound(w) /\ w.windows = c \o m
      /\ icons \in SUBSET Window /\ w.target_index \in {0, 1} /\ t \in Nat /\ z \in BOOLEAN
  BY <1>1, CutLists
<1>3. DeckOf(w) = d /\ d \in Decks /\ d.cards = c /\ d.icons = icons /\ d.target = t
  BY <1>1, <1>2, CutDeck, DeckParts
<1> HIDE DEF d
<1>4. [d EXCEPT !.zoomed = b] = Dk(c, icons, t, b)
  BY <1>3, PutZoomed
<1>5. SameWindows(w, v) /\ Aimed(w, v)
  BY <1>2, Targeted, AimedBy
<1>6. v.windows = w.windows /\ v.target_index = w.target_index /\ v.maximized = b
  BY <1>2 DEF Sound, WMState
<1> HIDE DEF v
<1>7. Dealt(v) /\ DeckOf(v) = Dk(c, icons, v.target_index + 1, v.maximized)
  BY <1>1, <1>2, <1>5, <1>6, Rearranged
<1> QED BY <1>3, <1>4, <1>5, <1>6, <1>7 DEF Plays, v

LEMMA Aims ==
  ASSUME NEW w, Dealt(w), NEW n \in {0, 1}
  PROVE  Plays(w, Aim(w, n), TheDeck!Aimed(DeckOf(w), n + 1))
<1>1. PICK c, m \in Seq(Window) : Cut(w, c, m)
  BY DEF Dealt
<1> DEFINE icons == w.minimized
           t == w.target_index + 1
           z == w.maximized
           k == n + 1
<1>2. /\ c \in Seq(Window) /\ Sound(w) /\ w.windows = c \o m
      /\ icons \in SUBSET Window /\ w.target_index \in {0, 1} /\ t \in Nat /\ z \in BOOLEAN
      /\ k \in Nat
  BY <1>1, CutLists
<1>3. DeckOf(w) = Dk(c, icons, t, z)
  BY <1>1, CutDeck
<1>4. TheDeck!Aimed(Dk(c, icons, t, z), k) = Dk(c, icons, k, FALSE)
  <2> HIDE DEF icons, t, z, k
  <2> QED BY <1>2, DeckAimed
<1>5. SameWindows(w, w) /\ Aimed(w, w)
  BY <1>2, AimedSelf DEF SameWindows
<1>6. /\ SameWindows(w, Aim(w, n)) /\ Aimed(w, Aim(w, n)) /\ Dealt(Aim(w, n))
      /\ DeckOf(Aim(w, n)) = Dk(c, icons, n + 1, FALSE)
  BY <1>1, <1>2, <1>5, Turn
<1> QED BY <1>3, <1>4, <1>6 DEF Plays

\* What the deck's commands look at.
LEMMA DealtDeck ==
  ASSUME NEW w, Dealt(w)
  PROVE  LET d == DeckOf(w) IN
         /\ Sound(w) /\ d \in Decks
         /\ d.target = w.target_index + 1 /\ d.zoomed = w.maximized /\ d.icons = w.minimized
         /\ w.target_index \in {0, 1} /\ w.maximized \in BOOLEAN
         /\ Len(d.cards) = visible_window_count(w)
         /\ TheDeck!HasTarget(d) <=> target_window(w) # NULL
         /\ w.floating = {}
<1>1. PICK c, m \in Seq(Window) : Cut(w, c, m)
  BY DEF Dealt
<1> DEFINE icons == w.minimized
           t == w.target_index + 1
           z == w.maximized
           d == Dk(c, icons, t, z)
<1>2. /\ c \in Seq(Window) /\ Sound(w) /\ Arranged(w, c, m)
      /\ icons \in SUBSET Window /\ w.target_index \in {0, 1} /\ t \in Nat /\ z \in BOOLEAN
  BY <1>1, CutLists
<1>3. /\ DeckOf(w) = d /\ d \in Decks /\ d.cards = c /\ d.target = t
      /\ d.zoomed = z /\ d.icons = icons
  BY <1>1, <1>2, CutDeck, DeckParts
<1> HIDE DEF d
<1>4. /\ visible_window_count(w) = Len(c)
      /\ target_window(w) = NULL <=> t \notin DOMAIN c
  BY <1>1, CutCounts
<1>5. TheDeck!HasTarget(d) <=> target_window(w) # NULL
  BY <1>3, <1>4 DEF TheDeck!HasTarget
<1> QED BY <1>2, <1>3, <1>4, <1>5 DEF Arranged

LEMMA SameZoom ==
  ASSUME NEW d \in Decks, NEW z, z = d.zoomed
  PROVE  [d EXCEPT !.zoomed = z] = d
BY DEF Decks

LEMMA Acts ==
  ASSUME NEW w, Dealt(w), NEW action \in KeyAction \cup {"NONE"}
  PROVE  Plays(w, seat_action(w, action), TheDeck!Do(DeckOf(w), action))
<1> DEFINE Dirty(v) == [v EXCEPT !.focus_dirty = TRUE]
           d == DeckOf(w)
           zoom(b) == [w EXCEPT !.maximized = b]
           zoomed(b) == [d EXCEPT !.zoomed = b]
<1>1. /\ Sound(w) /\ d \in Decks
      /\ d.target = w.target_index + 1 /\ d.zoomed = w.maximized
      /\ w.target_index \in {0, 1} /\ w.maximized \in BOOLEAN
      /\ Len(d.cards) = visible_window_count(w)
      /\ TheDeck!HasTarget(d) <=> target_window(w) # NULL
      /\ w.floating = {}
  BY DealtDeck
<1>2. Plays(w, w, d)
  BY PlaysNothing
<1>3. \A b \in BOOLEAN : Plays(w, zoom(b), zoomed(b)) /\ Plays(w, Dirty(zoom(b)), zoomed(b))
  BY Zooms, Dirtied
<1>4. CASE action = "TOGGLE_TARGET"
  <2> DEFINE n == IF w.target_index = 0 THEN 1 ELSE 0
  <2>1. n \in {0, 1} /\ n + 1 = TheDeck!Other(d.target)
    BY <1>1 DEF TheDeck!Other, TheDeck!MAIN, TheDeck!DECK
  <2>2. seat_action(w, action) = IF visible_window_count(w) < 2 THEN w ELSE Dirty(Aim(w, n))
    BY <1>4 DEF seat_action
  <2>3. TheDeck!Do(d, action) = IF Len(d.cards) < 2 THEN d ELSE TheDeck!Aimed(d, TheDeck!Other(d.target))
    BY <1>4 DEF TheDeck!Do
  <2> HIDE DEF n
  <2>4. Plays(w, Dirty(Aim(w, n)), TheDeck!Aimed(d, n + 1))
    BY <2>1, Aims, Dirtied
  <2> QED BY <1>1, <1>2, <2>1, <2>2, <2>3, <2>4
<1>5. CASE action = "SWAP_MAIN_DECK"
  <2>1. seat_action(w, action) = Dirty(md_swap_main_deck(w)) /\ TheDeck!Do(d, action) = TheDeck!Swap(d)
    BY <1>5 DEF seat_action, TheDeck!Do
  <2> QED BY <2>1, Swaps, Dirtied
<1>6. CASE action = "DECK_NEXT"
  <2>1. seat_action(w, action) = Dirty(md_deck_next(w))
    BY <1>6 DEF seat_action
  <2> QED BY <1>6, <2>1, Nexts, Dirtied
<1>7. CASE action = "DECK_PREV"
  <2>1. seat_action(w, action) = Dirty(md_deck_prev(w))
    BY <1>7 DEF seat_action
  <2> QED BY <1>7, <2>1, Prevs, Dirtied
<1>8. CASE action = "SEND_TARGET_TO_DECK_BOTTOM"
  <2>1. /\ seat_action(w, action) = Dirty(md_send_target_to_deck_bottom(w))
        /\ TheDeck!Do(d, action) = TheDeck!Send(d)
    BY <1>8 DEF seat_action, TheDeck!Do
  <2> QED BY <2>1, Sends, Dirtied
<1>9. CASE action = "PROMOTE_TARGET_TO_MAIN"
  <2>1. seat_action(w, action) = Dirty(md_promote_target_to_main(w))
    BY <1>9 DEF seat_action
  <2> QED BY <1>9, <2>1, Promotes, Dirtied
<1>10. CASE action = "MAXIMIZE_TARGET"
  <2> DEFINE b == d.zoomed \/ TheDeck!HasTarget(d)
  <2>1. /\ seat_action(w, action)
             = IF target_window(w) = NULL \/ w.maximized THEN w ELSE Dirty(zoom(TRUE))
        /\ TheDeck!Do(d, action) = zoomed(b)
    BY <1>10 DEF seat_action, TheDeck!Do
  <2>2. CASE target_window(w) = NULL \/ w.maximized
    <3>1. b = d.zoomed
      BY <1>1, <2>2
    <3> HIDE DEF b
    <3>2. zoomed(b) = d
      BY <1>1, <3>1, SameZoom
    <3> QED BY <1>2, <2>1, <2>2, <3>2
  <2>3. CASE ~(target_window(w) = NULL \/ w.maximized)
    <3>1. b = TRUE
      BY <1>1, <2>3
    <3> QED BY <1>3, <2>1, <2>3, <3>1
  <2> QED BY <2>2, <2>3
<1>11. CASE action = "RESTORE"
  <2>1. /\ seat_action(w, action) = IF w.maximized THEN Dirty(zoom(FALSE)) ELSE w
        /\ TheDeck!Do(d, action) = zoomed(FALSE)
    BY <1>11 DEF seat_action, TheDeck!Do
  <2>2. CASE w.maximized
    BY <1>3, <2>1, <2>2
  <2>3. CASE ~w.maximized
    <3>1. d.zoomed = FALSE
      BY <1>1, <2>3
    <3>2. zoomed(FALSE) = d
      BY <1>1, <3>1, SameZoom
    <3> QED BY <1>2, <2>1, <2>3, <3>2
  <2> QED BY <2>2, <2>3
<1>12. CASE action = "TOGGLE_MAXIMIZE"
  <2> DEFINE b == ~w.maximized
  <2>1. /\ seat_action(w, action) = IF target_window(w) = NULL THEN w ELSE Dirty(zoom(b))
        /\ TheDeck!Do(d, action) = IF TheDeck!HasTarget(d) THEN zoomed(~d.zoomed) ELSE d
    BY <1>12 DEF seat_action, TheDeck!Do
  <2>2. b \in BOOLEAN /\ b = ~d.zoomed
    BY <1>1
  <2> QED BY <1>1, <1>2, <1>3, <2>1, <2>2
<1>13. CASE action = "CLOSE_TARGET"
  <2>1. /\ seat_action(w, action) = IF target_window(w) = NULL THEN w ELSE zoom(FALSE)
        /\ TheDeck!Do(d, action) = IF TheDeck!HasTarget(d) THEN zoomed(FALSE) ELSE d
    BY <1>1, <1>13 DEF seat_action, TheDeck!Do
  <2> QED BY <1>1, <1>2, <1>3, <2>1
<1>14. CASE action = "NONE"
  <2>1. seat_action(w, action) = w /\ TheDeck!Do(d, action) = d
    BY <1>14 DEF seat_action, TheDeck!Do
  <2> QED BY <1>2, <2>1
<1> QED BY <1>4, <1>5, <1>6, <1>7, <1>8, <1>9, <1>10, <1>11, <1>12, <1>13, <1>14
        DEF KeyAction, HoldAction

LEMMA FiresPlays ==
  ASSUME NEW w, Dealt(w), NEW hold \in HoldAction, NEW due
  PROVE  Plays(w, hold_fires(w, hold, due), TheDeck!Fired(DeckOf(w), hold, due))
<1> DEFINE u == seat_action(w, hold)
           c == clamp_target(u)
<1>1. CASE hold \notin due
  BY <1>1, PlaysNothing DEF hold_fires, TheDeck!Fired
<1>2. CASE hold \in due
  <2>1. Plays(w, u, TheDeck!Do(DeckOf(w), hold))
    BY Acts DEF KeyAction
  <2>2. hold_fires(w, hold, due) = [c EXCEPT !.manage_dirty = TRUE]
    BY <1>2 DEF hold_fires
  <2> HIDE DEF u
  <2>3. Plays(u, c, TheDeck!Steady(DeckOf(u)))
    BY <2>1, Clamps DEF Plays
  <2> HIDE DEF c
  <2>4. Plays(c, [c EXCEPT !.manage_dirty = TRUE], DeckOf(c))
    BY <2>3, UnseenFlag DEF Plays
  <2>5. DeckOf(c) = TheDeck!Steady(TheDeck!Do(DeckOf(w), hold))
    BY <2>1, <2>3 DEF Plays
  <2>6. TheDeck!Fired(DeckOf(w), hold, due) = DeckOf(c)
    BY <1>2, <2>5 DEF TheDeck!Fired
  <2> QED BY <2>1, <2>2, <2>3, <2>4, <2>6, PlaysTrans
<1> QED BY <1>1, <1>2

LEMMA HoldPlays ==
  ASSUME NEW w, Dealt(w), NEW due
  PROVE  Plays(w, process_hold_timers(w, due), TheDeck!Held(DeckOf(w), due))
<1> DEFINE a == hold_fires(w, "SWAP_MAIN_DECK", due)
           b == hold_fires(a, "SEND_TARGET_TO_DECK_BOTTOM", due)
           c == hold_fires(b, "PROMOTE_TARGET_TO_MAIN", due)
<1>1. process_hold_timers(w, due) = c
  BY DEF process_hold_timers
<1>2. Plays(w, a, TheDeck!Fired(DeckOf(w), "SWAP_MAIN_DECK", due))
  BY FiresPlays DEF HoldAction
<1> HIDE DEF a
<1>3. Plays(a, b, TheDeck!Fired(DeckOf(a), "SEND_TARGET_TO_DECK_BOTTOM", due))
  BY <1>2, FiresPlays DEF HoldAction, Plays
<1> HIDE DEF b
<1>4. Plays(b, c, TheDeck!Fired(DeckOf(b), "PROMOTE_TARGET_TO_MAIN", due))
  BY <1>3, FiresPlays DEF HoldAction, Plays
<1> HIDE DEF c
<1>5. TheDeck!Held(DeckOf(w), due) = TheDeck!Fired(DeckOf(b), "PROMOTE_TARGET_TO_MAIN", due)
  BY <1>2, <1>3 DEF TheDeck!Held, Plays
<1> QED BY <1>1, <1>2, <1>3, <1>4, <1>5, PlaysTrans

\* A list split anew into cards and icons.
LEMMA Resplit ==
  ASSUME NEW v, Sound(v), \A x \in Window : v.parent[x] = NULL, v.floating = {},
         NEW c \in Seq(Window), NEW m \in Seq(Window),
         v.windows = c \o m, v.minimized = Range(m), v.target_index \in {0, 1}
  PROVE  /\ Dealt(v)
         /\ DeckOf(v) = Dk(c, v.minimized, v.target_index + 1, v.maximized)
<1>1. IsInjective(c \o m)
  BY DEF Sound
<1>2. Range(c) \cap Range(m) = {}
  BY <1>1, ConcatInjective
<1>3. Cut(v, c, m)
  BY <1>2 DEF Cut, Arranged
<1> QED BY <1>3, CutDeck

\* Where a window is found.
LEMMA CutIndex ==
  ASSUME NEW w, NEW c, NEW m, Cut(w, c, m), NEW x
  PROVE  /\ \A i \in 1..Len(c) : c[i] = x => window_index(w, x) = i - 1
         /\ x \in Range(m) => window_index(w, x) \in Nat /\ window_index(w, x) >= Len(c)
         /\ x \notin Live(w) => window_index(w, x) = -1
         /\ window_index(w, x) \in Nat => x \in Live(w)
<1> DEFINE s == w.windows
           at == {n \in DOMAIN s : s[n] = x}
<1>1. /\ Len(c) \in Nat /\ Len(m) \in Nat /\ DOMAIN c = 1..Len(c) /\ DOMAIN s = 1..Len(c) + Len(m)
      /\ \A i \in 1..Len(c) : s[i] = c[i]
      /\ Live(w) = Range(c) \cup Range(m)
  BY ArrangedLists DEF Cut
<1>2. IsInjective(s) /\ Range(c) \cap Range(m) = {}
  BY CutLists DEF Sound
<1>3. window_index(w, x) = IF at = {} THEN -1 ELSE Min(at) - 1
  BY CutCounts DEF window_index
<1>4. \A i \in DOMAIN s : s[i] = x => window_index(w, x) = i - 1
  <2> SUFFICES ASSUME NEW i \in DOMAIN s, s[i] = x PROVE window_index(w, x) = i - 1
    OBVIOUS
  <2>1. at = {i}
    BY <1>2 DEF IsInjective
  <2>2. i \in Nat
    BY <1>1
  <2>3. Min({i}) = i
    BY <2>2 DEF Min
  <2> HIDE DEF at
  <2> QED BY <1>3, <2>1, <2>3
<1>5. Live(w) = {s[i] : i \in DOMAIN s}
  BY DEF Live, Range
<1>6. x \notin Live(w) => window_index(w, x) = -1
  BY <1>3, <1>5
<1>7. \A i \in 1..Len(c) : c[i] = x => window_index(w, x) = i - 1
  <2> TAKE i \in 1..Len(c)
  <2>1. i \in DOMAIN s
    BY <1>1
  <2> QED BY <1>1, <1>4, <2>1
<1>8. x \in Range(m) => window_index(w, x) \in Nat /\ window_index(w, x) >= Len(c)
  <2> SUFFICES ASSUME x \in Range(m)
               PROVE  window_index(w, x) \in Nat /\ window_index(w, x) >= Len(c)
    OBVIOUS
  <2>1. PICK i \in DOMAIN s : s[i] = x
    BY <1>1, <1>5
  <2>2. ~(i <= Len(c))
    <3> SUFFICES ASSUME i <= Len(c) PROVE FALSE
      OBVIOUS
    <3>1. i \in DOMAIN c /\ c[i] = x
      BY <1>1, <2>1
    <3> QED BY <1>2, <3>1 DEF Range
  <2>3. window_index(w, x) = i - 1
    BY <1>4, <2>1
  <2> QED BY <1>1, <2>1, <2>2, <2>3
<1>9. window_index(w, x) \in Nat => x \in Live(w)
  <2>1. -1 \notin Nat
    OBVIOUS
  <2> QED BY <1>6, <2>1
<1> QED BY <1>6, <1>7, <1>8, <1>9

\* What the later steps of the sequence still have to do.
Left(w, v) ==
  /\ v.closed = w.closed
  /\ v.pending_action = w.pending_action /\ v.pending_activate = w.pending_activate

LEMMA Clicks ==
  ASSUME NEW w, Dealt(w)
  PROVE  LET v == seat_interaction(w) IN
         /\ Sound(v) /\ Dealt(v) /\ Left(w, v) /\ Live(v) = Live(w)
         /\ DeckOf(v) \in TheDeck!Clicked(DeckOf(w), w.interacted)
<1>1. PICK c, m \in Seq(Window) : Cut(w, c, m)
  BY DEF Dealt
<1> DEFINE x == w.interacted
           idx == window_index(w, x)
           icons == w.minimized
           t == w.target_index + 1
           z == w.maximized
           d == Dk(c, icons, t, z)
           done == [w EXCEPT !.interacted = NULL]
           b == done.maximized /\ idx = w.target_index
           v == seat_interaction(w)
           on == {k \in DOMAIN c \cap {1, 2} : c[k] = x}
           at == IF on # {} THEN on
                 ELSE IF x \in icons THEN {1, 2} \ DOMAIN c ELSE {}
           Click(k) == [d EXCEPT !.target = k, !.zoomed = z /\ k = t]
<1>2. /\ c \in Seq(Window) /\ m \in Seq(Window) /\ Sound(w) /\ Arranged(w, c, m)
      /\ Len(c) \in Nat /\ DOMAIN c = 1..Len(c)
      /\ Range(c) \cap Range(m) = {} /\ Range(c) \cup Range(m) = Live(w)
      /\ icons \in SUBSET Window /\ icons = Range(m)
      /\ w.target_index \in {0, 1} /\ t \in Nat /\ z \in BOOLEAN
      /\ w.windows = c \o m
  BY <1>1, CutLists
<1>3. /\ DeckOf(w) = d /\ d \in Decks /\ d.cards = c /\ d.target = t
      /\ d.zoomed = z /\ d.icons = icons
  BY <1>1, <1>2, CutDeck, DeckParts
<1> HIDE DEF d
<1>4. TheDeck!Clicked(d, x) = {Click(k) : k \in at} \cup IF on = {} THEN {d} ELSE {}
  BY <1>3 DEF TheDeck!Clicked, TheDeck!MAIN, TheDeck!DECK
<1>5. /\ done \in WMState /\ done.windows = w.windows /\ done.parent = w.parent
      /\ done.focused = w.focused /\ done.interacted = NULL
      /\ done.pending_float_focus = w.pending_float_focus
      /\ done.floating = w.floating /\ done.minimized = w.minimized
      /\ done.target_index = w.target_index /\ done.maximized = w.maximized
      /\ Left(w, done)
  BY <1>2 DEF Sound, WMState, Pointer, Left
<1>6. /\ x = NULL => v = w
      /\ x # NULL /\ idx \in {0, 1} =>
           v = [done EXCEPT !.focus_dirty = TRUE, !.target_index = idx, !.maximized = b]
      /\ x # NULL /\ idx \notin {0, 1} => v = done
  BY <1>2 DEF seat_interaction, Arranged
<1>7. SameWindows(w, v)
  BY <1>2, SeatInteraction
<1> HIDE DEF idx, b, v
<1>8. CASE x = NULL \/ idx \notin {0, 1}
  <2>1. /\ v.windows = w.windows /\ v.parent = w.parent /\ v.floating = w.floating
        /\ v.minimized = w.minimized /\ v.target_index = w.target_index
        /\ v.maximized = w.maximized /\ Left(w, v)
    <3>1. Left(w, w)
      BY DEF Left
    <3> HIDE DEF done
    <3> QED BY <1>5, <1>6, <1>8, <3>1
  <2>2. Dealt(v) /\ DeckOf(v) = DeckOf(w)
    BY <1>7, <2>1, Unseen DEF SameWindows
  <2>3. on = {}
    <3> SUFFICES ASSUME NEW k \in DOMAIN c \cap {1, 2}, c[k] = x PROVE FALSE
      OBVIOUS
    <3>1. k \in 1..Len(c)
      BY <1>2
    <3>2. idx = k - 1
      BY <1>1, <3>1, CutIndex DEF idx
    <3>3. idx \in {0, 1}
      BY <3>2
    <3>4. x # NULL
      BY <1>2, ElementOfSeq, WindowAssumption DEF WindowAssumption
    <3> QED BY <1>8, <3>3, <3>4
  <2> HIDE DEF on, at
  <2>4. d \in TheDeck!Clicked(d, x)
    BY <1>4, <2>3
  <2> QED BY <1>3, <1>7, <2>1, <2>2, <2>4 DEF v, SameWindows
<1>9. CASE x # NULL /\ idx \in {0, 1}
  <2>1. v = [done EXCEPT !.focus_dirty = TRUE, !.target_index = idx, !.maximized = b]
    BY <1>6, <1>9
  <2>2. b = (z /\ idx = w.target_index) /\ b \in BOOLEAN
    BY <1>2, <1>5 DEF b
  <2>3. /\ v.windows = w.windows /\ v.parent = w.parent /\ v.floating = w.floating
        /\ v.minimized = w.minimized /\ v.target_index = idx /\ v.maximized = b
        /\ Left(w, v)
    <3> HIDE DEF done
    <3> QED BY <1>5, <2>1 DEF WMState, Left
  <2> DEFINE k == idx + 1
  <2>4. k \in at
    <3>1. x \in Live(w)
      BY <1>1, <1>9, CutIndex DEF idx
    <3>2. CASE x \in Range(c)
      <4>1. PICK i \in DOMAIN c : c[i] = x
        BY <3>2 DEF Range
      <4>2. idx = i - 1
        BY <1>1, <1>2, <4>1, CutIndex DEF idx
      <4>3. i \in {1, 2} /\ k = i
        BY <1>2, <1>9, <4>1, <4>2
      <4> QED BY <4>1, <4>3
    <3>3. CASE x \in Range(m)
      <4>1. idx \in Nat /\ idx >= Len(c)
        BY <1>1, <3>3, CutIndex DEF idx
      <4>2. k \in {1, 2} \ DOMAIN c
        BY <1>2, <1>9, <4>1
      <4>3. on = {}
        BY <1>2, <3>3 DEF Range
      <4> QED BY <1>2, <3>3, <4>2, <4>3
    <3> QED BY <1>2, <3>1, <3>2, <3>3
  <2>5. Sound(v) /\ v.target_index \in {0, 1}
    BY <1>7, <1>9, <2>3 DEF SameWindows
  <2>6. Dealt(v) /\ DeckOf(v) = Dk(c, icons, k, b)
    <3>1. \A y \in Window : v.parent[y] = NULL
      BY <1>2, <2>3 DEF Arranged
    <3>2. v.floating = {} /\ v.minimized = Range(m) /\ v.windows = c \o m
      BY <1>2, <2>3 DEF Arranged
    <3>3. Dealt(v) /\ DeckOf(v) = Dk(c, v.minimized, v.target_index + 1, v.maximized)
      BY <1>2, <2>5, <3>1, <3>2, Resplit
    <3> QED BY <2>3, <3>3
  <2>7. Click(k) = Dk(c, icons, k, b)
    <3>1. (z /\ k = t) = b /\ k \in Nat
      BY <1>2, <1>9, <2>2
    <3> HIDE DEF k, t, z, icons
    <3>2. Click(k) = [d EXCEPT !.target = k, !.zoomed = b]
      BY <3>1
    <3> HIDE DEF Click
    <3>3. [d EXCEPT !.target = k, !.zoomed = b] = Dk(c, icons, k, b)
      BY <1>3, <2>2, <3>1, PutAim
    <3> QED BY <3>2, <3>3
  <2> HIDE DEF k, at, on, Click
  <2>8. Click(k) \in TheDeck!Clicked(d, x)
    BY <1>4, <2>4
  <2> QED BY <1>3, <1>7, <2>3, <2>6, <2>7, <2>8 DEF v, SameWindows
<1> QED BY <1>8, <1>9

-----------------------------------------------------------------------------
(* Windows that come, go, become icons or cards.                           *)

\* A window comes to MAIN from outside the cards: the cards are x and then c.
Topped(c, x) == <<x>> \o c
Risen(c, icons, x) == Dk(Topped(c, x), icons \ {x}, 1, FALSE)

LEMMA FreshFront ==
  ASSUME NEW c, NEW icons, NEW t, NEW z, NEW x, Dk(c, icons, t, z) \in Decks,
         x \in Window, x \notin Range(c)
  PROVE  TheDeck!ToMain(Dk(c, icons, t, z), x) = Risen(c, icons, x)
<1>0. c \in Seq(Window) /\ icons \in SUBSET Window /\ t \in Nat /\ z \in BOOLEAN
  BY DEF Dk, Decks
<1>1. TheDeck!ToMain(Dk(c, icons, t, z), x) = Dk(Fronted(c, x), icons \ {x}, 1, FALSE)
  BY <1>0, DeckMoves
<1>2. Without(c, x) = c
  <2> DEFINE D == {x}
  <2>1. Range(c) \cap D = {}
    OBVIOUS
  <2>2. Without(c, x) = Drop(c, D)
    BY WithoutIsDrop
  <2> HIDE DEF D
  <2> QED BY <1>0, <2>1, <2>2, DropNone
<1> QED BY <1>1, <1>2 DEF Fronted, Topped, Risen

LEMMA ConsConcat ==
  ASSUME NEW c \in Seq(Window), NEW m \in Seq(Window), NEW x \in Window
  PROVE  <<x>> \o (c \o m) = (<<x>> \o c) \o m
<1>1. <<x>> \in Seq(Window)
  OBVIOUS
<1> QED BY <1>1, ConcatAssociative

LEMMA Activates ==
  ASSUME NEW w, Dealt(w), NEW x \in Live(w)
  PROVE  LET v == activate_window_from_taskbar(w, x) IN
         /\ Dealt(v)
         /\ DeckOf(v) = TheDeck!Activated(DeckOf(w), x)
<1>1. PICK c, m \in Seq(Window) : Cut(w, c, m)
  BY DEF Dealt
<1> DEFINE idx == window_index(w, x)
           icons == w.minimized
           t == w.target_index + 1
           z == w.maximized
           d == Dk(c, icons, t, z)
           v == activate_window_from_taskbar(w, x)
           on == {k \in DOMAIN c \cap {1, 2} : c[k] = x}
           u == Aim(move_first(w, x), 0)
<1>2. /\ c \in Seq(Window) /\ m \in Seq(Window) /\ Sound(w) /\ Arranged(w, c, m)
      /\ Len(c) \in Nat /\ DOMAIN c = 1..Len(c) /\ IsInjective(c) /\ IsInjective(m)
      /\ Range(c) \cap Range(m) = {} /\ Range(c) \cup Range(m) = Live(w)
      /\ icons \in SUBSET Window /\ icons = Range(m)
      /\ w.target_index \in {0, 1} /\ t \in Nat /\ z \in BOOLEAN
      /\ w.windows = c \o m
  BY <1>1, CutLists
<1>3. DeckOf(w) = d /\ d.cards = c /\ d.icons = icons /\ x \in Window
  BY <1>1, <1>2, CutDeck, DeckParts, LiveWindows
<1> HIDE DEF d
<1>4. TheDeck!Activated(d, x)
        = IF on # {} THEN TheDeck!Aimed(d, CHOOSE k \in on : TRUE)
          ELSE IF x \in icons \cup Range(c) THEN TheDeck!ToMain(d, x) ELSE d
  BY <1>3, DeckLists DEF TheDeck!Activated, TheDeck!MAIN, TheDeck!DECK
<1>5. SameWindows(w, u) /\ Aimed(w, u) /\ u.target_index = 0 /\ u.maximized = FALSE
      /\ u.windows = <<x>> \o Without(w.windows, x)
  <2> DEFINE f == move_first(w, x)
             l == <<x>> \o Without(w.windows, x)
             n == 0
  <2>0. n \in Nat
    OBVIOUS
  <2>1. SameWindows(w, f) /\ Aimed(w, f)
    BY <1>2, MoveFirst, AimedMoves
  <2>2. f.windows = l
    <3>1. f = [w EXCEPT !.windows = l]
      BY DEF move_first
    <3> HIDE DEF l
    <3> QED BY <1>2, <3>1 DEF Sound, WMState
  <2> HIDE DEF f, n
  <2>3. Sound(f)
    BY <2>1 DEF SameWindows
  <2>4. Aim(f, n).windows = f.windows /\ Aim(f, n).target_index = n /\ Aim(f, n).maximized = FALSE
    BY <2>0, <2>3, AimFields
  <2>5. SameWindows(w, Aim(f, n)) /\ Aimed(w, Aim(f, n))
    BY <2>0, <2>1, <2>3, AimSame, AimedAim
  <2> QED BY <2>2, <2>4, <2>5 DEF f, n
<1>6. CASE x \in Range(m)
  <2> DEFINE rest == Without(m, x)
             front == Topped(c, x)
             some == icons \ {x}
             a == [u EXCEPT !.minimized = @ \ {x}]
  <2>1. /\ idx \in Nat /\ idx >= Len(c) /\ x \notin Range(c) /\ x \in icons
    BY <1>1, <1>2, <1>6, CutIndex
  <2>2. v = a
    <3>1. ~(idx < 0) /\ x \notin w.floating
      BY <1>2, <2>1 DEF Arranged
    <3> QED BY <2>1, <3>1 DEF activate_window_from_taskbar
  <2>3. rest \in Seq(Window) /\ Range(rest) = Range(m) \ {x}
    BY <1>2, WithoutProperties
  <2>4. u.windows = front \o rest
    <3>1. Without(w.windows, x) = c \o rest
      BY <1>1, <1>3, <1>6, Removed
    <3>2. <<x>> \o (c \o rest) = front \o rest
      <4> HIDE DEF rest
      <4> QED BY <1>2, <1>3, <2>3, ConsConcat DEF Topped
    <3> HIDE DEF u, front, rest
    <3> QED BY <1>5, <3>1, <3>2
  <2>5. TheDeck!ToMain(Dk(c, icons, t, z), x) = Dk(front, some, 1, FALSE) /\ front \in Seq(Window)
    <3> HIDE DEF t, z, icons
    <3>1. /\ c \in Seq(Window) /\ icons \in SUBSET Window /\ t \in Nat /\ z \in BOOLEAN
          /\ x \in Window /\ x \notin Range(c)
      BY <1>2, <1>3, <2>1
    <3>2. TheDeck!ToMain(Dk(c, icons, t, z), x) = Risen(c, icons, x)
      <4>1. Dk(c, icons, t, z) \in Decks
        BY <3>1, DeckParts
      <4> QED BY <3>1, <4>1, FreshFront
    <3>3. Topped(c, x) \in Seq(Window)
      BY <3>1, ConsProperties DEF Topped
    <3> QED BY <3>2, <3>3 DEF Risen
  <2> HIDE DEF u, front, rest, idx
  <2>6. /\ a \in WMState /\ a.windows = u.windows /\ a.parent = u.parent /\ a.focused = u.focused
        /\ a.interacted = u.interacted /\ a.pending_float_focus = u.pending_float_focus
        /\ a.floating = u.floating /\ a.minimized = u.minimized \ {x}
        /\ a.target_index = u.target_index /\ a.maximized = u.maximized
    BY <1>5 DEF SameWindows, Sound, WMState
  <2> HIDE DEF a
  <2>7. Sound(a)
    BY <1>5, <2>6, SamePointers DEF SameWindows
  <2>8. /\ \A y \in Window : a.parent[y] = NULL
        /\ a.floating = {} /\ a.minimized = some /\ some = Range(rest)
        /\ a.windows = front \o rest /\ a.target_index = 0 /\ a.maximized = FALSE
        /\ a.target_index + 1 = 1
    BY <1>2, <1>5, <2>3, <2>4, <2>6 DEF Arranged, Aimed
  <2>9. Dealt(a) /\ DeckOf(a) = Dk(front, some, 1, FALSE)
    <3>1. Dealt(a) /\ DeckOf(a) = Dk(front, a.minimized, a.target_index + 1, a.maximized)
      BY <2>3, <2>5, <2>7, <2>8, Resplit
    <3> QED BY <2>8, <3>1
  <2>10. TheDeck!Activated(d, x) = TheDeck!ToMain(d, x)
    <3>1. on = {}
      BY <1>2, <2>1 DEF Range
    <3> HIDE DEF on
    <3> QED BY <1>4, <2>1, <3>1
  <2> HIDE DEF v
  <2> QED BY <1>3, <2>2, <2>5, <2>9, <2>10 DEF d, v
<1>7. CASE x \in Range(c)
  <2>1. PICK i \in DOMAIN c : c[i] = x
    BY <1>7 DEF Range
  <2>2. idx = i - 1 /\ i \in Nat /\ i >= 1
    BY <1>1, <1>2, <2>1, CutIndex
  <2>3. x \notin w.minimized /\ x \notin w.floating /\ ~(idx < 0)
    BY <1>2, <1>7, <2>2 DEF Arranged
  <2>4. v = IF idx <= 1 THEN Aim(w, idx) ELSE u
    BY <2>3 DEF activate_window_from_taskbar
  <2>5. on = IF i <= 2 THEN {i} ELSE {}
    <3>1. \A k \in DOMAIN c : c[k] = x => k = i
      BY <1>2, <2>1 DEF IsInjective
    <3>2. i <= 2 <=> i \in {1, 2}
      BY <2>2
    <3> QED BY <2>1, <3>1, <3>2
  <2> HIDE DEF on, v, idx, u
  <2>6. CASE i <= 2
    <3>1. idx \in {0, 1} /\ idx <= 1 /\ idx + 1 = i
      BY <2>2, <2>6
    <3>2. Plays(w, Aim(w, idx), TheDeck!Aimed(DeckOf(w), idx + 1))
      BY <3>1, Aims
    <3>3. (CHOOSE k \in on : TRUE) = i /\ on # {}
      BY <2>5, <2>6
    <3>4. TheDeck!Activated(d, x) = TheDeck!Aimed(d, i)
      BY <1>4, <3>3
    <3> QED BY <1>3, <2>4, <3>1, <3>2, <3>4 DEF Plays, v
  <2>7. CASE ~(i <= 2)
    <3>1. ~(idx <= 1)
      BY <2>2, <2>7
    <3>2. Plays(w, u, TheDeck!ToMain(DeckOf(w), x))
      BY <1>1, <1>7, Fronts DEF u
    <3>3. TheDeck!Activated(d, x) = TheDeck!ToMain(d, x)
      BY <1>4, <1>7, <2>5, <2>7
    <3> QED BY <1>3, <2>4, <3>1, <3>2, <3>3 DEF Plays, v
  <2> QED BY <2>6, <2>7
<1> QED BY <1>2, <1>6, <1>7

LEMMA TakesActivation ==
  ASSUME NEW w, Dealt(w), w.closed = {}
  PROVE  LET v == apply_pending_taskbar_activation(w) IN
         /\ Dealt(v)
         /\ DeckOf(v) = TheDeck!Activated(DeckOf(w), w.pending_activate)
<1> DEFINE x == w.pending_activate
           taken == [w EXCEPT !.pending_activate = NULL]
           d == DeckOf(w)
<1>1. Sound(w)
  BY DEF Dealt, Cut
<1>2. /\ taken \in WMState /\ taken.windows = w.windows /\ taken.parent = w.parent
      /\ taken.focused = w.focused /\ taken.interacted = w.interacted
      /\ taken.pending_float_focus = w.pending_float_focus
      /\ taken.floating = w.floating /\ taken.minimized = w.minimized
      /\ taken.target_index = w.target_index /\ taken.maximized = w.maximized
  BY <1>1 DEF Sound, WMState, Pointer
<1>3. apply_pending_taskbar_activation(w)
        = IF x \in Live(w) THEN activate_window_from_taskbar(taken, x) ELSE taken
  BY DEF apply_pending_taskbar_activation
<1> HIDE DEF taken, x
<1>4. Sound(taken) /\ Live(taken) = Live(w)
  BY <1>1, <1>2, SamePointers DEF SameWindows
<1>5. Dealt(taken) /\ DeckOf(taken) = d
  BY <1>2, <1>4, Unseen
<1>6. CASE x \in Live(w)
  BY <1>3, <1>4, <1>5, <1>6, Activates DEF x
<1>7. CASE x \notin Live(w)
  <2>1. PICK c, m \in Seq(Window) : Cut(w, c, m)
    BY DEF Dealt
  <2>2. /\ c \in Seq(Window) /\ w.minimized = Range(m) /\ w.minimized \in SUBSET Window
        /\ Range(c) \cup Range(m) = Live(w)
        /\ w.target_index \in {0, 1} /\ w.maximized \in BOOLEAN
    BY <2>1, CutLists
  <2>3. d.cards = c /\ d.icons = w.minimized
    <3>1. w.target_index + 1 \in Nat
      BY <2>2
    <3> QED BY <2>1, <2>2, <3>1, CutDeck, DeckParts
  <2>4. x \notin d.icons \cup Range(d.cards)
    BY <1>7, <2>2, <2>3
  <2>5. {k \in DOMAIN d.cards \cap {1, 2} : d.cards[k] = x} = {}
    BY <2>4 DEF Range
  <2> HIDE DEF d
  <2>6. TheDeck!Activated(d, x) = d
    BY <2>4, <2>5, DeckLists DEF TheDeck!Activated, TheDeck!MAIN, TheDeck!DECK
  <2> QED BY <1>3, <1>5, <1>7, <2>6 DEF x, d
<1> QED BY <1>6, <1>7

LEMMA Destroys ==
  ASSUME NEW w, Dealt(w), NEW D
  PROVE  LET v == window_destroy_closed(w, D) IN
         /\ Dealt(v)
         /\ DeckOf(v) = TheDeck!Gone(DeckOf(w), D)
         /\ v.closed = w.closed \ D
         /\ v.pending_action = w.pending_action /\ v.pending_activate = w.pending_activate
         /\ v.interacted = IF w.interacted \in D THEN NULL ELSE w.interacted
<1>1. PICK c, m \in Seq(Window) : Cut(w, c, m)
  BY DEF Dealt
<1> DEFINE v == window_destroy_closed(w, D)
           Nulled(p) == IF p \in D THEN NULL ELSE p
           list == Drop(w.windows, D)
           parent == [x \in Window |-> IF x \in D THEN NULL ELSE Nulled(w.parent[x])]
           size == [x \in Window |-> IF x \in D THEN 0 ELSE w.size[x]]
           tile == [x \in Window |-> IF x \in D THEN "none" ELSE w.tile[x]]
           title == [x \in Window |-> IF x \in D THEN "none" ELSE w.title[x]]
           implicit == {x \in w.implicit_parent \ D : w.parent[x] \notin D}
           pf == Nulled(w.pending_float_focus)
           fo == Nulled(w.focused)
           ia == Nulled(w.interacted)
           hidden == w.bar_fullscreen /\ D \cap w.fullscreen = {}
           icons == w.minimized
           t == w.target_index + 1
           z == w.maximized
           c1 == Drop(c, D)
           m1 == Drop(m, D)
<1>2. /\ c \in Seq(Window) /\ m \in Seq(Window) /\ Sound(w) /\ Arranged(w, c, m)
      /\ icons \in SUBSET Window /\ icons = Range(m)
      /\ w.target_index \in {0, 1} /\ t \in Nat /\ z \in BOOLEAN
      /\ w.windows = c \o m
  BY <1>1, CutLists
<1>3. DeckOf(w) = Dk(c, icons, t, z)
  BY <1>1, CutDeck
<1>4. v = [w EXCEPT !.windows = list, !.parent = parent,
                    !.implicit_parent = implicit, !.named = @ \ D, !.title = title,
                    !.floating = @ \ D, !.autofloat = @ \ D, !.minimized = @ \ D,
                    !.fullscreen = @ \ D, !.closed = @ \ D,
                    !.size = size, !.tile = tile,
                    !.pending_float_focus = pf, !.focused = fo, !.interacted = ia,
                    !.bar_fullscreen = hidden]
  BY DEF window_destroy_closed
<1>5. \A x \in Window : parent[x] = NULL
  BY <1>2 DEF Arranged
<1>6. list = c1 \o m1
  <2>1. Drop(c \o m, D) = c1 \o m1
    <3> QED BY <1>2, DropConcat
  <2> HIDE DEF c1, m1
  <2> QED BY <1>2, <2>1
<1>7. c1 \in Seq(Window) /\ m1 \in Seq(Window) /\ Range(m1) = Range(m) \ D
  BY <1>2, DropProperties
<1>8. TheDeck!Gone(Dk(c, icons, t, z), D) = Dk(c1, icons \ D, t, z)
  <2> HIDE DEF t, z, icons
  <2> QED BY <1>2, DeckGone
<1>9. Sound(v)
  BY <1>2, DestroyClosed
<1> HIDE DEF list, parent, size, tile, title, implicit, v, pf, fo, ia, hidden, c1, m1
<1>10. /\ v.windows = list /\ v.parent = parent /\ v.floating = w.floating \ D
       /\ v.minimized = w.minimized \ D /\ v.closed = w.closed \ D
       /\ v.target_index = w.target_index /\ v.maximized = w.maximized
       /\ v.pending_action = w.pending_action /\ v.pending_activate = w.pending_activate
       /\ v.interacted = ia
  BY <1>2, <1>4 DEF Sound, WMState
<1>11. /\ \A x \in Window : v.parent[x] = NULL
       /\ v.floating = {} /\ v.minimized = Range(m1) /\ v.windows = c1 \o m1
       /\ v.target_index \in {0, 1}
  BY <1>2, <1>5, <1>6, <1>7, <1>10 DEF Arranged
<1>12. Dealt(v) /\ DeckOf(v) = Dk(c1, v.minimized, v.target_index + 1, v.maximized)
  BY <1>7, <1>9, <1>11, Resplit
<1>13. DeckOf(v) = TheDeck!Gone(DeckOf(w), D)
  BY <1>3, <1>8, <1>10, <1>12
<1> QED BY <1>10, <1>12, <1>13 DEF v, ia

LEMMA Inserts ==
  ASSUME NEW w, Dealt(w), NEW x \in Window, x \notin Live(w)
  PROVE  LET v == md_insert_new_window(w, x) IN
         /\ Sound(v) /\ Dealt(v) /\ Left(w, v) /\ v.interacted = w.interacted
         /\ DeckOf(v) = TheDeck!ToMain(DeckOf(w), x)
<1>1. PICK c, m \in Seq(Window) : Cut(w, c, m)
  BY DEF Dealt
<1> DEFINE icons == w.minimized
           t == w.target_index + 1
           z == w.maximized
           rest == Without(w.windows, x)
           r == [w EXCEPT !.windows = rest]
           front == Topped(c, x)
           l == IF window_count(r) = 0 THEN Append(rest, x) ELSE <<x>> \o rest
           v == [Aim(w, 0) EXCEPT !.windows = l, !.focus_dirty = TRUE]
<1>2. /\ c \in Seq(Window) /\ m \in Seq(Window) /\ Sound(w) /\ Arranged(w, c, m)
      /\ icons \in SUBSET Window /\ icons = Range(m)
      /\ Range(c) \cup Range(m) = Live(w)
      /\ w.target_index \in {0, 1} /\ t \in Nat /\ z \in BOOLEAN
      /\ w.windows = c \o m /\ Len(c) \in Nat
  BY <1>1, CutLists
<1>3. DeckOf(w) = Dk(c, icons, t, z)
  BY <1>1, CutDeck
<1>4. v = md_insert_new_window(w, x)
  BY DEF md_insert_new_window
<1>5. rest = w.windows
  BY <1>1, Removed
<1>6. window_count(r) = Len(c) + Len(m) /\ Len(m) \in Nat
  <2> HIDE DEF rest
  <2>1. r.windows = rest /\ r.parent = w.parent /\ r.floating = w.floating
    BY <1>2 DEF Sound, WMState
  <2> HIDE DEF r
  <2>2. Cards(r) = Cards(w)
    BY <1>5, <2>1 DEF Cards, IsCard
  <2>3. window_count(w) = Len(c) + Len(m)
    BY <1>2, ArrangedShown
  <2> QED BY <1>2, <2>2, <2>3, LenProperties DEF window_count
<1>7. l = <<x>> \o rest
  <2>1. rest \in Seq(Window)
    BY <1>2, WithoutProperties DEF Sound, WMState
  <2>2. ASSUME window_count(r) = 0 PROVE Append(rest, x) = <<x>> \o rest
    <3>1. Len(rest) = 0
      <4>1. Len(c \o m) = Len(c) + Len(m)
        BY <1>2, ConcatProperties
      <4> HIDE DEF rest, r
      <4> QED BY <1>2, <1>5, <1>6, <2>2, <4>1
    <3>2. rest = <<>>
      BY <2>1, <3>1, EmptySeq
    <3> HIDE DEF rest
    <3>3. Append(<<>>, x) = <<x>>
      OBVIOUS
    <3>4. <<x>> \in Seq(Window)
      OBVIOUS
    <3>5. <<x>> \o <<>> = <<x>>
      BY <3>4, ConcatEmptySeq
    <3> QED BY <3>2, <3>3, <3>5
  <2> HIDE DEF rest, r
  <2> QED BY <2>2
<1>8. l = front \o m
  <2>1. <<x>> \o (c \o m) = (<<x>> \o c) \o m
    BY <1>2, ConsConcat
  <2> HIDE DEF l, rest
  <2> QED BY <1>2, <1>5, <1>7, <2>1 DEF Topped
<1>9. Sound(v)
  BY <1>2, <1>4, InsertNewWindow
<1>10. front \in Seq(Window)
  BY <1>2, ConsProperties DEF Topped
<1>11. TheDeck!ToMain(Dk(c, icons, t, z), x) = Risen(c, icons, x)
  <2>1. Dk(c, icons, t, z) \in Decks
    <3> HIDE DEF t, z, icons
    <3> QED BY <1>2, DeckParts
  <2>2. x \notin Range(c)
    BY <1>2
  <2> HIDE DEF t, z, icons
  <2> QED BY <2>1, <2>2, FreshFront
<1> HIDE DEF l
<1> DEFINE a == Aim(w, 0)
<1>12. /\ a \in WMState /\ a.target_index = 0 /\ a.maximized = FALSE
       /\ a.parent = w.parent /\ a.floating = w.floating /\ a.minimized = w.minimized
       /\ a.closed = w.closed /\ a.interacted = w.interacted
       /\ a.pending_action = w.pending_action /\ a.pending_activate = w.pending_activate
  BY <1>2 DEF Aim, Sound, WMState
<1> HIDE DEF a
<1>13. /\ v.windows = l /\ v.target_index = 0 /\ v.maximized = FALSE
       /\ v.parent = w.parent /\ v.floating = w.floating /\ v.minimized = w.minimized
       /\ v.closed = w.closed /\ v.interacted = w.interacted
       /\ v.pending_action = w.pending_action /\ v.pending_activate = w.pending_activate
  <2>1. v = [a EXCEPT !.windows = l, !.focus_dirty = TRUE]
    BY DEF a
  <2> HIDE DEF v
  <2> QED BY <1>12, <2>1 DEF WMState
<1> HIDE DEF v, front
<1>14. /\ \A y \in Window : v.parent[y] = NULL
       /\ v.floating = {} /\ v.minimized = Range(m) /\ v.windows = front \o m
       /\ v.target_index \in {0, 1} /\ v.target_index + 1 = 1
  BY <1>2, <1>8, <1>13 DEF Arranged
<1>15. Dealt(v) /\ DeckOf(v) = Dk(front, v.minimized, v.target_index + 1, v.maximized)
  BY <1>2, <1>9, <1>10, <1>14, Resplit
<1>16. icons \ {x} = icons
  BY <1>2
<1>17. Risen(c, icons, x) = DeckOf(v)
  BY <1>13, <1>14, <1>15, <1>16 DEF Risen, front
<1> QED BY <1>3, <1>4, <1>9, <1>11, <1>13, <1>15, <1>17 DEF Left

Lowered(c, icons, x) == Dk(Without(c, x), icons \cup {x}, 1, FALSE)

LEMMA DeckLowered ==
  ASSUME NEW c, NEW icons, NEW t, NEW z, NEW x \in Window, Dk(c, icons, t, z) \in Decks
  PROVE  TheDeck!ToIcon(Dk(c, icons, t, z), x) = Lowered(c, icons, x)
<1>0. c \in Seq(Window) /\ icons \in SUBSET Window /\ t \in Nat /\ z \in BOOLEAN
  BY DEF Dk, Decks
<1> QED BY <1>0, DeckMoves DEF Lowered

LEMMA Minimizes ==
  ASSUME NEW w, Dealt(w), NEW x \in Live(w) \ w.minimized, NEW b
  PROVE  LET v == [Aim(move_last(w, x), 0) EXCEPT !.minimized = @ \cup {x},
                                                  !.fullscreen = @ \ {x},
                                                  !.bar_fullscreen = b] IN
         b \in BOOLEAN =>
         /\ Sound(v) /\ Dealt(v) /\ Left(w, v) /\ v.interacted = w.interacted
         /\ DeckOf(v) = TheDeck!ToIcon(DeckOf(w), x)
         /\ x \in Range(Shown(w))
<1>1. PICK c, m \in Seq(Window) : Cut(w, c, m)
  BY DEF Dealt
<1> DEFINE icons == w.minimized
           t == w.target_index + 1
           z == w.maximized
           f == move_last(w, x)
           l == Append(Without(w.windows, x), x)
           a == Aim(f, 0)
           v == [a EXCEPT !.minimized = @ \cup {x}, !.fullscreen = @ \ {x}, !.bar_fullscreen = b]
           c1 == Without(c, x)
           m1 == Append(m, x)
<1>2. /\ c \in Seq(Window) /\ m \in Seq(Window) /\ Sound(w) /\ Arranged(w, c, m)
      /\ icons \in SUBSET Window /\ icons = Range(m)
      /\ Range(c) \cup Range(m) = Live(w)
      /\ w.target_index \in {0, 1} /\ t \in Nat /\ z \in BOOLEAN
      /\ w.windows = c \o m
  BY <1>1, CutLists
<1> SUFFICES ASSUME b \in BOOLEAN
             PROVE  /\ Sound(v) /\ Dealt(v) /\ Left(w, v) /\ v.interacted = w.interacted
                    /\ DeckOf(v) = TheDeck!ToIcon(DeckOf(w), x)
                    /\ x \in Range(Shown(w))
  OBVIOUS
<1>3. DeckOf(w) = Dk(c, icons, t, z)
  BY <1>1, CutDeck
<1>4. x \in Range(c) /\ x \in Window /\ Shown(w) = c
  BY <1>2, LiveWindows, ArrangedShown
<1>5. c1 \in Seq(Window) /\ m1 \in Seq(Window) /\ Range(m1) = icons \cup {x}
  BY <1>2, <1>4, WithoutProperties, AppendList
<1>6. l = c1 \o m1
  <2>1. Without(w.windows, x) = c1 \o m
    BY <1>1, <1>4, RemovedCard
  <2> DEFINE one == <<x>>
  <2>2. one \in Seq(Window)
    BY <1>4
  <2>3. c1 \o m \in Seq(Window)
    BY <1>2, <1>5, ConcatProperties
  <2>4. Append(c1 \o m, x) = (c1 \o m) \o one /\ m1 = m \o one
    <3> HIDE DEF c1
    <3> QED BY <1>2, <1>4, <2>3, AppendIsConcat
  <2>5. (c1 \o m) \o one = c1 \o (m \o one)
    <3> HIDE DEF c1, one, m1
    <3> QED BY <1>2, <1>5, <2>2, ConcatAssociative
  <2> HIDE DEF c1, m1, one
  <2> QED BY <2>1, <2>4, <2>5
<1>7. Sound(f) /\ Aimed(w, f) /\ f.windows = l
  <2>1. SameWindows(w, f) /\ Aimed(w, f)
    BY <1>2, MoveLast, AimedMoves
  <2>2. f = [w EXCEPT !.windows = l]
    BY DEF move_last
  <2> HIDE DEF f, l
  <2> QED BY <1>2, <2>1, <2>2 DEF SameWindows, Sound, WMState
<1> HIDE DEF f, l, c1, m1
<1>8. /\ Sound(a) /\ Aimed(w, a) /\ a.windows = l /\ a.target_index = 0 /\ a.maximized = FALSE
  <2> DEFINE n == 0
  <2>1. n \in Nat
    OBVIOUS
  <2> HIDE DEF n
  <2>2. Aim(f, n).windows = f.windows /\ Aim(f, n).target_index = n /\ Aim(f, n).maximized = FALSE
    BY <1>7, <2>1, AimFields
  <2>3. SameWindows(f, Aim(f, n)) /\ Aimed(w, Aim(f, n))
    BY <1>7, <2>1, Targeted, AimedAim
  <2> QED BY <1>7, <2>2, <2>3 DEF SameWindows, n
<1> HIDE DEF a
<1>9. /\ v \in WMState /\ v.windows = a.windows /\ v.parent = a.parent /\ v.focused = a.focused
      /\ v.interacted = a.interacted /\ v.pending_float_focus = a.pending_float_focus
      /\ v.floating = a.floating /\ v.minimized = a.minimized \cup {x}
      /\ v.target_index = a.target_index /\ v.maximized = a.maximized /\ v.closed = a.closed
      /\ v.pending_action = a.pending_action /\ v.pending_activate = a.pending_activate
  BY <1>4, <1>8 DEF Sound, WMState
<1> HIDE DEF v
<1>10. Sound(v)
  BY <1>8, <1>9, SamePointers DEF SameWindows
<1>11. /\ \A y \in Window : v.parent[y] = NULL
       /\ v.floating = {} /\ v.minimized = Range(m1) /\ v.windows = c1 \o m1
       /\ v.target_index \in {0, 1} /\ v.target_index + 1 = 1
       /\ v.minimized = icons \cup {x} /\ v.maximized = FALSE
  BY <1>2, <1>5, <1>6, <1>8, <1>9 DEF Arranged, Aimed
<1>12. Dealt(v) /\ DeckOf(v) = Dk(c1, v.minimized, v.target_index + 1, v.maximized)
  BY <1>5, <1>10, <1>11, Resplit
<1>13. DeckOf(v) = Lowered(c, icons, x)
  BY <1>11, <1>12 DEF Lowered, c1
<1>14. TheDeck!ToIcon(Dk(c, icons, t, z), x) = Lowered(c, icons, x)
  <2>1. Dk(c, icons, t, z) \in Decks
    <3> HIDE DEF t, z, icons
    <3> QED BY <1>2, DeckParts
  <2> HIDE DEF t, z, icons
  <2> QED BY <1>4, <2>1, DeckLowered
<1>15. Left(w, v) /\ v.interacted = w.interacted
  BY <1>8, <1>9 DEF Left, Aimed
<1> QED BY <1>3, <1>4, <1>10, <1>12, <1>13, <1>14, <1>15 DEF v, a, f

\* x is the target of the deck e.
OnTop(e, x) ==
  /\ e \in Decks
  /\ e.target \in DOMAIN e.cards /\ e.cards[e.target] = x /\ x \notin e.icons

LEMMA FrontOnTop ==
  ASSUME NEW c \in Seq(Window), NEW icons \in SUBSET Window, NEW x \in Window, x \notin icons
  PROVE  OnTop(Dk(Fronted(c, x), icons, 1, FALSE), x)
<1> DEFINE front == Fronted(c, x)
           rest == Without(c, x)
           t == 1
           z == FALSE
<1>1. rest \in Seq(Window)
  BY WithoutProperties
<1> HIDE DEF rest
<1>2. /\ <<x>> \o rest \in Seq(Window) /\ 1 \in DOMAIN (<<x>> \o rest)
      /\ (<<x>> \o rest)[1] = x
  <2> DEFINE one == <<x>>
  <2>1. one \in Seq(Window) /\ Len(one) = 1 /\ one[1] = x
    OBVIOUS
  <2> HIDE DEF one
  <2>2. /\ one \o rest \in Seq(Window) /\ Len(one \o rest) = Len(one) + Len(rest)
        /\ \A i \in 1..Len(one) + Len(rest) :
             (one \o rest)[i] = IF i <= Len(one) THEN one[i] ELSE rest[i - Len(one)]
        /\ Len(rest) \in Nat
    BY <1>1, <2>1, ConcatProperties, LenProperties
  <2>3. DOMAIN (one \o rest) = 1..Len(one) + Len(rest)
    BY <2>2, LenProperties
  <2>4. 1 \in 1..Len(one) + Len(rest) /\ 1 <= Len(one)
    BY <2>1, <2>2
  <2> QED BY <2>1, <2>2, <2>3, <2>4 DEF one
<1>3. front \in Seq(Window) /\ t \in DOMAIN front /\ front[t] = x /\ t \in Nat /\ z \in BOOLEAN
  BY <1>2 DEF Fronted, rest
<1> HIDE DEF front, t, z
<1>4. /\ Dk(front, icons, t, z) \in Decks
      /\ Dk(front, icons, t, z).cards = front /\ Dk(front, icons, t, z).icons = icons
      /\ Dk(front, icons, t, z).target = t
  BY <1>3, DeckParts
<1>5. OnTop(Dk(front, icons, t, z), x)
  BY <1>3, <1>4 DEF OnTop
<1> QED BY <1>5 DEF front, t, z

LEMMA ActivatedOnTop ==
  ASSUME NEW w, Dealt(w), NEW x \in Live(w)
  PROVE  OnTop(TheDeck!Activated(DeckOf(w), x), x)
<1>1. PICK c, m \in Seq(Window) : Cut(w, c, m)
  BY DEF Dealt
<1> DEFINE icons == w.minimized
           t == w.target_index + 1
           z == w.maximized
           d == Dk(c, icons, t, z)
           on == {k \in DOMAIN c \cap {1, 2} : c[k] = x}
           k1 == CHOOSE k \in on : TRUE
           y == FALSE
<1>2. /\ c \in Seq(Window) /\ Sound(w)
      /\ Range(c) \cup Range(m) = Live(w) /\ Range(c) \cap Range(m) = {} /\ icons = Range(m)
      /\ icons \in SUBSET Window /\ w.target_index \in {0, 1} /\ t \in Nat /\ z \in BOOLEAN
  BY <1>1, CutLists
<1>3. DeckOf(w) = d /\ d.cards = c /\ d.icons = icons
  BY <1>1, <1>2, CutDeck, DeckParts
<1>4. x \in Window
  BY <1>2, LiveWindows
<1>5. CASE on # {}
  <2>1. k1 \in on
    BY <1>5
  <2>2. k1 \in DOMAIN c /\ c[k1] = x /\ k1 \in Nat /\ y \in BOOLEAN
    BY <2>1
  <2>3. x \notin icons
    BY <1>2, <2>2 DEF Range
  <2>4. TheDeck!Activated(d, x) = TheDeck!Aimed(d, k1)
    BY <1>3, <1>5 DEF TheDeck!Activated, TheDeck!MAIN, TheDeck!DECK
  <2>5. TheDeck!Aimed(d, k1) = Dk(c, icons, k1, y)
    <3>1. TheDeck!Aimed(Dk(c, icons, t, z), k1) = Dk(c, icons, k1, FALSE)
      <4>1. c \in Seq(Window) /\ icons \in SUBSET Window /\ t \in Nat /\ z \in BOOLEAN /\ k1 \in Nat
        BY <1>2, <2>2
      <4> HIDE DEF k1, t, z, icons, on, y
      <4> QED BY <4>1, DeckAimed
    <3> QED BY <3>1
  <2> HIDE DEF k1, y
  <2>6. /\ Dk(c, icons, k1, y) \in Decks /\ Dk(c, icons, k1, y).cards = c
        /\ Dk(c, icons, k1, y).icons = icons /\ Dk(c, icons, k1, y).target = k1
    BY <1>2, <2>2, DeckParts
  <2>7. OnTop(Dk(c, icons, k1, y), x)
    BY <2>2, <2>3, <2>6 DEF OnTop
  <2> QED BY <1>3, <2>4, <2>5, <2>7
<1>6. CASE on = {}
  <2> DEFINE some == icons \ {x}
  <2>1. TheDeck!Activated(d, x) = TheDeck!ToMain(d, x)
    <3>1. x \in d.icons \cup Range(d.cards)
      BY <1>2, <1>3
    <3> QED BY <1>3, <1>6, <3>1, DeckLists DEF TheDeck!Activated, TheDeck!MAIN, TheDeck!DECK
  <2>2. TheDeck!ToMain(d, x) = Dk(Fronted(c, x), some, 1, FALSE)
    <3>1. TheDeck!ToMain(Dk(c, icons, t, z), x) = Dk(Fronted(c, x), icons \ {x}, 1, FALSE)
      <4>1. c \in Seq(Window) /\ icons \in SUBSET Window /\ t \in Nat /\ z \in BOOLEAN
        BY <1>2
      <4> HIDE DEF t, z, icons, on, some
      <4> QED BY <1>4, <4>1, DeckMoves
    <3> QED BY <3>1
  <2>3. some \in SUBSET Window /\ x \notin some
    BY <1>2
  <2> HIDE DEF some
  <2>4. OnTop(Dk(Fronted(c, x), some, 1, FALSE), x)
    BY <1>2, <1>4, <2>3, FrontOnTop
  <2> QED BY <1>3, <2>1, <2>2, <2>4
<1> QED BY <1>5, <1>6

LEMMA SteadyOnTop ==
  ASSUME NEW e, NEW x, OnTop(e, x)
  PROVE  OnTop(TheDeck!Steady(e), x)
<1> DEFINE c == e.cards
           z == e.zoomed /\ c # <<>>
           s == Dk(c, e.icons, e.target, z)
<1>1. /\ c \in Seq(Window) /\ e.icons \in SUBSET Window /\ e.target \in Nat /\ z \in BOOLEAN
      /\ e.zoomed \in BOOLEAN
      /\ e.target \in DOMAIN c /\ c[e.target] = x /\ x \notin e.icons
  BY DEF OnTop, Decks
<1>2. e = Dk(c, e.icons, e.target, e.zoomed)
  BY DeckIs DEF OnTop
<1>3. TheDeck!Steady(Dk(c, e.icons, e.target, e.zoomed))
        = Dk(c, e.icons, IF e.target \in DOMAIN c THEN e.target ELSE 1, z)
  <2> HIDE DEF c
  <2> QED BY <1>1, DeckSteady
<1>4. TheDeck!Steady(e) = s
  BY <1>1, <1>2, <1>3
<1> HIDE DEF c, z
<1>5. s \in Decks /\ s.cards = c /\ s.icons = e.icons /\ s.target = e.target
  BY <1>1, DeckParts
<1> HIDE DEF s
<1>6. OnTop(s, x)
  BY <1>1, <1>5 DEF OnTop
<1> QED BY <1>4, <1>6

LEMMA TargetOnTop ==
  ASSUME NEW w, Dealt(w), NEW x, OnTop(DeckOf(w), x)
  PROVE  target_window(w) = x /\ x \notin w.minimized
<1>1. PICK c, m \in Seq(Window) : Cut(w, c, m)
  BY DEF Dealt
<1> DEFINE icons == w.minimized
           t == w.target_index + 1
           z == w.maximized
           d == Dk(c, icons, t, z)
<1>2. /\ c \in Seq(Window)
      /\ icons \in SUBSET Window /\ w.target_index \in {0, 1} /\ t \in Nat /\ z \in BOOLEAN
  BY <1>1, CutLists
<1>3. DeckOf(w) = d /\ d.cards = c /\ d.icons = icons /\ d.target = t
  BY <1>1, <1>2, CutDeck, DeckParts
<1>4. target_window(w) = IF t \in DOMAIN c THEN c[t] ELSE NULL
  BY <1>1, CutCounts
<1> HIDE DEF d, t
<1> QED BY <1>3, <1>4 DEF OnTop

-----------------------------------------------------------------------------
(* The manage sequence.                                                    *)

LEMMA SeatPlays ==
  ASSUME NEW w, Dealt(w)
  PROVE  LET v == seat_manage(w) IN
         /\ Dealt(v) /\ v.closed = w.closed /\ v.pending_activate = w.pending_activate
         /\ \E d \in TheDeck!Clicked(DeckOf(w), w.interacted) :
              DeckOf(v) = TheDeck!Do(d, w.pending_action)
<1> DEFINE u == seat_interaction(w)
           a == seat_action(u, u.pending_action)
           v == [a EXCEPT !.pending_action = "NONE"]
<1>1. /\ Sound(u) /\ Dealt(u) /\ Left(w, u)
      /\ DeckOf(u) \in TheDeck!Clicked(DeckOf(w), w.interacted)
  BY Clicks
<1>2. seat_manage(w) = v
  BY DEF seat_manage
<1> HIDE DEF u
<1>3. u.pending_action = w.pending_action /\ u.pending_action \in KeyAction \cup {"NONE"}
  BY <1>1 DEF Left, Sound, WMState
<1>4. Plays(u, a, TheDeck!Do(DeckOf(u), u.pending_action))
  BY <1>1, <1>3, Acts
<1> HIDE DEF a
<1>5. Sound(a) /\ Dealt(a)
  BY <1>4 DEF Plays, SameWindows
<1>6. /\ v \in WMState
      /\ v.windows = a.windows /\ v.parent = a.parent /\ v.floating = a.floating
      /\ v.minimized = a.minimized /\ v.target_index = a.target_index
      /\ v.maximized = a.maximized /\ v.focused = a.focused /\ v.interacted = a.interacted
      /\ v.pending_float_focus = a.pending_float_focus
      /\ v.closed = a.closed /\ v.pending_activate = a.pending_activate
  BY <1>5 DEF Sound, WMState
<1> HIDE DEF v
<1>7. Sound(v)
  BY <1>5, <1>6, SamePointers DEF SameWindows
<1>8. Dealt(v) /\ DeckOf(v) = DeckOf(a)
  BY <1>5, <1>6, <1>7, Unseen
<1>9. DeckOf(v) = TheDeck!Do(DeckOf(u), w.pending_action)
  BY <1>3, <1>4, <1>8 DEF Plays
<1>10. v.closed = w.closed /\ v.pending_activate = w.pending_activate
  BY <1>1, <1>4, <1>6 DEF Left, Plays, Aimed
<1> QED BY <1>1, <1>2, <1>8, <1>9, <1>10

LEMMA FloatFocusUnseen ==
  ASSUME NEW w, Dealt(w)
  PROVE  LET v == apply_pending_float_focus(w) IN Dealt(v) /\ DeckOf(v) = DeckOf(w)
<1> DEFINE x == w.pending_float_focus
           p == IF x # NULL /\ x \notin w.closed /\ x \in w.floating THEN x ELSE w.focused
           v == [w EXCEPT !.pending_float_focus = NULL, !.focused = p]
<1>1. apply_pending_float_focus(w) = v
  BY DEF apply_pending_float_focus
<1>2. Sound(w)
  BY DEF Dealt, Cut
<1> HIDE DEF p
<1>3. /\ v.windows = w.windows /\ v.parent = w.parent /\ v.floating = w.floating
      /\ v.minimized = w.minimized /\ v.target_index = w.target_index
      /\ v.maximized = w.maximized
  BY <1>2 DEF Sound, WMState
<1>4. Sound(v)
  BY <1>1, <1>2, ApplyFloatFocus DEF SameWindows
<1> HIDE DEF v
<1>5. Dealt(v) /\ DeckOf(v) = DeckOf(w)
  BY <1>3, <1>4, Unseen
<1> QED BY <1>1, <1>5

\* A click on a window that is gone is no click.
LEMMA ClickedNothing ==
  ASSUME NEW w, Dealt(w), NEW x, x \notin Live(w)
  PROVE  TheDeck!Clicked(DeckOf(w), x) = {DeckOf(w)}
<1>1. PICK c, m \in Seq(Window) : Cut(w, c, m)
  BY DEF Dealt
<1> DEFINE d == DeckOf(w)
<1>2. /\ c \in Seq(Window) /\ w.minimized = Range(m) /\ w.minimized \in SUBSET Window
      /\ Range(c) \cup Range(m) = Live(w)
      /\ w.target_index \in {0, 1} /\ w.maximized \in BOOLEAN
  BY <1>1, CutLists
<1>3. d.cards = c /\ d.icons = w.minimized
  <2>1. w.target_index + 1 \in Nat
    BY <1>2
  <2> QED BY <1>1, <1>2, <2>1, CutDeck, DeckParts
<1>4. x \notin d.icons /\ x \notin Range(d.cards)
  BY <1>2, <1>3
<1>5. {k \in DOMAIN d.cards \cap {1, 2} : d.cards[k] = x} = {}
  BY <1>4 DEF Range
<1> HIDE DEF d
<1> DEFINE none == {}
<1>6. TheDeck!Clicked(d, x)
        = {[d EXCEPT !.target = t, !.zoomed = @ /\ t = d.target] : t \in none} \cup {d}
  BY <1>4, <1>5 DEF TheDeck!Clicked, TheDeck!MAIN, TheDeck!DECK
<1>7. TheDeck!Clicked(d, x) = {d}
  BY <1>6
<1> QED BY <1>7 DEF d

LEMMA SettledPlays ==
  ASSUME NEW w, Dealt(w), NEW due
  PROVE  LET v == Settled(w, due) IN
         /\ Dealt(v)
         /\ \E d \in TheDeck!Clicked(TheDeck!Held(TheDeck!Gone(DeckOf(w), w.closed), due),
                                     w.interacted) :
              DeckOf(v) = TheDeck!Steady(TheDeck!Activated(TheDeck!Do(d, w.pending_action),
                                                           w.pending_activate))
         /\ w.pending_activate \in Live(w) \ w.closed => OnTop(DeckOf(v), w.pending_activate)
<1> DEFINE w0 == [w EXCEPT !.manage_dirty = FALSE]
           w1 == window_destroy_closed(w0, w.closed)
           w2 == process_hold_timers(w1, due)
           w3 == seat_manage(w2)
           w4 == apply_pending_taskbar_activation(w3)
           w5 == apply_pending_float_focus(w4)
           w6 == clamp_target(w5)
           x == w.interacted
<1>1. Settled(w, due) = w6
  BY DEF Settled
<1>2. Dealt(w0) /\ DeckOf(w0) = DeckOf(w) /\ Aimed(w, w0) /\ Sound(w0) /\ Live(w0) = Live(w)
  <2> DEFINE b == FALSE
  <2>1. b \in BOOLEAN
    OBVIOUS
  <2> HIDE DEF b
  <2>2. Plays(w, [w EXCEPT !.manage_dirty = b], DeckOf(w))
    BY <2>1, UnseenFlag
  <2> QED BY <2>2 DEF Plays, SameWindows, b
<1> HIDE DEF w0
<1>3. /\ Dealt(w1) /\ DeckOf(w1) = TheDeck!Gone(DeckOf(w), w.closed)
      /\ w1.closed = {}
      /\ w1.pending_action = w.pending_action /\ w1.pending_activate = w.pending_activate
      /\ w1.interacted = IF x \in w.closed THEN NULL ELSE x
      /\ Live(w1) = Live(w) \ w.closed
  <2>1. /\ Dealt(w1) /\ DeckOf(w1) = TheDeck!Gone(DeckOf(w0), w.closed)
        /\ w1.closed = w0.closed \ w.closed
        /\ w1.pending_action = w0.pending_action /\ w1.pending_activate = w0.pending_activate
        /\ w1.interacted = IF w0.interacted \in w.closed THEN NULL ELSE w0.interacted
    BY <1>2, Destroys
  <2>2. Live(w1) = Live(w0) \ w.closed
    BY <1>2, DestroyClosed
  <2> HIDE DEF w1
  <2> QED BY <1>2, <2>1, <2>2 DEF Aimed
<1> HIDE DEF w1
<1>4. Plays(w1, w2, TheDeck!Held(DeckOf(w1), due))
  BY <1>3, HoldPlays
<1> HIDE DEF w2
<1>5. /\ Dealt(w2) /\ DeckOf(w2) = TheDeck!Held(TheDeck!Gone(DeckOf(w), w.closed), due)
      /\ w2.closed = {} /\ w2.interacted = w1.interacted
      /\ w2.pending_action = w.pending_action /\ w2.pending_activate = w.pending_activate
      /\ Live(w2) = Live(w) \ w.closed /\ Sound(w2)
  BY <1>3, <1>4 DEF Plays, Aimed, SameWindows
<1>6. TheDeck!Clicked(DeckOf(w2), w2.interacted) = TheDeck!Clicked(DeckOf(w2), x)
  <2>1. CASE x \in w.closed
    <3>1. x \notin Live(w2) /\ w2.interacted = NULL
      BY <1>3, <1>5, <2>1
    <3>2. NULL \notin Live(w2)
      BY <1>5, LiveWindows
    <3> QED BY <1>5, <3>1, <3>2, ClickedNothing
  <2>2. CASE x \notin w.closed
    BY <1>3, <1>5, <2>2
  <2> QED BY <2>1, <2>2
<1>7. /\ Dealt(w3) /\ w3.closed = {} /\ w3.pending_activate = w.pending_activate
      /\ \E d \in TheDeck!Clicked(DeckOf(w2), x) : DeckOf(w3) = TheDeck!Do(d, w.pending_action)
  BY <1>5, <1>6, SeatPlays
<1>14. Live(w3) = Live(w) \ w.closed
  BY <1>5, SeatManage DEF SameWindows
<1> HIDE DEF w3
<1>8. PICK d \in TheDeck!Clicked(DeckOf(w2), x) : DeckOf(w3) = TheDeck!Do(d, w.pending_action)
  BY <1>7
<1>9. Dealt(w4) /\ DeckOf(w4) = TheDeck!Activated(DeckOf(w3), w.pending_activate)
  BY <1>7, TakesActivation
<1>15. w.pending_activate \in Live(w) \ w.closed => OnTop(DeckOf(w4), w.pending_activate)
  BY <1>7, <1>9, <1>14, ActivatedOnTop
<1> HIDE DEF w4
<1>10. Dealt(w5) /\ DeckOf(w5) = DeckOf(w4)
  BY <1>9, FloatFocusUnseen
<1> HIDE DEF w5
<1>11. Plays(w5, w6, TheDeck!Steady(DeckOf(w5)))
  BY <1>10, Clamps
<1> HIDE DEF w6
<1>12. /\ Dealt(w6)
       /\ DeckOf(w6) = TheDeck!Steady(TheDeck!Activated(TheDeck!Do(d, w.pending_action),
                                                        w.pending_activate))
  BY <1>8, <1>9, <1>10, <1>11 DEF Plays
<1>13. w.pending_activate \in Live(w) \ w.closed => OnTop(DeckOf(w6), w.pending_activate)
  BY <1>10, <1>11, <1>15, SteadyOnTop DEF Plays
<1> QED BY <1>1, <1>5, <1>8, <1>12, <1>13

\* A manage sequence that was asked for a: what it makes of a deck d.
Sequel(d, a, due) ==
  {TheDeck!Steady(TheDeck!Activated(TheDeck!Do(e, a.key), a.activate)) :
     e \in TheDeck!Clicked(TheDeck!Held(TheDeck!Gone(d, a.closed), due), a.click)}

AskedOf(w) ==
  [closed |-> w.closed, click |-> w.interacted,
   key |-> w.pending_action, activate |-> w.pending_activate]

Nothing == [closed |-> {}, click |-> NULL, key |-> "NONE", activate |-> NULL]

LEMMA ManagePlays ==
  ASSUME Dealt(wm), NEW due \in SUBSET (Key \cap HoldAction),
         AsSettled(Settled(wm, due), wm'), Sound(wm')
  PROVE  /\ Dealt(wm')
         /\ DeckOf(wm') \in Sequel(DeckOf(wm), AskedOf(wm), due)
         /\ AskedOf(wm') = Nothing
         /\ wm.pending_activate \in Live(wm) \ wm.closed => OnTop(DeckOf(wm'), wm.pending_activate)
<1> DEFINE w == Settled(wm, due)
<1>1. Sound(wm)
  BY DEF Dealt, Cut
<1>3. /\ Dealt(w)
      /\ \E d \in TheDeck!Clicked(TheDeck!Held(TheDeck!Gone(DeckOf(wm), wm.closed), due),
                                  wm.interacted) :
           DeckOf(w) = TheDeck!Steady(TheDeck!Activated(TheDeck!Do(d, wm.pending_action),
                                                        wm.pending_activate))
      /\ wm.pending_activate \in Live(wm) \ wm.closed => OnTop(DeckOf(w), wm.pending_activate)
  BY SettledPlays
<1>4. /\ w.closed = {}
      /\ w.pending_action = "NONE" /\ w.pending_activate = NULL /\ w.interacted = NULL
  BY <1>1, SettledFields
<1>5. AsSettled(w, wm')
  OBVIOUS
<1> HIDE DEF w
<1>6. /\ wm'.windows = w.windows /\ wm'.parent = w.parent /\ wm'.floating = w.floating
      /\ wm'.minimized = w.minimized /\ wm'.target_index = w.target_index
      /\ wm'.maximized = w.maximized
  BY <1>5 DEF AsSettled, LayoutOf
<1>7. Dealt(wm') /\ DeckOf(wm') = DeckOf(w)
  BY <1>3, <1>6, Unseen
<1>8. AskedOf(wm') = Nothing
  BY <1>4, <1>5 DEF AsSettled, AskedOf, Nothing
<1>9. DeckOf(wm') \in Sequel(DeckOf(wm), AskedOf(wm), due)
  <2>1. /\ AskedOf(wm).closed = wm.closed /\ AskedOf(wm).click = wm.interacted
        /\ AskedOf(wm).key = wm.pending_action /\ AskedOf(wm).activate = wm.pending_activate
    BY DEF AskedOf
  <2> QED BY <1>3, <1>7, <2>1 DEF Sequel
<1>10. wm.pending_activate \in Live(wm) \ wm.closed => OnTop(DeckOf(wm'), wm.pending_activate)
  BY <1>3, <1>7
<1> QED BY <1>7, <1>8, <1>9, <1>10

-----------------------------------------------------------------------------
(* Steps.                                                                  *)

\* A step of the deck from d, asked for a, to e, asked for b: an event, or a
\* manage sequence.
DeckEvent(d, a, e, b) ==
  \/ \E x \in Window \ (d.icons \cup Range(d.cards)) : e = TheDeck!ToMain(d, x) /\ b = a
  \/ \E x \in Range(d.cards) : e = TheDeck!ToIcon(d, x) /\ b = a
  \/ \E due \in SUBSET (Key \cap HoldAction) : e = TheDeck!Held(d, due) /\ b = a
  \/ /\ e = d
     /\ \/ \E x \in d.icons \cup Range(d.cards) : \/ b = [a EXCEPT !.closed = @ \cup {x}]
                                                 \/ b = [a EXCEPT !.click = x]
        \/ \E key \in Key : b = [a EXCEPT !.key = key]
        \/ \E x \in Window : b = [a EXCEPT !.activate = x]
  \/ e = d /\ b = a

DeckSequence(d, a, e, b) ==
  /\ \E due \in SUBSET (Key \cap HoldAction) : e \in Sequel(d, a, due)
  /\ b = Nothing

LEMMA StepOfDeck ==
  ASSUME \/ DeckEvent(DeckOf(wm), AskedOf(wm), DeckOf(wm'), AskedOf(wm'))
         \/ DeckSequence(DeckOf(wm), AskedOf(wm), DeckOf(wm'), AskedOf(wm'))
  PROVE  [TheDeck!Next]_(TheDeck!vars)
<1> DEFINE d == DeckOf(wm)
           a == AskedOf(wm)
           e == DeckOf(wm')
           b == AskedOf(wm')
<1>1. \A s : TheDeck!Range(s) = Range(s)
  BY DEF TheDeck!Range, Range
<1>2. TheDeck!Holds = Key \cap HoldAction
  BY DEF TheDeck!Holds, HoldAction
<1>3. CASE \E x \in Window \ (d.icons \cup Range(d.cards)) : e = TheDeck!ToMain(d, x) /\ b = a
  BY <1>1, <1>3 DEF TheDeck!Next, TheDeck!Windows, DeckOf, Dk, AskedOf
<1>4. CASE \E x \in Range(d.cards) : e = TheDeck!ToIcon(d, x) /\ b = a
  BY <1>1, <1>4 DEF TheDeck!Next, DeckOf, Dk, AskedOf
<1>5. CASE \E due \in SUBSET (Key \cap HoldAction) : e = TheDeck!Held(d, due) /\ b = a
  BY <1>2, <1>5 DEF TheDeck!Next, DeckOf, Dk, AskedOf
<1>6. CASE e = d /\ \E x \in d.icons \cup Range(d.cards) : b = [a EXCEPT !.closed = @ \cup {x}]
  BY <1>1, <1>6 DEF TheDeck!Next, TheDeck!Ask, TheDeck!Windows, DeckOf, Dk, AskedOf
<1>7. CASE e = d /\ \E x \in d.icons \cup Range(d.cards) : b = [a EXCEPT !.click = x]
  BY <1>1, <1>7 DEF TheDeck!Next, TheDeck!Ask, TheDeck!Windows, DeckOf, Dk, AskedOf
<1>8. CASE e = d /\ \E key \in Key : b = [a EXCEPT !.key = key]
  BY <1>8 DEF TheDeck!Next, TheDeck!Ask, DeckOf, Dk, AskedOf
<1>9. CASE e = d /\ \E x \in Window : b = [a EXCEPT !.activate = x]
  BY <1>9 DEF TheDeck!Next, TheDeck!Ask, DeckOf, Dk, AskedOf
<1>10. CASE DeckSequence(d, a, e, b)
  <2>1. PICK due \in SUBSET TheDeck!Holds : e \in Sequel(d, a, due)
    BY <1>2, <1>10 DEF DeckSequence
  <2>2. PICK m \in TheDeck!Clicked(TheDeck!Held(TheDeck!Gone(d, a.closed), due), a.click) :
           e = TheDeck!Steady(TheDeck!Activated(TheDeck!Do(m, a.key), a.activate))
    BY <2>1 DEF Sequel
  <2> QED BY <1>10, <2>1, <2>2 DEF DeckSequence, TheDeck!Next, DeckOf, Dk, AskedOf, Nothing
<1>11. CASE e = d /\ b = a
  BY <1>11 DEF TheDeck!vars, DeckOf, Dk, AskedOf
<1> QED BY <1>3, <1>4, <1>5, <1>6, <1>7, <1>8, <1>9, <1>10, <1>11 DEF DeckEvent

\* No window that could be anything but a card.
OnlyCards ==
  /\ Floater = {} /\ Capped = {} /\ Unruly = {} /\ Dialog = {} /\ Game = {}
  /\ \A x \in Window : Titles[x] = {}

\* The step from w to v is an event of the deck, and v is dealt again.
DealsTo(w, v) == Dealt(v) /\ DeckEvent(DeckOf(w), AskedOf(w), DeckOf(v), AskedOf(v))

LEMMA SameAsked ==
  ASSUME NEW w, NEW v, Aimed(w, v)
  PROVE  AskedOf(v) = AskedOf(w)
BY DEF Aimed, AskedOf

\* An event asks for a sequence too, which the deck does not see.
LEMMA EventDeals ==
  ASSUME NEW w, NEW v, DealsTo(w, v)
  PROVE  DealsTo(w, [v EXCEPT !.manage_dirty = TRUE])
<1> DEFINE t == TRUE
           u == [v EXCEPT !.manage_dirty = t]
<1>1. t \in BOOLEAN /\ Dealt(v)
  BY DEF DealsTo
<1> HIDE DEF t
<1>2. Plays(v, u, DeckOf(v))
  BY <1>1, UnseenFlag
<1> HIDE DEF u
<1>3. Dealt(u) /\ DeckOf(u) = DeckOf(v) /\ AskedOf(u) = AskedOf(v)
  BY <1>2, SameAsked DEF Plays
<1>4. DealsTo(w, u)
  BY <1>3 DEF DealsTo
<1> QED BY <1>4 DEF u, t

LEMMA DeckWindows ==
  ASSUME NEW w, Dealt(w)
  PROVE  DeckOf(w).icons \cup Range(DeckOf(w).cards) = Live(w)
<1>1. PICK c, m \in Seq(Window) : Cut(w, c, m)
  BY DEF Dealt
<1>2. /\ c \in Seq(Window) /\ w.minimized = Range(m) /\ w.minimized \in SUBSET Window
      /\ Range(c) \cup Range(m) = Live(w)
      /\ w.target_index \in {0, 1} /\ w.maximized \in BOOLEAN
  BY <1>1, CutLists
<1>3. w.target_index + 1 \in Nat
  BY <1>2
<1> QED BY <1>1, <1>2, <1>3, CutDeck, DeckParts

LEMMA NewCard ==
  ASSUME Dealt(wm), NEW x \in Window, wm_handle_window(x)
  PROVE  DealsTo(wm, wm')
<1> DEFINE v == md_insert_new_window(wm, x)
<1>1. wm' = [v EXCEPT !.manage_dirty = TRUE] /\ x \notin Live(wm)
  BY DEF wm_handle_window, Event, Handled
<1>2. /\ Dealt(v) /\ Left(wm, v) /\ v.interacted = wm.interacted
      /\ DeckOf(v) = TheDeck!ToMain(DeckOf(wm), x)
  BY <1>1, Inserts
<1> HIDE DEF v
<1>3. AskedOf(v) = AskedOf(wm)
  BY <1>2 DEF AskedOf, Left
<1>4. x \notin DeckOf(wm).icons \cup Range(DeckOf(wm).cards)
  BY <1>1, DeckWindows
<1>5. DealsTo(wm, v)
  BY <1>2, <1>3, <1>4 DEF DealsTo, DeckEvent
<1> QED BY <1>1, <1>5, EventDeals

\* A handler that fills a slot.
LEMMA Asks ==
  ASSUME NEW w, Dealt(w), NEW v, Sound(v),
         v.windows = w.windows, v.parent = w.parent, v.floating = w.floating,
         v.minimized = w.minimized, v.target_index = w.target_index, v.maximized = w.maximized
  PROVE  /\ AskedOf(v) = AskedOf(w) => DealsTo(w, v)
         /\ \A x \in Live(w) : AskedOf(v) = [AskedOf(w) EXCEPT !.closed = @ \cup {x}]
                                 => DealsTo(w, v)
         /\ \A x \in Live(w) : AskedOf(v) = [AskedOf(w) EXCEPT !.click = x] => DealsTo(w, v)
         /\ \A key \in Key : AskedOf(v) = [AskedOf(w) EXCEPT !.key = key] => DealsTo(w, v)
         /\ \A x \in Window : AskedOf(v) = [AskedOf(w) EXCEPT !.activate = x] => DealsTo(w, v)
<1>1. Dealt(v) /\ DeckOf(v) = DeckOf(w)
  BY Unseen
<1>2. DeckOf(w).icons \cup Range(DeckOf(w).cards) = Live(w)
  BY DeckWindows
<1>3. AskedOf(v) = AskedOf(w) => DealsTo(w, v)
  BY <1>1 DEF DealsTo, DeckEvent
<1>4. \A x \in Live(w) : AskedOf(v) = [AskedOf(w) EXCEPT !.closed = @ \cup {x}] => DealsTo(w, v)
  BY <1>1, <1>2 DEF DealsTo, DeckEvent
<1>5. \A x \in Live(w) : AskedOf(v) = [AskedOf(w) EXCEPT !.click = x] => DealsTo(w, v)
  BY <1>1, <1>2 DEF DealsTo, DeckEvent
<1>6. \A key \in Key : AskedOf(v) = [AskedOf(w) EXCEPT !.key = key] => DealsTo(w, v)
  BY <1>1 DEF DealsTo, DeckEvent
<1>7. \A x \in Window : AskedOf(v) = [AskedOf(w) EXCEPT !.activate = x] => DealsTo(w, v)
  BY <1>1 DEF DealsTo, DeckEvent
<1> QED BY <1>3, <1>4, <1>5, <1>6, <1>7

LEMMA ClosedCard ==
  ASSUME Dealt(wm), NEW x \in Window, window_handle_closed(x)
  PROVE  DealsTo(wm, wm')
<1> DEFINE v == [wm EXCEPT !.closed = @ \cup {x}]
<1>1. wm.parent[x] = NULL /\ x \in Live(wm) /\ Sound(wm)
  BY DEF Dealt, Cut, Arranged, window_handle_closed, Open
<1>2. wm' = [v EXCEPT !.manage_dirty = TRUE]
  BY <1>1 DEF window_handle_closed, Event, Handled
<1>3. /\ v \in WMState
      /\ v.windows = wm.windows /\ v.parent = wm.parent /\ v.floating = wm.floating
      /\ v.minimized = wm.minimized /\ v.target_index = wm.target_index
      /\ v.maximized = wm.maximized /\ v.focused = wm.focused /\ v.interacted = wm.interacted
      /\ v.pending_float_focus = wm.pending_float_focus
      /\ v.closed = wm.closed \cup {x}
      /\ v.pending_action = wm.pending_action /\ v.pending_activate = wm.pending_activate
  BY <1>1 DEF Sound, WMState
<1> HIDE DEF v
<1>4. Sound(v)
  BY <1>1, <1>3, SamePointers DEF SameWindows
<1>5. AskedOf(v) = [AskedOf(wm) EXCEPT !.closed = @ \cup {x}]
  BY <1>3 DEF AskedOf
<1>6. DealsTo(wm, v)
  BY <1>1, <1>3, <1>4, <1>5, Asks
<1> QED BY <1>2, <1>6, EventDeals

LEMMA MinimizedCard ==
  ASSUME Dealt(wm), NEW x \in Window, window_handle_minimize_requested(x)
  PROVE  DealsTo(wm, wm')
<1> DEFINE b == wm.bar_fullscreen /\ x \notin wm.fullscreen
           v == [Aim(move_last(wm, x), 0) EXCEPT !.minimized = @ \cup {x},
                                                 !.fullscreen = @ \ {x},
                                                 !.bar_fullscreen = b]
<1>1. x \in Live(wm) \ wm.minimized /\ Sound(wm)
  BY DEF Dealt, Cut, window_handle_minimize_requested, Open
<1>2. wm' = [v EXCEPT !.manage_dirty = TRUE]
  <2>1. Aim(move_last(wm, x), 0).bar_fullscreen = wm.bar_fullscreen
    BY <1>1 DEF Aim, move_last, Sound, WMState
  <2>2. wm' = [[Aim(move_last(wm, x), 0) EXCEPT
                  !.minimized = @ \cup {x}, !.fullscreen = @ \ {x},
                  !.bar_fullscreen = @ /\ x \notin wm.fullscreen] EXCEPT !.manage_dirty = TRUE]
    BY DEF window_handle_minimize_requested, Event, Handled
  <2> QED BY <2>1, <2>2
<1>3. b \in BOOLEAN
  OBVIOUS
<1>4. /\ Dealt(v) /\ Left(wm, v) /\ v.interacted = wm.interacted
      /\ DeckOf(v) = TheDeck!ToIcon(DeckOf(wm), x)
      /\ x \in Range(Shown(wm))
  <2> HIDE DEF b
  <2> QED BY <1>1, <1>3, Minimizes
<1> HIDE DEF v
<1>5. AskedOf(v) = AskedOf(wm)
  BY <1>4 DEF AskedOf, Left
<1>6. x \in Range(DeckOf(wm).cards)
  BY <1>4 DEF DeckOf, Dk
<1>7. DealsTo(wm, v)
  BY <1>4, <1>5, <1>6 DEF DealsTo, DeckEvent
<1> QED BY <1>2, <1>7, EventDeals

LEMMA SeatDeals ==
  ASSUME Dealt(wm), SeatEvent
  PROVE  DealsTo(wm, wm')
<1>0. Sound(wm)
  BY DEF Dealt, Cut
<1>1. ASSUME NEW action \in Key, xkb_binding_handle(action)
      PROVE  DealsTo(wm, wm')
  <2> DEFINE v == [wm EXCEPT !.pending_action = action]
  <2>1. wm' = [v EXCEPT !.manage_dirty = TRUE]
    BY <1>1 DEF xkb_binding_handle, Event, Handled
  <2>2. /\ v \in WMState
        /\ v.windows = wm.windows /\ v.parent = wm.parent /\ v.floating = wm.floating
        /\ v.minimized = wm.minimized /\ v.target_index = wm.target_index
        /\ v.maximized = wm.maximized /\ v.focused = wm.focused /\ v.interacted = wm.interacted
        /\ v.pending_float_focus = wm.pending_float_focus
        /\ v.closed = wm.closed
        /\ v.pending_action = action /\ v.pending_activate = wm.pending_activate
    BY <1>0, BoundAssumption DEF BoundAssumption, Sound, WMState
  <2> HIDE DEF v
  <2>3. Sound(v)
    BY <1>0, <2>2, SamePointers DEF SameWindows
  <2>4. AskedOf(v) = [AskedOf(wm) EXCEPT !.key = action]
    BY <2>2 DEF AskedOf
  <2>5. DealsTo(wm, v)
    BY <2>2, <2>3, <2>4, Asks
  <2> QED BY <2>1, <2>5, EventDeals
<1>2. ASSUME NEW x \in Window, seat_handle_window_interaction(x)
      PROVE  DealsTo(wm, wm')
  <2> DEFINE v == [wm EXCEPT !.interacted = x]
  <2>1. wm' = [v EXCEPT !.manage_dirty = TRUE] /\ x \in Live(wm)
    BY <1>2 DEF seat_handle_window_interaction, Event, Handled, Open
  <2>2. /\ v \in WMState
        /\ v.windows = wm.windows /\ v.parent = wm.parent /\ v.floating = wm.floating
        /\ v.minimized = wm.minimized /\ v.target_index = wm.target_index
        /\ v.maximized = wm.maximized /\ v.focused = wm.focused /\ v.interacted = x
        /\ v.pending_float_focus = wm.pending_float_focus
        /\ v.closed = wm.closed
        /\ v.pending_action = wm.pending_action /\ v.pending_activate = wm.pending_activate
    BY <1>0 DEF Sound, WMState, Pointer
  <2> HIDE DEF v
  <2>3. Sound(v)
    BY <1>0, <2>1, <2>2, LivePointers DEF Sound, SameWindows
  <2>4. AskedOf(v) = [AskedOf(wm) EXCEPT !.click = x]
    BY <2>2 DEF AskedOf
  <2>5. DealsTo(wm, v)
    BY <2>1, <2>2, <2>3, <2>4, Asks
  <2> QED BY <2>1, <2>5, EventDeals
<1>3. CASE layer_shell_seat_handle_focus_none
  <2> DEFINE v == [wm EXCEPT !.focus_dirty = TRUE]
  <2>1. wm' = [v EXCEPT !.manage_dirty = TRUE]
    BY <1>3 DEF layer_shell_seat_handle_focus_none, Event, Handled
  <2> DEFINE b == TRUE
  <2>0. b \in BOOLEAN
    OBVIOUS
  <2> HIDE DEF b
  <2>2. Plays(wm, v, DeckOf(wm))
    BY <2>0, UnseenFlag
  <2> HIDE DEF v
  <2>3. DealsTo(wm, v)
    BY <2>2, SameAsked DEF Plays, DealsTo, DeckEvent
  <2> QED BY <2>1, <2>3, EventDeals
<1>4. ASSUME NEW due \in SUBSET (Key \cap HoldAction), hold_timeout(due)
      PROVE  DealsTo(wm, wm')
  <2>1. wm' = process_hold_timers(wm, due)
    BY <1>4 DEF hold_timeout, Handled
  <2>2. Plays(wm, wm', TheDeck!Held(DeckOf(wm), due))
    BY <2>1, HoldPlays
  <2>3. Dealt(wm') /\ DeckOf(wm') = TheDeck!Held(DeckOf(wm), due) /\ AskedOf(wm') = AskedOf(wm)
    BY <2>2, SameAsked DEF Plays
  <2> QED BY <2>3 DEF DealsTo, DeckEvent
<1> QED BY <1>1, <1>2, <1>3, <1>4 DEF SeatEvent

LEMMA IpcDeals ==
  ASSUME Dealt(wm), NEW x \in Window, ipc_handle_message(x)
  PROVE  DealsTo(wm, wm')
<1> DEFINE v == [wm EXCEPT !.pending_activate = x, !.manage_dirty = TRUE]
<1>0. Sound(wm)
  BY DEF Dealt, Cut
<1>1. wm' = v
  BY DEF ipc_handle_message, Handled
<1>2. /\ v \in WMState
      /\ v.windows = wm.windows /\ v.parent = wm.parent /\ v.floating = wm.floating
      /\ v.minimized = wm.minimized /\ v.target_index = wm.target_index
      /\ v.maximized = wm.maximized /\ v.focused = wm.focused /\ v.interacted = wm.interacted
      /\ v.pending_float_focus = wm.pending_float_focus
      /\ v.closed = wm.closed
      /\ v.pending_action = wm.pending_action /\ v.pending_activate = x
  BY <1>0 DEF Sound, WMState, Pointer
<1> HIDE DEF v
<1>3. Sound(v)
  BY <1>0, <1>2, SamePointers DEF SameWindows
<1>4. AskedOf(v) = [AskedOf(wm) EXCEPT !.activate = x]
  BY <1>2 DEF AskedOf
<1>5. DealsTo(wm, v)
  BY <1>2, <1>3, <1>4, Asks
<1> QED BY <1>1, <1>5

LEMMA HandlerDeals ==
  ASSUME OnlyCards, Dealt(wm), Next
  PROVE  DealsTo(wm, wm') \/ ManageSequence
<1>1. ASSUME NEW x \in Window, WindowEvent(x)
      PROVE  DealsTo(wm, wm')
  <2>1. Ruled = {} /\ Adoptable = {} /\ Titles[x] = {}
    BY DEF OnlyCards, Ruled, Adoptable
  <2>2. ~window_handle_app_id(x) /\ ~window_handle_dimensions_hint(x)
    BY <2>1 DEF OnlyCards, window_handle_app_id, window_handle_dimensions_hint
  <2>3. \A s, reply : ~window_handle_dimensions(x, s, reply)
    BY <2>1 DEF OnlyCards, window_handle_dimensions
  <2>4. \A p : ~window_handle_parent(x, p)
    BY DEF OnlyCards, window_handle_parent
  <2>5. ~window_handle_fullscreen_requested(x) /\ ~window_handle_exit_fullscreen_requested(x)
    BY DEF OnlyCards, window_handle_fullscreen_requested, window_handle_exit_fullscreen_requested
  <2>6. wm_handle_window(x) \/ window_handle_closed(x) \/ window_handle_minimize_requested(x)
    BY <1>1, <2>1, <2>2, <2>3, <2>4, <2>5 DEF WindowEvent
  <2> QED BY <2>6, NewCard, ClosedCard, MinimizedCard
<1>2. CASE SeatEvent
  BY <1>2, SeatDeals
<1>3. CASE \E x \in Window : ipc_handle_message(x)
  BY <1>3, IpcDeals
<1> QED BY <1>1, <1>2, <1>3 DEF Next

LEMMA SequenceDeals ==
  ASSUME Dealt(wm), FInv, ManageSequence
  PROVE  /\ Dealt(wm')
         /\ DeckSequence(DeckOf(wm), AskedOf(wm), DeckOf(wm'), AskedOf(wm'))
         /\ wm.pending_activate \in Live(wm) \ wm.closed => OnTop(DeckOf(wm'), wm.pending_activate)
         /\ wm'.focused \in wm'.floating \cup {FocusOf(wm')}
<1>1. Sound(wm)
  BY DEF Dealt, Cut
<1>2. PICK due \in SUBSET (Key \cap HoldAction), moved \in BOOLEAN :
        wm_handle_manage_start(due, moved)
  BY DEF ManageSequence
<1>3. Sound(wm')
  BY <1>1, StepManage DEF Goal
<1>4. AsSettled(Settled(wm, due), wm') /\ wm'.focused \in wm'.floating \cup {FocusOf(wm')}
  BY <1>1, <1>2, ManageFocus
<1>5. /\ Dealt(wm') /\ DeckOf(wm') \in Sequel(DeckOf(wm), AskedOf(wm), due)
      /\ AskedOf(wm') = Nothing
      /\ wm.pending_activate \in Live(wm) \ wm.closed => OnTop(DeckOf(wm'), wm.pending_activate)
  BY <1>3, <1>4, ManagePlays
<1> QED BY <1>4, <1>5 DEF DeckSequence

LEMMA StepDeals ==
  ASSUME OnlyCards, Dealt(wm), FInv, Next
  PROVE  /\ Dealt(wm')
         /\ \/ DeckEvent(DeckOf(wm), AskedOf(wm), DeckOf(wm'), AskedOf(wm'))
            \/ DeckSequence(DeckOf(wm), AskedOf(wm), DeckOf(wm'), AskedOf(wm'))
BY HandlerDeals, SequenceDeals DEF DealsTo

LEMMA InitDeals ==
  ASSUME Init
  PROVE  Dealt(wm) /\ TheDeck!Init
<1> DEFINE none == <<>>
<1>1. /\ wm.windows = none /\ wm.target_index = 0 /\ wm.maximized = FALSE
      /\ wm.floating = {} /\ wm.minimized = {} /\ wm.closed = {} /\ wm.interacted = NULL
      /\ wm.pending_action = "NONE" /\ wm.pending_activate = NULL
      /\ \A x \in Window : wm.parent[x] = NULL
  BY DEF Init
<1>2. none \in Seq(Window) /\ none \o none = none /\ Range(none) = {}
  BY DEF Range
<1>3. Sound(wm)
  BY InitSound DEF IInv
<1>4. Cut(wm, none, none)
  BY <1>1, <1>2, <1>3 DEF Cut, Arranged
<1>5. Dealt(wm) /\ DeckOf(wm) = Dk(none, wm.minimized, wm.target_index + 1, wm.maximized)
  BY <1>4, CutDeck
<1>6. Shown(wm) = none
  <2>1. wm.target_index + 1 \in Nat /\ wm.minimized \in SUBSET Window /\ wm.maximized \in BOOLEAN
    BY <1>3, <1>5 DEF Sound, WMState
  <2>2. DeckOf(wm).cards = none
    <3> HIDE DEF none
    <3> QED BY <1>2, <1>5, <2>1, DeckParts
  <2> QED BY <2>2 DEF DeckOf, Dk
<1>7. wm.target_index + 1 = 1
  BY <1>1
<1>8. TheDeck!Init
  BY <1>1, <1>6, <1>7 DEF TheDeck!Init, TheDeck!MAIN
<1> QED BY <1>5, <1>8

\* A window without a parent is its own root.
LEMMA RootIsRoot ==
  ASSUME NEW w, NEW x, w.parent[x] = NULL
  PROVE  top_window(w, x) = x
<1> DEFINE N == 0..MaxDepth
           Up(f) == [n \in N |->
                       IF n = 0 THEN x
                       ELSE IF w.parent[f[n - 1]] = NULL THEN f[n - 1] ELSE w.parent[f[n - 1]]]
           g == [n \in N |-> x]
           up == CHOOSE f : f = Up(f)
<1>1. g = Up(g)
  <2>1. \A n \in N : n # 0 => n - 1 \in N
    BY BoundAssumption DEF BoundAssumption
  <2>2. \A n \in N : g[n] = x
    OBVIOUS
  <2> DEFINE u == Up(g)
  <2>3. \A n \in N : u[n] = IF n = 0 THEN x ELSE IF w.parent[g[n - 1]] = NULL THEN g[n - 1]
                                                ELSE w.parent[g[n - 1]]
    OBVIOUS
  <2>4. \A n \in N : u[n] = x
    <3> HIDE DEF g, N, u
    <3> QED BY <2>1, <2>2, <2>3
  <2>5. u = [n \in N |-> u[n]]
    OBVIOUS
  <2> QED BY <2>4, <2>5
<1>2. Lineage(w, x) = up
  BY DEF Lineage
<1>3. up = Up(up)
  <2> HIDE DEF Up, g
  <2> QED BY <1>1
<1> HIDE DEF up
<1>4. \A n \in N : up[n] = IF n = 0 THEN x
                           ELSE IF w.parent[up[n - 1]] = NULL THEN up[n - 1] ELSE w.parent[up[n - 1]]
  BY <1>3
<1> HIDE DEF Up
<1>5. MaxDepth \in N /\ N \subseteq Nat
  BY BoundAssumption DEF BoundAssumption
<1>6. \A n \in N : n # 0 => n - 1 \in N /\ ~(n <= n - 1)
  BY BoundAssumption DEF BoundAssumption
<1> HIDE DEF N
<1> DEFINE off == {n \in N : up[n] # x}
<1>7. off = {}
  <2> SUFFICES ASSUME off # {} PROVE FALSE
    OBVIOUS
  <2>1. PICK n \in off : \A k \in off : n <= k
    <3>1. off \subseteq Nat
      BY <1>5
    <3> HIDE DEF off
    <3> QED BY <3>1, LeastNat
  <2>2. n # 0
    BY <1>4
  <2>3. n - 1 \in N /\ n - 1 \notin off
    BY <1>6, <2>1, <2>2
  <2>4. up[n - 1] = x
    BY <2>3
  <2> QED BY <1>4, <2>2, <2>4
<1> QED BY <1>2, <1>5, <1>7 DEF top_window

\* Without parents nothing is over the target.
LEMMA FocusOnTarget ==
  ASSUME NEW w, Dealt(w)
  PROVE  FocusOf(w) = target_window(w) /\ w.floating = {}
<1>1. PICK c, m \in Seq(Window) : Cut(w, c, m)
  BY DEF Dealt
<1>2. w.floating = {} /\ \A i \in DOMAIN w.windows : w.parent[w.windows[i]] = NULL
  BY <1>1, ArrangedLists DEF Cut, Arranged
<1>3. {i \in DOMAIN w.windows :
         /\ w.parent[w.windows[i]] # NULL
         /\ window_is_really_visible(w, w.windows[i])
         /\ top_window(w, w.windows[i]) = target_window(w)} = {}
  BY <1>2
<1> QED BY <1>2, <1>3 DEF FocusOf

\* Only a manage sequence empties the slot of the taskbar.
LEMMA EventKeepsActivate ==
  ASSUME NEW w, NEW v, NEW d, NEW e, DeckEvent(d, AskedOf(w), e, AskedOf(v))
  PROVE  v.pending_activate \in Window \cup {w.pending_activate}
<1> DEFINE a == AskedOf(w)
           b == AskedOf(v)
<1>1. a.activate = w.pending_activate /\ b.activate = v.pending_activate
  BY DEF AskedOf
<1>3. \/ \E x : b = [a EXCEPT !.closed = @ \cup {x}]
      \/ \E x : b = [a EXCEPT !.click = x]
      \/ \E x : b = [a EXCEPT !.key = x]
      \/ \E x \in Window : b = [a EXCEPT !.activate = x]
      \/ b = a
  <2> HIDE DEF a, b
  <2>1. DeckEvent(d, a, e, b)
    BY DEF a, b
  <2> QED BY <2>1 DEF DeckEvent
<1>4. ASSUME NEW x, b = [a EXCEPT !.closed = @ \cup {x}] \/ b = [a EXCEPT !.click = x]
                   \/ b = [a EXCEPT !.key = x] \/ b = a
      PROVE  b.activate = a.activate
  BY <1>4 DEF AskedOf
<1>5. ASSUME NEW x, b = [a EXCEPT !.activate = x]
      PROVE  b.activate = x
  BY <1>5 DEF AskedOf
<1> HIDE DEF a, b
<1> QED BY <1>1, <1>3, <1>4, <1>5

LEMMA StepLands ==
  ASSUME OnlyCards, Dealt(wm), FInv, Next, NEW x \in Open,
         wm.pending_activate = x, wm'.pending_activate = NULL
  PROVE  /\ target_window(wm') = x
         /\ x \notin wm'.minimized
         /\ wm'.focused \in wm'.floating \/ top_window(wm', wm'.focused) = x
<1>1. Sound(wm) /\ x \in Live(wm) \ wm.closed /\ x # NULL /\ x \in Window
  BY LiveWindows DEF Dealt, Cut, Open
<1>2. ManageSequence
  <2>1. ~DealsTo(wm, wm')
    BY <1>1, EventKeepsActivate, WindowAssumption DEF DealsTo, WindowAssumption
  <2> QED BY <2>1, HandlerDeals
<1>3. /\ Dealt(wm') /\ OnTop(DeckOf(wm'), x)
      /\ wm'.focused \in wm'.floating \cup {FocusOf(wm')}
  BY <1>1, <1>2, SequenceDeals
<1>4. target_window(wm') = x /\ x \notin wm'.minimized
  BY <1>3, TargetOnTop
<1>5. wm'.focused = x
  BY <1>3, <1>4, FocusOnTarget
<1>6. wm'.parent[x] = NULL
  BY <1>1, <1>3 DEF Dealt, Cut, Arranged
<1> QED BY <1>4, <1>5, <1>6, RootIsRoot

LEMMA DealtTarget ==
  ASSUME Dealt(wm)
  PROVE  TargetIsShown
<1>1. PICK c, m \in Seq(Window) : Cut(wm, c, m)
  BY DEF Dealt
<1> DEFINE t == wm.target_index + 1
<1>2. /\ wm.target_index \in {0, 1}
      /\ target_window(wm) = IF t \in DOMAIN c THEN c[t] ELSE NULL
      /\ Shown(wm) = c
  BY <1>1, CutLists, CutCounts, ArrangedShown
<1>3. t \in {1, 2}
  BY <1>2
<1> HIDE DEF t
<1> QED BY <1>2, <1>3 DEF TargetIsShown, MainAndDeck

LEMMA DealtAlways == OnlyCards => (Spec => []Dealt(wm))
<1> SUFFICES ASSUME OnlyCards PROVE Spec => []Dealt(wm)
  OBVIOUS
<1>1. Init => Dealt(wm)
  BY InitDeals
<1>2. Dealt(wm) /\ FInv /\ [Next]_vars => Dealt(wm)'
  BY StepDeals DEF vars
<1> QED BY <1>1, <1>2, FocusInvariance, PTL DEF Spec

\* Without dialogs, floating and fullscreen windows the list is, at every step
\* and for any number of windows, the deck of the abstract specification: what
\* the code finds by counting is what the deck has in one place.
THEOREM DeckIsImplemented == OnlyCards => (Spec => ImplementsDeck)
<1> SUFFICES ASSUME OnlyCards PROVE Spec => ImplementsDeck
  OBVIOUS
<1>1. Init => TheDeck!Init
  BY InitDeals
<1>2. Dealt(wm) /\ FInv /\ [Next]_vars => [TheDeck!Next]_(TheDeck!vars)
  <2> SUFFICES ASSUME Dealt(wm), FInv, [Next]_vars PROVE [TheDeck!Next]_(TheDeck!vars)
    OBVIOUS
  <2>1. CASE Next
    BY <2>1, StepDeals, StepOfDeck
  <2>2. CASE UNCHANGED vars
    BY <2>2 DEF vars, TheDeck!vars
  <2> QED BY <2>1, <2>2
<1> QED BY <1>1, <1>2, DealtAlways, FocusInvariance, PTL DEF Spec, ImplementsDeck, TheDeck!Spec

\* Then the target is MAIN or the visible DECK card, never a minimised one.
THEOREM TargetOnScreen == OnlyCards => (Spec => []TargetIsShown)
<1> SUFFICES ASSUME OnlyCards PROVE Spec => []TargetIsShown
  OBVIOUS
<1> QED BY DealtAlways, DealtTarget, PTL

\* Then the window clicked in the taskbar is the target, on screen and focused
\* when the manage sequence is over, whatever keys and clicks it shared it with.
THEOREM ActivationSticks == OnlyCards => (Spec => ActivationLands)
<1> SUFFICES ASSUME OnlyCards PROVE Spec => ActivationLands
  OBVIOUS
<1>1. Dealt(wm) /\ FInv /\ [Next]_vars =>
        [\A x \in Open :
           (wm.pending_activate = x /\ wm'.pending_activate = NULL /\ IsCard(wm, x)) =>
             /\ target_window(wm') = x
             /\ x \notin wm'.minimized
             /\ wm'.focused \in wm'.floating \/ top_window(wm', wm'.focused) = x]_vars
  BY StepLands
<1> QED BY <1>1, DealtAlways, FocusInvariance, PTL DEF Spec, ActivationLands

-----------------------------------------------------------------------------
(***************************************************************************)
(* Outputs and drawing (Screen).                                           *)
(***************************************************************************)

\* Every step of Screen is one of MainDeck, or changes none of its state.
LEMMA ScreenSteps ==
  ASSUME [ScreenNext]_svars
  PROVE  [Next]_vars
<1>1. ASSUME NEW x \in Window, NewWindow(x) \/ Fullscreen(x) \/ Parent(x) \/ OtherEvent(x)
      PROVE  WindowEvent(x)
  <2>1. NewWindow(x) => wm_handle_window(x)
    BY DEF NewWindow
  <2>2. Fullscreen(x) => \/ window_handle_fullscreen_requested(x)
                         \/ window_handle_exit_fullscreen_requested(x)
                         \/ window_handle_minimize_requested(x)
    BY DEF Fullscreen
  <2>3. Parent(x) => \E p \in Pointer : window_handle_parent(x, p)
    BY DEF Parent
  <2>4. OtherEvent(x) => \/ window_handle_closed(x) \/ window_handle_app_id(x)
                         \/ \E t \in Titles[x] : window_handle_title(x, t)
                         \/ window_handle_dimensions_hint(x)
    BY DEF OtherEvent
  <2> QED BY <1>1, <2>1, <2>2, <2>3, <2>4 DEF WindowEvent
<1>2. SeatInput => SeatEvent
  BY DEF SeatInput, SeatEvent
<1>3. OutputEvent => UNCHANGED vars
  BY DEF OutputEvent
<1>4. Unannounced => Next
  BY DEF Unannounced, Next, SeatEvent
<1>5. Dimensions => \E x \in Window : WindowEvent(x)
  BY DEF Dimensions, WindowEvent
<1>6. Manage => ManageSequence
  <2> SUFFICES ASSUME NEW due \in SUBSET (Key \cap HoldAction), manage_start(due)
               PROVE  ManageSequence
    BY DEF Manage
  <2>1. \E moved \in BOOLEAN : wm_handle_manage_start(due, moved)
    BY DEF manage_start
  <2> QED BY <2>1 DEF ManageSequence
<1>7. wm_handle_render_start => UNCHANGED vars
  BY DEF wm_handle_render_start
<1>8. UNCHANGED svars => UNCHANGED vars
  BY DEF svars, vars
<1> QED BY <1>1, <1>2, <1>3, <1>4, <1>5, <1>6, <1>7, <1>8 DEF ScreenNext, Next

\* With its outputs and its render sequence the window manager is still the one
\* of MainDeck: all that is proved of Spec holds of it.
THEOREM ScreenManagesWindows == ScreenSpec => Spec
<1>1. ScreenInit => Init
  BY DEF ScreenInit
<1> QED BY <1>1, ScreenSteps, PTL DEF ScreenSpec, Spec

-----------------------------------------------------------------------------
(* Fullscreen: the memory agrees with the server, and with the signature.  *)

IsScreen(s) ==
  s = [outputs |-> s.outputs, removed |-> s.removed, box |-> s.box,
       fs_output |-> s.fs_output, applied_fullscreen |-> s.applied_fullscreen,
       applied_visible |-> s.applied_visible, last_placed_top |-> s.last_placed_top,
       fresh_sig |-> s.fresh_sig, last_outputs |-> s.last_outputs,
       last_render_sig |-> s.last_render_sig]
IsServer(t) ==
  t = [stack |-> t.stack, hidden |-> t.hidden, proposed |-> t.proposed,
       fullscreen |-> t.fullscreen, place |-> t.place, presentation |-> t.presentation]

ScreenTypes ==
  /\ IsScreen(screen) /\ IsServer(server)
  /\ screen.outputs \in Seq(Output)

\* What the manager remembers to have asked for is what the server has.
MemoryIsTrue ==
  \A x \in Window : server.fullscreen[x] # NULL <=> x \in screen.applied_fullscreen

\* Of the roots that are still there only those are asked to be fullscreen that
\* the layout signed last calls for, and all of them if there was an output then.
SignedIsApplied ==
  last_layout_sig # <<>> =>
    \A x \in Live(wm) \cap Live(last_layout_sig[1]) :
      last_layout_sig[1].parent[x] = NULL =>
        /\ x \in screen.applied_fullscreen =>
             x \in last_layout_sig[1].fullscreen \ last_layout_sig[1].minimized
        /\ screen.last_outputs # <<>> =>
             (screen.last_outputs[2] # <<>> =>
               (x \in last_layout_sig[1].fullscreen \ last_layout_sig[1].minimized =>
                  x \in screen.applied_fullscreen))

\* Outputs only change in what is announced to a manage sequence.
OutputsAreSigned ==
  phase # "announcing" =>
    \/ last_layout_sig = <<>> /\ screen.outputs = <<>>
    \/ /\ last_layout_sig # <<>>
       /\ screen.removed = {} /\ screen.last_outputs = OutputsOf(screen)

SInv == ScreenTypes /\ MemoryIsTrue /\ SignedIsApplied /\ OutputsAreSigned

\* A window does not get the address of one the last manage sequence laid out:
\* those it destroys are not in the layout it signs, but a dialog is destroyed as
\* soon as it is closed, and is in it.
NewAddresses ==
  \A x \in Live(wm') \ Live(wm) :
    last_layout_sig # <<>> => x \notin Live(last_layout_sig[1])

\* No output goes while a window is fullscreen on it.
UsedOutputsStay ==
  \A x \in Window : server.fullscreen[x] \notin screen'.removed \ screen.removed

LEMMA SInvInit == ScreenInit => SInv
<1> SUFFICES ASSUME ScreenInit PROVE SInv
  OBVIOUS
<1>1. ScreenTypes
  BY DEF ScreenInit, ScreenTypes, IsScreen, IsServer
<1>2. MemoryIsTrue
  BY DEF ScreenInit, MemoryIsTrue
<1>3. last_layout_sig = <<>> /\ screen.outputs = <<>>
  BY DEF ScreenInit, Init
<1> QED BY <1>1, <1>2, <1>3 DEF SInv, SignedIsApplied, OutputsAreSigned

\* A record that differs from the memory in nothing that matters here.
AsScreen(s) ==
  /\ IsScreen(s)
  /\ s.outputs = screen.outputs /\ s.removed = screen.removed /\ s.box = screen.box
  /\ s.applied_fullscreen = screen.applied_fullscreen
  /\ s.last_outputs = screen.last_outputs
AsServer(t) == IsServer(t) /\ t.fullscreen = server.fullscreen

LEMMA AsTheyAre ==
  ASSUME ScreenTypes
  PROVE  AsScreen(screen) /\ AsServer(server)
BY DEF ScreenTypes, AsScreen, AsServer

LEMMA TopAway ==
  ASSUME ScreenTypes, NEW top
  PROVE  AsScreen([screen EXCEPT !.last_placed_top = top])
BY DEF ScreenTypes, AsScreen, IsScreen

LEMMA OutputAsked ==
  ASSUME ScreenTypes, NEW x, NEW o
  PROVE  AsScreen([screen EXCEPT !.fs_output[x] = o])
BY DEF ScreenTypes, AsScreen, IsScreen

LEMMA Restacked ==
  ASSUME ScreenTypes, NEW stack
  PROVE  AsServer([server EXCEPT !.stack = stack])
BY DEF ScreenTypes, AsServer, IsServer

LEMMA Forgotten ==
  ASSUME NEW s, IsScreen(s), NEW D
  PROVE  LET f == Forget(s, D) IN
         /\ IsScreen(f) /\ f.applied_fullscreen = s.applied_fullscreen \ D
         /\ f.outputs = s.outputs /\ f.removed = s.removed /\ f.box = s.box
         /\ f.last_outputs = s.last_outputs
<1> DEFINE fs == [x \in Window |-> IF x \in D THEN NULL ELSE s.fs_output[x]]
           top == IF s.last_placed_top \in D THEN NULL ELSE s.last_placed_top
<1>1. Forget(s, D) = [s EXCEPT !.fs_output = fs,
                               !.applied_fullscreen = @ \ D,
                               !.applied_visible = @ \ D,
                               !.last_placed_top = top]
  BY DEF Forget
<1> HIDE DEF fs, top
<1> QED BY <1>1 DEF IsScreen

LEMMA ClosedThere ==
  ASSUME NEW t, IsServer(t), NEW D
  PROVE  LET c == Closed(t, D) IN
         /\ IsServer(c)
         /\ c.fullscreen = [x \in Window |-> IF x \in D THEN NULL ELSE t.fullscreen[x]]
<1> DEFINE stack == SelectSeq(t.stack, LAMBDA x : x \notin D)
           there == [x \in Window |-> IF x \in D THEN NULL ELSE t.fullscreen[x]]
           place == [x \in Window |-> IF x \in D THEN <<>> ELSE t.place[x]]
<1>1. Closed(t, D) = [t EXCEPT !.stack = stack,
                               !.hidden = @ \ D,
                               !.proposed = @ \ D,
                               !.fullscreen = there,
                               !.place = place]
  BY DEF Closed
<1> HIDE DEF stack, there, place
<1>2. IsServer(Closed(t, D)) /\ Closed(t, D).fullscreen = there
  BY <1>1 DEF IsServer
<1> QED BY <1>2 DEF there

\* What is announced leaves the windows that stay as they are.
LEMMA AnnouncedKeeps ==
  ASSUME SInv, Sound(wm), Sound(wm'), NewAddresses, last_layout_sig' = last_layout_sig,
         NEW s, AsScreen(s), NEW t, AsServer(t), Announce(s, t)
  PROVE  SInv'
<1> DEFINE D == Live(wm) \ Live(wm')
<1>1. screen' = Forget(s, D) /\ server' = Closed(t, D) /\ phase' = "announcing"
  BY DEF Announce
<1> HIDE DEF D
<1>2. /\ IsScreen(screen') /\ IsServer(server')
      /\ screen'.applied_fullscreen = screen.applied_fullscreen \ D
      /\ screen'.outputs = screen.outputs /\ screen'.last_outputs = screen.last_outputs
      /\ server'.fullscreen = [x \in Window |-> IF x \in D THEN NULL ELSE server.fullscreen[x]]
  BY <1>1, Forgotten, ClosedThere DEF AsScreen, AsServer
<1>3. ScreenTypes'
  BY <1>2 DEF SInv, ScreenTypes
<1>4. MemoryIsTrue'
  BY <1>2 DEF SInv, MemoryIsTrue
<1>5. SignedIsApplied'
  <2> SUFFICES ASSUME last_layout_sig # <<>>,
                      NEW x \in Live(wm') \cap Live(last_layout_sig[1]),
                      last_layout_sig[1].parent[x] = NULL
               PROVE  /\ x \in screen'.applied_fullscreen =>
                           x \in last_layout_sig[1].fullscreen \ last_layout_sig[1].minimized
                      /\ screen.last_outputs # <<>> =>
                           (screen.last_outputs[2] # <<>> =>
                             (x \in last_layout_sig[1].fullscreen \ last_layout_sig[1].minimized =>
                               x \in screen'.applied_fullscreen))
    BY <1>2 DEF SignedIsApplied
  <2>1. x \in Live(wm)
    BY DEF NewAddresses
  <2>2. x \notin D
    BY DEF D
  <2> QED BY <1>2, <2>1, <2>2 DEF SInv, SignedIsApplied
<1> QED BY <1>1, <1>3, <1>4, <1>5 DEF SInv, OutputsAreSigned


LEMMA OutputsDepend ==
  ASSUME NEW s, NEW r, r.outputs = s.outputs, r.removed = s.removed, r.box = s.box
  PROVE  OutputsOf(r) = OutputsOf(s)
BY DEF OutputsOf, output_box, active_output

\* A step that asks for nothing of what matters here.
LEMMA NothingAsked ==
  ASSUME SInv, NewAddresses, AsScreen(screen'), AsServer(server'),
         last_layout_sig' = last_layout_sig,
         phase' # "announcing" => phase # "announcing"
  PROVE  SInv'
<1>1. (ScreenTypes /\ MemoryIsTrue)'
  BY DEF SInv, ScreenTypes, MemoryIsTrue, AsScreen, AsServer
<1>2. OutputsOf(screen') = OutputsOf(screen)
  BY OutputsDepend DEF AsScreen
<1>3. OutputsAreSigned'
  BY <1>2 DEF SInv, OutputsAreSigned, AsScreen
<1>4. SignedIsApplied'
  BY DEF SInv, SignedIsApplied, NewAddresses, AsScreen
<1> QED BY <1>1, <1>3, <1>4 DEF SInv

\* Events of windows and of the seat.
LEMMA EventKeeps ==
  ASSUME SInv, Sound(wm), Sound(wm'), NewAddresses, last_layout_sig' = last_layout_sig,
         NEW x,
         NewWindow(x) \/ Fullscreen(x) \/ Parent(x) \/ OtherEvent(x) \/ SeatInput
  PROVE  SInv'
<1>0. ScreenTypes
  BY DEF SInv
<1>1. \E s, t : AsScreen(s) /\ AsServer(t) /\ Announce(s, t)
  <2>1. CASE NewWindow(x)
    BY <1>0, <2>1, TopAway, Restacked DEF NewWindow
  <2>2. CASE Fullscreen(x)
    BY <1>0, <2>2, OutputAsked, AsTheyAre DEF Fullscreen
  <2>3. CASE Parent(x)
    BY <1>0, <2>3, TopAway, AsTheyAre DEF Parent
  <2>4. CASE OtherEvent(x) \/ SeatInput
    BY <1>0, <2>4, AsTheyAre DEF OtherEvent, SeatInput
  <2> QED BY <2>1, <2>2, <2>3, <2>4
<1> QED BY <1>1, AnnouncedKeeps

LEMMA RenderKeeps ==
  ASSUME SInv, wm_handle_render_start
  PROVE  SInv'
<1>0. ScreenTypes /\ UNCHANGED vars /\ phase = "rendering"
  BY DEF SInv, wm_handle_render_start
<1> DEFINE sig == IF screen.fresh_sig # <<>> THEN screen.fresh_sig
                  ELSE <<compute_layout_signature(wm), OutputsOf(screen)>>
           drawn == {x \in Live(wm) : IsDrawn(wm, x)}
           there == Range(screen.outputs) \ screen.removed
           presentation == [o \in Output |->
                         IF o \notin there THEN server.presentation[o]
                         ELSE IF fullscreen_window_for_output(screen, wm, o) \in Async
                              THEN "async" ELSE "vsync"]
           presented == [server EXCEPT !.presentation = presentation]
           top == Placed(wm).top
           stack == Placed(wm).stack
           hidden == (presented.hidden \ drawn) \cup (screen.applied_visible \ drawn)
           place == [x \in Window |-> IF x \in drawn /\ Spot(screen, wm, x) # <<>>
                                      THEN Spot(screen, wm, x) ELSE presented.place[x]]
<1>1. /\ \/ screen' = [screen EXCEPT !.fresh_sig = <<>>]
         \/ screen' = [screen EXCEPT !.fresh_sig = <<>>, !.last_render_sig = sig,
                                     !.applied_visible = drawn, !.last_placed_top = top]
      /\ \/ server' = presented
         \/ server' = [presented EXCEPT !.stack = stack, !.hidden = hidden, !.place = place]
  BY DEF wm_handle_render_start
<1> HIDE DEF sig, drawn, presentation, top, stack, hidden, place
<1>2. AsScreen(screen') /\ AsServer(server')
  <2>1. AsScreen(screen')
    BY <1>0, <1>1 DEF ScreenTypes, AsScreen, IsScreen
  <2>2. AsServer(server')
    BY <1>0, <1>1 DEF ScreenTypes, AsServer, IsServer
  <2> QED BY <2>1, <2>2
<1>3. NewAddresses
  BY <1>0 DEF NewAddresses, vars
<1> QED BY <1>0, <1>2, <1>3, NothingAsked DEF vars

LEMMA OutputKeeps ==
  ASSUME SInv, UsedOutputsStay, OutputEvent
  PROVE  SInv'
<1>1. UNCHANGED vars /\ phase' = "announcing" /\ ScreenTypes
  BY DEF SInv, OutputEvent
<1>2. /\ IsScreen(screen') /\ IsServer(server') /\ screen'.outputs \in Seq(Output)
      /\ screen'.applied_fullscreen = screen.applied_fullscreen
      /\ screen'.last_outputs = screen.last_outputs
      /\ \A x \in Window : server'.fullscreen[x] = server.fullscreen[x]
  <2>1. PICK o \in Output :
          \/ screen' = [screen EXCEPT !.outputs = Append(@, o)] /\ UNCHANGED server
          \/ (\E b : screen' = [screen EXCEPT !.box[o] = b]) /\ UNCHANGED server
          \/ /\ o \notin screen.removed
             /\ screen' = [screen EXCEPT !.removed = @ \cup {o}]
             /\ server' = [server EXCEPT
                  !.fullscreen = [x \in Window |-> IF @[x] = o THEN NULL ELSE @[x]],
                  !.place = [x \in Window |-> IF server.fullscreen[x] = o THEN <<>> ELSE @[x]]]
    BY DEF OutputEvent
  <2>2. CASE screen' = [screen EXCEPT !.outputs = Append(@, o)] /\ UNCHANGED server
    <3>1. Append(screen.outputs, o) \in Seq(Output)
      BY <1>1 DEF ScreenTypes
    <3> QED BY <1>1, <2>2, <3>1 DEF ScreenTypes, IsScreen
  <2>3. CASE (\E b : screen' = [screen EXCEPT !.box[o] = b]) /\ UNCHANGED server
    BY <1>1, <2>3 DEF ScreenTypes, IsScreen
  <2>4. ASSUME o \notin screen.removed, screen' = [screen EXCEPT !.removed = @ \cup {o}],
               server' = [server EXCEPT
                  !.fullscreen = [x \in Window |-> IF @[x] = o THEN NULL ELSE @[x]],
                  !.place = [x \in Window |-> IF server.fullscreen[x] = o THEN <<>> ELSE @[x]]]
        PROVE  /\ IsScreen(screen') /\ IsServer(server') /\ screen'.outputs \in Seq(Output)
               /\ screen'.applied_fullscreen = screen.applied_fullscreen
               /\ screen'.last_outputs = screen.last_outputs
               /\ \A x \in Window : server'.fullscreen[x] = server.fullscreen[x]
    <3>1. /\ IsScreen(screen') /\ screen'.outputs = screen.outputs
          /\ screen'.removed = screen.removed \cup {o}
          /\ screen'.applied_fullscreen = screen.applied_fullscreen
          /\ screen'.last_outputs = screen.last_outputs
      BY <1>1, <2>4 DEF ScreenTypes, IsScreen
    <3> DEFINE full == [x \in Window |-> IF server.fullscreen[x] = o THEN NULL
                                         ELSE server.fullscreen[x]]
               place == [x \in Window |-> IF server.fullscreen[x] = o THEN <<>>
                                          ELSE server.place[x]]
    <3>2. server' = [server EXCEPT !.fullscreen = full, !.place = place]
      BY <2>4
    <3>3. \A x \in Window : full[x] = server.fullscreen[x]
      BY <2>4, <3>1 DEF UsedOutputsStay
    <3> HIDE DEF full, place
    <3>4. IsServer(server') /\ server'.fullscreen = full
      BY <1>1, <3>2 DEF ScreenTypes, IsServer
    <3> QED BY <1>1, <3>1, <3>3, <3>4 DEF ScreenTypes
  <2> QED BY <2>1, <2>2, <2>3, <2>4
<1>3. (ScreenTypes /\ MemoryIsTrue)'
  BY <1>2 DEF SInv, ScreenTypes, MemoryIsTrue
<1>4. SignedIsApplied'
  BY <1>1, <1>2 DEF SInv, SignedIsApplied, vars
<1> QED BY <1>1, <1>3, <1>4 DEF SInv, OutputsAreSigned

-----------------------------------------------------------------------------
(* The manage sequence.                                                    *)

LEMMA OutputThere ==
  ASSUME NEW s, s.outputs \in Seq(Output), s.outputs # <<>>, s.removed = {}
  PROVE  active_output(s) # NULL
<1> DEFINE there == {i \in DOMAIN s.outputs : s.outputs[i] \notin s.removed}
           sized == {i \in there : s.box[s.outputs[i]] # 0}
<1>1. Len(s.outputs) \in Nat /\ DOMAIN s.outputs = 1..Len(s.outputs)
  BY LenProperties
<1>2. /\ there \subseteq Nat /\ sized \subseteq Nat
      /\ there \subseteq 1..Len(s.outputs) /\ sized \subseteq 1..Len(s.outputs)
  BY <1>1
<1>3. IsFiniteSet(1..Len(s.outputs))
  BY <1>1, IndexFinite
<1>4. there # {}
  <2>1. Len(s.outputs) # 0
    BY <1>1
  <2> QED BY <1>1, <2>1
<1>5. active_output(s) = IF sized # {} THEN s.outputs[Min(sized)] ELSE s.outputs[Min(there)]
  BY <1>4 DEF active_output
<1>6. \A i \in DOMAIN s.outputs : s.outputs[i] \in Output
  BY <1>1
<1> HIDE DEF sized, there
<1>7. IsFiniteSet(sized) /\ IsFiniteSet(there)
  BY <1>2, <1>3, FS_Subset
<1>8. sized # {} => Min(sized) \in sized
  BY <1>2, <1>7, LeastIndex
<1>9. Min(there) \in there
  BY <1>2, <1>4, <1>7, LeastIndex
<1> QED BY <1>1, <1>2, <1>5, <1>6, <1>8, <1>9, OutputAssumption DEF OutputAssumption

\* Fullscreen is entered and left so that it is as the layout calls for.
LEMMA EdgesApply ==
  ASSUME NEW s, s.outputs \in Seq(Output), s.outputs # <<>>, s.removed = {}, NEW w,
         NEW x \in Roots(w)
  PROVE  x \in (s.applied_fullscreen \cup Entering(s, w)) \ Leaving(s, w)
           <=> x \in w.fullscreen \ w.minimized
<1>1. window_fullscreen_output(s, x) # NULL
  BY OutputThere DEF window_fullscreen_output
<1> QED BY <1>1 DEF Entering, Leaving

LEMMA ManageKeeps ==
  ASSUME SInv, Sound(wm), FInv, NEW due \in SUBSET (Key \cap HoldAction),
         manage_start(due)
  PROVE  SInv'
<1> DEFINE D == wm.closed
           f == Forget(screen, D)
           outputs == Drop(f.outputs, screen.removed)
           box == [o \in Output |-> IF o \in screen.removed THEN 0 ELSE f.box[o]]
           s == [f EXCEPT !.outputs = outputs, !.removed = {}, !.box = box]
           w == Settled(wm, due)
           sig == compute_layout_signature(w)
           laid == OutputsOf(s) # s.last_outputs \/ sig # last_layout_sig
           enter == IF laid THEN Entering(s, w) ELSE {}
           leave == IF laid THEN Leaving(s, w) ELSE {}
           there == Closed(server, D)
           proposed == IF laid THEN there.proposed \cup enter \cup Proposed(w)
                       ELSE there.proposed
           full == [x \in Window |-> IF x \in enter THEN window_fullscreen_output(s, x)
                                     ELSE IF x \in leave THEN NULL ELSE there.fullscreen[x]]
           place == [x \in Window |-> IF x \in leave THEN <<>> ELSE there.place[x]]
           fresh == <<sig, OutputsOf(s)>>
           applied == (s.applied_fullscreen \cup enter) \ leave
           last == OutputsOf(s)
<1>1. /\ wm_handle_manage_start(due, last # s.last_outputs)
      /\ screen' = [s EXCEPT !.applied_fullscreen = applied, !.last_outputs = last,
                             !.fresh_sig = fresh]
      /\ server' = [there EXCEPT !.proposed = proposed, !.fullscreen = full, !.place = place]
      /\ phase' = "rendering"
  BY DEF manage_start
<1>2. last_layout_sig' = sig /\ sig # <<>> /\ sig[1] = LayoutOf(w)
  BY <1>1 DEF wm_handle_manage_start, compute_layout_signature
\* The windows that are left, and the layout that is signed.
<1>3. Live(wm') = Live(w) /\ Live(w) = Live(wm) \ D /\ Live(w) \subseteq Window
  <2>1. AsSettled(w, wm')
    BY <1>1, ManageFocus
  <2>2. wm'.windows = w.windows
    BY <2>1, SignedFocus DEF AsSettled
  <2>3. Sound(w) /\ Live(w) = Live(wm) \ D
    BY SettledSound
  <2> QED BY <2>2, <2>3, LiveWindows DEF Live
<1>4. /\ Live(sig[1]) = Live(w) /\ sig[1].parent = w.parent
      /\ sig[1].fullscreen = w.fullscreen /\ sig[1].minimized = w.minimized
  BY <1>2 DEF LayoutOf, Live
\* The memory and the server.
<1>5. ScreenTypes
  BY DEF SInv
<1>6. /\ IsScreen(f) /\ f.applied_fullscreen = screen.applied_fullscreen \ D
      /\ f.outputs = screen.outputs /\ f.last_outputs = screen.last_outputs
  BY <1>5, Forgotten DEF ScreenTypes
<1>7. /\ IsServer(there)
      /\ \A x \in Window : there.fullscreen[x] = IF x \in D THEN NULL ELSE server.fullscreen[x]
  <2> HIDE DEF D
  <2>1. /\ IsServer(there)
        /\ there.fullscreen = [x \in Window |-> IF x \in D THEN NULL ELSE server.fullscreen[x]]
    BY <1>5, ClosedThere DEF ScreenTypes
  <2> HIDE DEF there
  <2> QED BY <2>1
<1>8. outputs \in Seq(Output)
  BY <1>5, <1>6, DropProperties DEF ScreenTypes
<1> HIDE DEF f, outputs, box, there, proposed
<1>9. /\ IsScreen(s) /\ s.outputs = outputs /\ s.removed = {} /\ s.box = box
      /\ s.applied_fullscreen = screen.applied_fullscreen \ D
      /\ s.last_outputs = screen.last_outputs
  <2>1. s = [f EXCEPT !.outputs = outputs, !.removed = {}, !.box = box]
    OBVIOUS
  <2> HIDE DEF s, D
  <2>2. /\ IsScreen(s) /\ s.outputs = outputs /\ s.removed = {} /\ s.box = box
        /\ s.applied_fullscreen = f.applied_fullscreen /\ s.last_outputs = f.last_outputs
    BY <1>6, <2>1 DEF IsScreen
  <2> QED BY <1>6, <2>2
<1> HIDE DEF s
<1>10. \A x \in Window : x \in enter => window_fullscreen_output(s, x) # NULL
  BY DEF Entering
<1>11. enter \cap leave = {} /\ leave \subseteq s.applied_fullscreen
  BY DEF Entering, Leaving
<1> HIDE DEF w, sig, D, laid, enter, leave, full, place, fresh, applied, last
<1>12. /\ IsScreen(screen') /\ screen'.outputs = outputs /\ screen'.removed = {}
       /\ screen'.box = box /\ screen'.applied_fullscreen = applied
       /\ screen'.last_outputs = last
  BY <1>1, <1>9 DEF IsScreen
<1>13. IsServer(server') /\ server'.fullscreen = full
  BY <1>1, <1>7 DEF IsServer
<1>14. ScreenTypes'
  BY <1>8, <1>12, <1>13 DEF ScreenTypes
<1>15. MemoryIsTrue'
  <2> SUFFICES ASSUME NEW x \in Window
               PROVE  full[x] # NULL <=> x \in applied
    BY <1>12, <1>13 DEF MemoryIsTrue
  <2>1. there.fullscreen[x] # NULL <=> x \in s.applied_fullscreen
    BY <1>7, <1>9 DEF SInv, MemoryIsTrue
  <2>2. full[x] = IF x \in enter THEN window_fullscreen_output(s, x)
                  ELSE IF x \in leave THEN NULL ELSE there.fullscreen[x]
    BY DEF full
  <2>3. x \in applied <=> (x \in s.applied_fullscreen \/ x \in enter) /\ x \notin leave
    BY DEF applied
  <2> QED BY <1>10, <1>11, <2>1, <2>2, <2>3
<1>16. OutputsAreSigned'
  <2>1. OutputsOf(screen') = last
    BY <1>9, <1>12, OutputsDepend DEF last
  <2> QED BY <1>2, <1>12, <2>1 DEF OutputsAreSigned
<1>17. SignedIsApplied'
  <2> SUFFICES ASSUME NEW x \in Live(w), w.parent[x] = NULL
               PROVE  /\ x \in applied => x \in w.fullscreen \ w.minimized
                      /\ last[2] # <<>> => (x \in w.fullscreen \ w.minimized => x \in applied)
    BY <1>2, <1>3, <1>4, <1>12 DEF SignedIsApplied
  <2>1. CASE laid
    <3>1. last[2] # <<>> => outputs # <<>>
      <4>1. last[2] = [i \in DOMAIN outputs |-> <<outputs[i], box[outputs[i]]>>]
        BY <1>9 DEF last, OutputsOf
      <4> QED BY <4>1
    <3>2. x \in Roots(w)
      BY DEF Roots
    <3>3. applied = (s.applied_fullscreen \cup Entering(s, w)) \ Leaving(s, w)
      BY <2>1 DEF applied, enter, leave
    <3>4. x \in applied => x \in w.fullscreen \ w.minimized
      BY <3>2, <3>3 DEF Entering, Leaving
    <3>5. outputs # <<>> => (x \in applied <=> x \in w.fullscreen \ w.minimized)
      BY <1>8, <1>9, <3>2, <3>3, EdgesApply
    <3> QED BY <3>1, <3>4, <3>5
  <2>2. CASE ~laid
    <3>1. last_layout_sig = sig /\ last = screen.last_outputs
      BY <1>9, <2>2 DEF laid, last
    <3>2. last # <<>>
      BY DEF last, OutputsOf
    <3>3. x \in Live(wm) \cap Live(sig[1]) /\ x \notin D
      BY <1>3, <1>4
    <3>4. /\ x \in screen.applied_fullscreen => x \in w.fullscreen \ w.minimized
          /\ last[2] # <<>> => (x \in w.fullscreen \ w.minimized => x \in screen.applied_fullscreen)
      BY <1>2, <1>4, <3>1, <3>2, <3>3 DEF SInv, SignedIsApplied
    <3>5. x \in applied <=> x \in screen.applied_fullscreen
      BY <1>9, <2>2, <3>3 DEF applied, enter, leave
    <3> QED BY <3>4, <3>5
  <2> QED BY <2>1, <2>2
<1> QED BY <1>14, <1>15, <1>16, <1>17 DEF SInv

LEMMA SInvStep ==
  ASSUME IInv, IInv', FInv, SInv, NewAddresses, UsedOutputsStay, [ScreenNext]_svars
  PROVE  SInv'
<1>1. Sound(wm) /\ Sound(wm') /\ [Next]_vars
  BY ScreenSteps DEF IInv
<1>2. ASSUME NEW x,
             NewWindow(x) \/ Fullscreen(x) \/ Parent(x) \/ OtherEvent(x) \/ SeatInput
      PROVE  SInv'
  <2>1. last_layout_sig' = last_layout_sig
    <3>1. ASSUME NEW p, window_handle_parent(x, p)
          PROVE  last_layout_sig' = last_layout_sig
      BY <3>1 DEF window_handle_parent, Event, Handled
    <3>2. ASSUME NEW t, window_handle_title(x, t)
          PROVE  last_layout_sig' = last_layout_sig
      BY <3>2 DEF window_handle_title, Event, Handled
    <3>3. CASE NewWindow(x)
      BY <3>3 DEF NewWindow, wm_handle_window, Event, Handled
    <3>4. CASE Fullscreen(x)
      BY <3>4 DEF Fullscreen, window_handle_fullscreen_requested, Event, Handled,
         window_handle_exit_fullscreen_requested, window_handle_minimize_requested
    <3>5. CASE Parent(x)
      BY <3>1, <3>5 DEF Parent
    <3>6. CASE OtherEvent(x)
      <4>1. window_handle_closed(x) => last_layout_sig' = last_layout_sig
        BY DEF window_handle_closed, Event, Handled
      <4>2. window_handle_app_id(x) => last_layout_sig' = last_layout_sig
        BY DEF window_handle_app_id, Event, Handled
      <4>3. window_handle_dimensions_hint(x) => last_layout_sig' = last_layout_sig
        BY DEF window_handle_dimensions_hint, Event, Handled
      <4> QED BY <3>2, <3>6, <4>1, <4>2, <4>3 DEF OtherEvent
    <3>7. CASE SeatInput
      BY <3>7 DEF SeatInput, xkb_binding_handle, seat_handle_window_interaction,
         layer_shell_seat_handle_focus_none, Event, Handled
    <3> QED BY <1>2, <3>3, <3>4, <3>5, <3>6, <3>7
  <2> QED BY <1>1, <1>2, <2>1, EventKeeps
<1>3. CASE OutputEvent
  BY <1>3, OutputKeeps
<1>4. CASE Unannounced \/ Dimensions
  <2>1. last_layout_sig' = last_layout_sig
    <3>1. CASE Unannounced
      BY <3>1 DEF Unannounced, ipc_handle_message, hold_timeout, Handled
    <3>2. CASE Dimensions
      BY <3>2 DEF Dimensions, window_handle_dimensions, Handled
    <3> QED BY <1>4, <3>1, <3>2
  <2>2. AsScreen(screen') /\ AsServer(server') /\ (phase' # "announcing" => phase # "announcing")
    BY <1>4, AsTheyAre DEF Unannounced, Dimensions, SInv
  <2> QED BY <2>1, <2>2, NothingAsked
<1>5. ASSUME NEW due \in SUBSET (Key \cap HoldAction), manage_start(due)
      PROVE  SInv'
  BY <1>1, <1>5, ManageKeeps
<1>6. CASE wm_handle_render_start
  BY <1>6, RenderKeeps
<1>7. CASE UNCHANGED svars
  <2>1. AsScreen(screen') /\ AsServer(server') /\ (phase' # "announcing" => phase # "announcing")
    BY <1>7, AsTheyAre DEF svars, SInv
  <2> QED BY <1>7, <2>1, NothingAsked DEF svars
<1> QED BY <1>2, <1>3, <1>4, <1>5, <1>6, <1>7 DEF ScreenNext, Manage

LEMMA SInvHolds == ScreenSpec /\ [][NewAddresses /\ UsedOutputsStay]_svars => []SInv
<1>1. ScreenInit => SInv
  BY SInvInit
<1>2. IInv /\ IInv' /\ FInv /\ SInv /\ [ScreenNext]_svars
        /\ [NewAddresses /\ UsedOutputsStay]_svars => SInv'
  <2> SUFFICES ASSUME IInv, IInv', FInv, SInv, [ScreenNext]_svars,
                      [NewAddresses /\ UsedOutputsStay]_svars
               PROVE  SInv'
    OBVIOUS
  <2>1. UNCHANGED svars => NewAddresses /\ UsedOutputsStay
    BY DEF svars, NewAddresses, UsedOutputsStay
  <2> QED BY <2>1, SInvStep
<1>3. ScreenSpec => []IInv /\ []FInv
  BY ScreenManagesWindows, Invariance, FocusInvariance
<1> QED BY <1>1, <1>2, <1>3, PTL DEF ScreenSpec

\* Once nothing is announced, owed or being drawn, the server has fullscreen
\* exactly the roots that are to be, although the requests are only sent on the
\* edge, from a memory of what was asked, and only when the signature changed:
\* provided that no output goes under a fullscreen window, and that no window
\* comes at the address of a dialog that went in the same batch.
THEOREM FullscreenIsApplied ==
  ScreenSpec /\ [][NewAddresses /\ UsedOutputsStay]_svars => []FullscreenMatches
<1>1. SInv /\ IInv /\ FInv => FullscreenMatches
  <2> SUFFICES ASSUME SInv, IInv, FInv, ~Settling, active_output(screen) # NULL,
                      NEW x \in Roots(wm)
               PROVE  server.fullscreen[x] # NULL <=> x \in wm.fullscreen \ wm.minimized
    BY DEF FullscreenMatches
  <2>1. screen.outputs # <<>>
    BY DEF active_output
  <2>2. /\ last_layout_sig # <<>>
        /\ screen.last_outputs = OutputsOf(screen)
    BY <2>1 DEF SInv, OutputsAreSigned, Settling
  <2>3. screen.last_outputs # <<>> /\ screen.last_outputs[2] # <<>>
    <3>1. screen.last_outputs[2]
            = [i \in DOMAIN screen.outputs |-> <<screen.outputs[i], screen.box[screen.outputs[i]]>>]
      BY <2>2 DEF OutputsOf
    <3>2. screen.last_outputs # <<>>
      BY <2>2 DEF OutputsOf
    <3> QED BY <2>1, <3>1, <3>2 DEF SInv, ScreenTypes
  <2>4. last_layout_sig[1] = LayoutOf(wm)
    BY <2>2 DEF FInv, NoLostWakeup, Settling
  <2>5. /\ Live(last_layout_sig[1]) = Live(wm)
        /\ last_layout_sig[1].parent = wm.parent
        /\ last_layout_sig[1].fullscreen = wm.fullscreen
        /\ last_layout_sig[1].minimized = wm.minimized
    BY <2>4 DEF LayoutOf, Live
  <2>6. x \in Live(wm) /\ wm.parent[x] = NULL /\ x \in Window
    BY LiveWindows DEF Roots, IInv
  <2>7. x \in screen.applied_fullscreen <=> x \in wm.fullscreen \ wm.minimized
    BY <2>2, <2>3, <2>5, <2>6 DEF SInv, SignedIsApplied
  <2> QED BY <2>6, <2>7 DEF SInv, MemoryIsTrue
<1>2. ScreenSpec => []IInv /\ []FInv
  BY ScreenManagesWindows, Invariance, FocusInvariance
<1> QED BY <1>1, <1>2, SInvHolds, PTL

-----------------------------------------------------------------------------
(* Drawing: what is shown is what was drawn, and that is the layout.       *)

\* Where the layout w has a window, in the area b.
BoxIn(b, w, x) ==
  <<b, IF single(w) THEN "whole" ELSE IF x = Shown(w)[1] THEN "MAIN" ELSE "DECK">>

\* Two layouts have the same windows, dialogs and fullscreen windows.
SameRoots(w, l) ==
  /\ Live(w) = Live(l) /\ w.parent = l.parent
  /\ w.fullscreen = l.fullscreen /\ w.minimized = l.minimized

\* Between the announcements to two manage sequences no window comes or goes and
\* none changes its role.
InStep ==
  phase # "announcing" =>
    IF last_layout_sig = <<>> THEN Live(wm) = {} /\ phase = "idle"
    ELSE SameRoots(wm, last_layout_sig[1])

\* What is drawn next is the layout that the manage sequence left, ...
FreshIsCurrent ==
  screen.fresh_sig # <<>> =>
    /\ phase = "rendering" /\ last_layout_sig # <<>>
    /\ screen.fresh_sig[1][1] = LayoutOf(wm)
    /\ screen.fresh_sig[2] = OutputsOf(screen)

\* ... and what was drawn last has the windows of the last manage sequence, ...
DrawnInStep ==
  IF last_layout_sig = <<>> THEN screen.last_render_sig = <<>>
  ELSE screen.fresh_sig = <<>> =>
         /\ screen.last_render_sig # <<>>
         /\ SameRoots(screen.last_render_sig[1][1], last_layout_sig[1])

\* ... and is the layout as it is unless that has changed since.
DrawnIsCurrent ==
  phase = "idle" /\ last_layout_sig # <<>> =>
    /\ screen.last_render_sig[2] = OutputsOf(screen)
    /\ ~wm.manage_dirty => screen.last_render_sig[1][1] = LayoutOf(wm)

\* The sizes of dialogs on screen are those that were signed.
Sized(sizes) ==
  \A x \in Live(wm) :
    wm.parent[x] # NULL /\ window_is_really_visible(wm, x) => <<x, wm.size[x]>> \in sizes
SizesAreSigned ==
  ~wm.manage_dirty =>
    /\ phase = "idle" /\ last_layout_sig # <<>> => Sized(screen.last_render_sig[1][2])
    /\ screen.fresh_sig # <<>> => Sized(screen.fresh_sig[1][2])

\* Every window is shown or hidden as the layout drawn last has it.
ShownAsDrawn ==
  screen.last_render_sig # <<>> =>
    \A x \in Live(wm) \cap Live(screen.last_render_sig[1][1]) :
      /\ x \in screen.applied_visible <=> IsDrawn(screen.last_render_sig[1][1], x)
      /\ x \in screen.applied_visible => x \notin server.hidden

\* and stands where it has it, dialogs while their size is the signed one, unless
\* another drawing is due.
PlacedIn(L, sizes, box) ==
  \A x \in Live(wm) \cap Live(L) :
    IsDrawn(L, x) /\ x \notin L.floating \cup L.fullscreen =>
      IF L.parent[x] = NULL THEN server.place[x] = BoxIn(box, L, x)
      ELSE <<x, wm.size[x]>> \in sizes =>
             server.place[x] = <<BoxIn(box, L, root_window(L, x)), wm.size[x]>>
PlacedAsDrawn ==
  screen.last_render_sig # <<>> /\ screen.fresh_sig \in {<<>>, screen.last_render_sig} =>
    PlacedIn(screen.last_render_sig[1][1], screen.last_render_sig[1][2],
             screen.last_render_sig[2][1])

LInv ==
  /\ InStep /\ FreshIsCurrent /\ DrawnInStep /\ DrawnIsCurrent
  /\ SizesAreSigned /\ ShownAsDrawn /\ PlacedAsDrawn

\* A window that is drawn does not take back the size it had when the last
\* drawing was signed.
NewSizes ==
  screen.last_render_sig # <<>> =>
    \A x \in screen.applied_visible \cap Live(wm') :
      wm'.size[x] # wm.size[x] => <<x, wm'.size[x]>> \notin screen.last_render_sig[1][2]

\* The layout does not change between a manage sequence and its drawing.
Undisturbed == screen.fresh_sig # <<>> => LayoutOf(wm') = LayoutOf(wm)

\* Drawing reads of the windows only what is signed.
LEMMA LayoutDepends ==
  ASSUME NEW w, NEW v, LayoutOf(v) = LayoutOf(w)
  PROVE  /\ v.windows = w.windows /\ v.parent = w.parent
         /\ v.fullscreen = w.fullscreen /\ v.minimized = w.minimized
         /\ v.floating = w.floating
         /\ \A x : root_window(v, x) = root_window(w, x)
         /\ \A x : window_is_really_visible(v, x) = window_is_really_visible(w, x)
         /\ \A x : IsDrawn(v, x) = IsDrawn(w, x)
         /\ \A b, x : BoxIn(b, v, x) = BoxIn(b, w, x)
<1>1. /\ v.windows = w.windows /\ v.parent = w.parent
      /\ v.fullscreen = w.fullscreen /\ v.minimized = w.minimized
      /\ v.floating = w.floating
      /\ v.target_index = w.target_index /\ v.maximized = w.maximized
  BY DEF LayoutOf
<1>2. Cards(v) = Cards(w) /\ Shown(v) = Shown(w)
  BY <1>1 DEF Cards, Shown, IsShown, IsCard
<1>3. target_window(v) = target_window(w)
  BY <1>1, <1>2 DEF target_window, visible_window_count, window_at, window_count
<1>4. \A x : Lineage(v, x) = Lineage(w, x)
  BY <1>1, SameLineage
<1>5. single(v) = single(w) /\ MainAndDeck(v) = MainAndDeck(w)
  BY <1>1, <1>2 DEF single, MainAndDeck, visible_window_count
<1>6. \A x : root_window(v, x) = root_window(w, x) /\ top_window(v, x) = top_window(w, x)
  BY <1>4 DEF root_window, top_window
<1>7. \A x : window_is_really_visible(v, x) = window_is_really_visible(w, x)
  BY <1>1, <1>3, <1>4, <1>5, <1>6 DEF window_is_really_visible
<1>8. \A x : IsDrawn(v, x) = IsDrawn(w, x)
  BY <1>1, <1>3, <1>5, <1>7 DEF IsDrawn
<1>9. \A b, x : BoxIn(b, v, x) = BoxIn(b, w, x)
  BY <1>2, <1>5 DEF BoxIn
<1> QED BY <1>1, <1>6, <1>7, <1>8, <1>9

LEMMA LayoutTwice ==
  ASSUME NEW w
  PROVE  LayoutOf(LayoutOf(w)) = LayoutOf(w) /\ Live(LayoutOf(w)) = Live(w)
BY DEF LayoutOf, Live

\* As long as nothing is drawn it is enough that nothing that is shown is touched.
LEMMA DrawingKept ==
  ASSUME ShownAsDrawn, PlacedAsDrawn, NewSizes,
         screen'.last_render_sig = screen.last_render_sig,
         screen'.fresh_sig \in {<<>>, screen.last_render_sig}
           => screen.fresh_sig \in {<<>>, screen.last_render_sig},
         screen.last_render_sig # <<>> =>
           LET L == screen.last_render_sig[1][1] IN
           \A x \in Live(wm') \cap Live(L) :
             /\ x \in Live(wm)
             /\ x \in screen'.applied_visible <=> x \in screen.applied_visible
             /\ x \in server'.hidden => x \in server.hidden
             /\ screen'.fresh_sig \in {<<>>, screen.last_render_sig} =>
                  server'.place[x] = server.place[x]
  PROVE  ShownAsDrawn' /\ PlacedAsDrawn'
<1> DEFINE R == screen.last_render_sig
           L == R[1][1]
           sizes == R[1][2]
           box == R[2][1]
<1> SUFFICES ASSUME R # <<>> PROVE ShownAsDrawn' /\ PlacedAsDrawn'
  BY DEF ShownAsDrawn, PlacedAsDrawn
<1>1. \A x \in Live(wm) \cap Live(L) :
        /\ x \in screen.applied_visible <=> IsDrawn(L, x)
        /\ x \in screen.applied_visible => x \notin server.hidden
  BY DEF ShownAsDrawn
<1>2. ShownAsDrawn'
  BY <1>1 DEF ShownAsDrawn
<1>3. PlacedAsDrawn'
  <2> SUFFICES ASSUME screen'.fresh_sig \in {<<>>, R},
                      NEW x \in Live(wm') \cap Live(L),
                      IsDrawn(L, x), x \notin L.floating \cup L.fullscreen
               PROVE  IF L.parent[x] = NULL THEN server'.place[x] = BoxIn(box, L, x)
                      ELSE <<x, wm'.size[x]>> \in sizes =>
                             server'.place[x] = <<BoxIn(box, L, root_window(L, x)), wm'.size[x]>>
    BY DEF PlacedAsDrawn, PlacedIn
  <2>1. /\ x \in Live(wm) /\ screen.fresh_sig \in {<<>>, R}
        /\ server'.place[x] = server.place[x]
    OBVIOUS
  <2>2. IF L.parent[x] = NULL THEN server.place[x] = BoxIn(box, L, x)
        ELSE <<x, wm.size[x]>> \in sizes =>
               server.place[x] = <<BoxIn(box, L, root_window(L, x)), wm.size[x]>>
    BY <2>1 DEF PlacedAsDrawn, PlacedIn
  <2>3. x \in screen.applied_visible
    BY <1>1, <2>1
  <2>4. <<x, wm'.size[x]>> \in sizes => wm'.size[x] = wm.size[x]
    BY <2>3 DEF NewSizes
  <2> QED BY <2>1, <2>2, <2>4
<1> QED BY <1>2, <1>3

\* Records that differ from the memory and the server in nothing that is drawn.
SameDrawing(s) ==
  /\ IsScreen(s)
  /\ s.fresh_sig = screen.fresh_sig /\ s.last_render_sig = screen.last_render_sig
  /\ s.applied_visible = screen.applied_visible
SamePlaces(t) == IsServer(t) /\ t.hidden = server.hidden /\ t.place = server.place

LEMMA ForgottenDrawing ==
  ASSUME NEW s, IsScreen(s), NEW D
  PROVE  LET f == Forget(s, D) IN
         /\ f.fresh_sig = s.fresh_sig /\ f.last_render_sig = s.last_render_sig
         /\ f.applied_visible = s.applied_visible \ D
<1> DEFINE fs == [x \in Window |-> IF x \in D THEN NULL ELSE s.fs_output[x]]
           top == IF s.last_placed_top \in D THEN NULL ELSE s.last_placed_top
<1>1. Forget(s, D) = [s EXCEPT !.fs_output = fs,
                               !.applied_fullscreen = @ \ D,
                               !.applied_visible = @ \ D,
                               !.last_placed_top = top]
  BY DEF Forget
<1> HIDE DEF fs, top
<1> QED BY <1>1 DEF IsScreen

LEMMA ClosedPlaces ==
  ASSUME NEW t, IsServer(t), NEW D
  PROVE  LET c == Closed(t, D) IN
         /\ c.hidden = t.hidden \ D
         /\ c.place = [x \in Window |-> IF x \in D THEN <<>> ELSE t.place[x]]
<1> DEFINE stack == SelectSeq(t.stack, LAMBDA x : x \notin D)
           there == [x \in Window |-> IF x \in D THEN NULL ELSE t.fullscreen[x]]
           place == [x \in Window |-> IF x \in D THEN <<>> ELSE t.place[x]]
<1>1. Closed(t, D) = [t EXCEPT !.stack = stack,
                               !.hidden = @ \ D,
                               !.proposed = @ \ D,
                               !.fullscreen = there,
                               !.place = place]
  BY DEF Closed
<1> HIDE DEF stack, there, place
<1>2. Closed(t, D).hidden = t.hidden \ D /\ Closed(t, D).place = place
  BY <1>1 DEF IsServer
<1> QED BY <1>2 DEF place

LEMMA AnnouncedDraws ==
  ASSUME LInv, Sound(wm), Sound(wm'), NewAddresses, NewSizes,
         last_layout_sig' = last_layout_sig,
         NEW s, SameDrawing(s), NEW t, SamePlaces(t), Announce(s, t)
  PROVE  LInv'
<1> DEFINE D == Live(wm) \ Live(wm')
<1>1. /\ screen' = Forget(s, D) /\ server' = Closed(t, D)
      /\ phase # "rendering" /\ phase' = "announcing"
  BY DEF Announce
<1>2. screen.fresh_sig = <<>>
  BY <1>1 DEF LInv, FreshIsCurrent
<1> HIDE DEF D
<1>3. /\ screen'.fresh_sig = <<>> /\ screen'.last_render_sig = screen.last_render_sig
      /\ screen'.applied_visible = screen.applied_visible \ D
  BY <1>1, <1>2, ForgottenDrawing DEF SameDrawing
<1>4. /\ server'.hidden = server.hidden \ D
      /\ server'.place = [x \in Window |-> IF x \in D THEN <<>> ELSE server.place[x]]
  BY <1>1, ClosedPlaces DEF SamePlaces
<1>5. (InStep /\ FreshIsCurrent /\ DrawnIsCurrent /\ SizesAreSigned)'
  BY <1>1, <1>3 DEF InStep, FreshIsCurrent, DrawnIsCurrent, SizesAreSigned
<1>6. DrawnInStep'
  BY <1>2, <1>3 DEF LInv, DrawnInStep
<1>7. ASSUME screen.last_render_sig # <<>>,
             NEW x \in Live(wm') \cap Live(screen.last_render_sig[1][1])
      PROVE  x \in Live(wm) /\ x \notin D /\ x \in Window
  <2>1. Live(screen.last_render_sig[1][1]) = Live(last_layout_sig[1]) /\ last_layout_sig # <<>>
    BY <1>2, <1>7 DEF LInv, DrawnInStep, SameRoots
  <2>2. x \in Live(wm)
    BY <1>7, <2>1 DEF NewAddresses
  <2> QED BY <2>2, LiveWindows DEF D
<1>8. (ShownAsDrawn /\ PlacedAsDrawn)'
  <2>1. ASSUME screen.last_render_sig # <<>>,
               NEW x \in Live(wm') \cap Live(screen.last_render_sig[1][1])
        PROVE  /\ x \in Live(wm)
               /\ x \in screen'.applied_visible <=> x \in screen.applied_visible
               /\ x \in server'.hidden => x \in server.hidden
               /\ server'.place[x] = server.place[x]
    BY <1>3, <1>4, <1>7, <2>1
  <2> QED BY <1>2, <1>3, <2>1, DrawingKept DEF LInv
<1> QED BY <1>5, <1>6, <1>8 DEF LInv

\* Events of windows and of the seat.
LEMMA EventDraws ==
  ASSUME LInv, ScreenTypes, Sound(wm), Sound(wm'), NewAddresses, NewSizes,
         last_layout_sig' = last_layout_sig,
         NEW x,
         NewWindow(x) \/ Fullscreen(x) \/ Parent(x) \/ OtherEvent(x) \/ SeatInput
  PROVE  LInv'
<1>0. /\ SameDrawing(screen) /\ SamePlaces(server)
      /\ \A top : SameDrawing([screen EXCEPT !.last_placed_top = top])
      /\ \A y, o : SameDrawing([screen EXCEPT !.fs_output[y] = o])
      /\ \A stack : SamePlaces([server EXCEPT !.stack = stack])
  BY DEF ScreenTypes, SameDrawing, SamePlaces, IsScreen, IsServer
<1>1. \E s, t : SameDrawing(s) /\ SamePlaces(t) /\ Announce(s, t)
  <2>1. CASE NewWindow(x)
    BY <1>0, <2>1 DEF NewWindow
  <2>2. CASE Fullscreen(x)
    BY <1>0, <2>2 DEF Fullscreen
  <2>3. CASE Parent(x)
    BY <1>0, <2>3 DEF Parent
  <2>4. CASE OtherEvent(x) \/ SeatInput
    BY <1>0, <2>4 DEF OtherEvent, SeatInput
  <2> QED BY <2>1, <2>2, <2>3, <2>4
<1> QED BY <1>1, AnnouncedDraws

LEMMA OutputDraws ==
  ASSUME LInv, SInv, Sound(wm), UsedOutputsStay, NewSizes, OutputEvent
  PROVE  LInv'
<1>1. /\ UNCHANGED vars /\ phase # "rendering" /\ phase' = "announcing" /\ ScreenTypes
  BY DEF SInv, OutputEvent
<1>2. /\ screen'.fresh_sig = screen.fresh_sig
      /\ screen'.last_render_sig = screen.last_render_sig
      /\ screen'.applied_visible = screen.applied_visible
      /\ server'.hidden = server.hidden
      /\ \A x \in Window : server'.place[x] = server.place[x]
  <2>1. PICK o \in Output :
          \/ screen' = [screen EXCEPT !.outputs = Append(@, o)] /\ UNCHANGED server
          \/ (\E b : screen' = [screen EXCEPT !.box[o] = b]) /\ UNCHANGED server
          \/ /\ o \notin screen.removed
             /\ screen' = [screen EXCEPT !.removed = @ \cup {o}]
             /\ server' = [server EXCEPT
                  !.fullscreen = [x \in Window |-> IF @[x] = o THEN NULL ELSE @[x]],
                  !.place = [x \in Window |-> IF server.fullscreen[x] = o THEN <<>> ELSE @[x]]]
    BY DEF OutputEvent
  <2>2. CASE screen' = [screen EXCEPT !.outputs = Append(@, o)] /\ UNCHANGED server
    BY <1>1, <2>2 DEF ScreenTypes, IsScreen
  <2>3. CASE (\E b : screen' = [screen EXCEPT !.box[o] = b]) /\ UNCHANGED server
    BY <1>1, <2>3 DEF ScreenTypes, IsScreen
  <2>4. ASSUME o \notin screen.removed, screen' = [screen EXCEPT !.removed = @ \cup {o}],
               server' = [server EXCEPT
                  !.fullscreen = [x \in Window |-> IF @[x] = o THEN NULL ELSE @[x]],
                  !.place = [x \in Window |-> IF server.fullscreen[x] = o THEN <<>> ELSE @[x]]]
        PROVE  /\ screen'.fresh_sig = screen.fresh_sig
               /\ screen'.last_render_sig = screen.last_render_sig
               /\ screen'.applied_visible = screen.applied_visible
               /\ server'.hidden = server.hidden
               /\ \A x \in Window : server'.place[x] = server.place[x]
    <3>1. /\ screen'.removed = screen.removed \cup {o}
          /\ screen'.fresh_sig = screen.fresh_sig
          /\ screen'.last_render_sig = screen.last_render_sig
          /\ screen'.applied_visible = screen.applied_visible
      BY <1>1, <2>4 DEF ScreenTypes, IsScreen
    <3> DEFINE full == [x \in Window |-> IF server.fullscreen[x] = o THEN NULL
                                         ELSE server.fullscreen[x]]
               place == [x \in Window |-> IF server.fullscreen[x] = o THEN <<>>
                                          ELSE server.place[x]]
    <3>2. server' = [server EXCEPT !.fullscreen = full, !.place = place]
      BY <2>4
    <3>3. \A x \in Window : place[x] = server.place[x]
      BY <2>4, <3>1 DEF UsedOutputsStay
    <3> HIDE DEF full, place
    <3>4. server'.hidden = server.hidden /\ server'.place = place
      BY <1>1, <3>2 DEF ScreenTypes, IsServer
    <3> QED BY <3>1, <3>3, <3>4
  <2> QED BY <2>1, <2>2, <2>3, <2>4
<1>3. screen.fresh_sig = <<>>
  BY <1>1 DEF LInv, FreshIsCurrent
<1>4. (InStep /\ FreshIsCurrent /\ DrawnIsCurrent /\ SizesAreSigned)'
  BY <1>1, <1>2, <1>3 DEF InStep, FreshIsCurrent, DrawnIsCurrent, SizesAreSigned
<1>5. DrawnInStep'
  BY <1>1, <1>2 DEF LInv, DrawnInStep, vars
<1>6. (ShownAsDrawn /\ PlacedAsDrawn)'
  <2>1. wm' = wm /\ Live(wm) \subseteq Window
    BY <1>1, LiveWindows DEF vars
  <2> QED BY <1>2, <2>1, DrawingKept DEF LInv
<1> QED BY <1>4, <1>5, <1>6 DEF LInv

\* What neither the bar nor a size changes.
SameRoles(w, v) ==
  /\ SameWindows(w, v) /\ v.parent = w.parent
  /\ v.fullscreen = w.fullscreen /\ v.minimized = w.minimized

LEMMA SameRolesTrans ==
  ASSUME NEW u, NEW v, NEW w, SameRoles(u, v), SameRoles(v, w)
  PROVE  SameRoles(u, w)
BY DEF SameRoles, SameWindows

LEMMA UnannouncedFields ==
  ASSUME Sound(wm), Unannounced
  PROVE  SameRoles(wm, wm') /\ wm'.manage_dirty /\ UNCHANGED last_layout_sig
<1>1. ASSUME NEW x \in Window, ipc_handle_message(x)
      PROVE  SameRoles(wm, wm') /\ wm'.manage_dirty /\ UNCHANGED last_layout_sig
  <2> DEFINE v == [wm EXCEPT !.pending_activate = x, !.manage_dirty = TRUE]
  <2>1. wm' = v /\ UNCHANGED last_layout_sig
    BY <1>1 DEF ipc_handle_message, Handled
  <2>2. /\ v \in WMState /\ v.windows = wm.windows /\ v.parent = wm.parent
        /\ v.focused = wm.focused /\ v.interacted = wm.interacted
        /\ v.pending_float_focus = wm.pending_float_focus
        /\ v.fullscreen = wm.fullscreen /\ v.minimized = wm.minimized
        /\ v.manage_dirty
    BY DEF Sound, WMState, Pointer
  <2> HIDE DEF v
  <2> QED BY <2>1, <2>2, SamePointers DEF SameRoles
<1>2. ASSUME NEW due \in SUBSET (Key \cap HoldAction), hold_timeout(due)
      PROVE  SameRoles(wm, wm') /\ wm'.manage_dirty /\ UNCHANGED last_layout_sig
  <2>1. wm' = process_hold_timers(wm, due) /\ UNCHANGED last_layout_sig
    BY <1>2 DEF hold_timeout, Handled
  <2>2. SameWindows(wm, process_hold_timers(wm, due)) /\ Aimed(wm, process_hold_timers(wm, due))
    BY ProcessHoldTimers, AimedHold
  <2>3. process_hold_timers(wm, due).manage_dirty
    BY <1>2, HoldsAsk DEF hold_timeout
  <2> QED BY <2>1, <2>2, <2>3 DEF SameRoles, Aimed
<1> QED BY <1>1, <1>2 DEF Unannounced

\* A new size that asks for no manage sequence changes that size only, and it is
\* not of a dialog on screen.
LEMMA DimensionsFields ==
  ASSUME Sound(wm), NEW x \in Window, NEW s \in Size, NEW reply,
         window_handle_dimensions(x, s, reply)
  PROVE  /\ SameRoles(wm, wm')
         /\ ~wm'.manage_dirty =>
              /\ wm'.size = [wm.size EXCEPT ![x] = s]
              /\ ~(wm.parent[x] # NULL /\ window_is_really_visible(wm, x))
<1> DEFINE sizes == [wm.size EXCEPT ![x] = s]
           sized == [wm EXCEPT !.size[x] = s]
           judged == IsShown(wm, x) /\ x \notin wm.fullscreen /\ wm.tile[x] = "proposed"
           kept == [sized EXCEPT !.tile[x] = "settled"]
           floated == window_designate_floating(sized, x, FALSE)
           tiled == IF judged /\ reply = "match" THEN kept
                    ELSE IF judged /\ reply = "mismatch" THEN floated
                    ELSE sized
           visible == wm.parent[x] # NULL /\ window_is_really_visible(wm, x)
           shown == IF visible THEN [tiled EXCEPT !.manage_dirty = TRUE] ELSE tiled
           taking == [shown EXCEPT !.pending_float_focus = x, !.manage_dirty = TRUE]
<1>1. x \in Live(wm) /\ (wm' = shown \/ wm' = taking)
  BY DEF window_handle_dimensions, Handled, Open
<1>2. SameRoles(wm, sized) /\ sized.size = sizes
  <2>1. /\ sized \in WMState /\ sized.windows = wm.windows /\ sized.parent = wm.parent
        /\ sized.focused = wm.focused /\ sized.interacted = wm.interacted
        /\ sized.pending_float_focus = wm.pending_float_focus
        /\ sized.fullscreen = wm.fullscreen /\ sized.minimized = wm.minimized
        /\ sized.size = sizes
    BY DEF Sound, WMState
  <2> HIDE DEF sized, sizes
  <2> QED BY <2>1, SamePointers DEF SameRoles
<1> HIDE DEF sized, sizes
<1>3. SameRoles(sized, kept) /\ kept.size = sizes
  <2>1. /\ kept \in WMState /\ kept.windows = sized.windows /\ kept.parent = sized.parent
        /\ kept.focused = sized.focused /\ kept.interacted = sized.interacted
        /\ kept.pending_float_focus = sized.pending_float_focus
        /\ kept.fullscreen = sized.fullscreen /\ kept.minimized = sized.minimized
        /\ kept.size = sized.size
    BY <1>2 DEF Sound, SameRoles, SameWindows, WMState, TileReply
  <2> HIDE DEF kept
  <2> QED BY <1>2, <2>1, SamePointers DEF SameRoles, SameWindows
<1>4. SameRoles(sized, floated) /\ (floated.manage_dirty \/ floated = sized)
  <2>1. Sound(sized) /\ x \in Live(sized)
    BY <1>1, <1>2 DEF SameRoles, SameWindows
  <2>2. /\ SameWindows(sized, floated) /\ Steady(sized, floated)
        /\ floated.manage_dirty \/ floated = sized
    BY <2>1, DesignateFloating, SteadyDesignate
  <2>3. floated.parent = sized.parent
    <3> DEFINE u == move_last(sized, x)
               v == [u EXCEPT !.floating = @ \cup {x}, !.autofloat = @ \cup {x},
                              !.manage_dirty = TRUE]
               w == [u EXCEPT !.floating = @ \cup {x}, !.autofloat = @ \cup {x},
                              !.pending_float_focus = @, !.manage_dirty = TRUE]
    <3>1. floated = w \/ floated = sized
      BY DEF window_designate_floating
    <3>2. Sound(u) /\ Aimed(sized, u)
      BY <2>1, MoveLast, AimedMoves DEF SameWindows
    <3> HIDE DEF u, floated
    <3>3. w.parent = u.parent
      BY <3>2 DEF Sound, WMState
    <3> QED BY <3>1, <3>2, <3>3 DEF Aimed
  <2> QED BY <2>2, <2>3 DEF SameRoles, Steady
<1> HIDE DEF kept, floated, judged, visible
<1>5. SameRoles(wm, tiled) /\ (~tiled.manage_dirty => tiled.size = sizes)
  BY <1>2, <1>3, <1>4, SameRolesTrans
<1> HIDE DEF tiled
<1>6. SameRoles(wm, shown) /\ (~shown.manage_dirty => shown.size = sizes /\ ~visible)
  <2> DEFINE d == [tiled EXCEPT !.manage_dirty = TRUE]
  <2>1. Sound(tiled)
    BY <1>5 DEF SameRoles, SameWindows
  <2>2. SameWindows(tiled, d) /\ Aimed(tiled, d) /\ d.manage_dirty
    BY <2>1, FocusDirtied, AimedBy DEF Sound, WMState
  <2>3. SameRoles(tiled, d)
    BY <2>2 DEF SameRoles, Aimed
  <2> HIDE DEF d
  <2>4. SameRoles(wm, d)
    BY <1>5, <2>3, SameRolesTrans
  <2>5. shown = IF visible THEN d ELSE tiled
    BY DEF d
  <2> QED BY <1>5, <2>2, <2>4, <2>5
<1> HIDE DEF shown
<1>7. SameRoles(shown, taking) /\ taking.manage_dirty
  <2>1. Sound(shown) /\ x \in Live(shown)
    BY <1>1, <1>6 DEF SameRoles, SameWindows
  <2>2. /\ taking \in WMState /\ taking.windows = shown.windows /\ taking.parent = shown.parent
        /\ taking.focused = shown.focused /\ taking.interacted = shown.interacted
        /\ taking.pending_float_focus = x
        /\ taking.fullscreen = shown.fullscreen /\ taking.minimized = shown.minimized
        /\ taking.manage_dirty
    BY <2>1 DEF Sound, WMState, Pointer
  <2> HIDE DEF taking
  <2> QED BY <2>1, <2>2, LivePointers DEF Sound, SameRoles
<1> HIDE DEF taking
<1>8. SameRoles(wm, taking)
  BY <1>6, <1>7, SameRolesTrans
<1> QED BY <1>1, <1>6, <1>7, <1>8 DEF sizes, visible

LEMMA UnannouncedDraws ==
  ASSUME LInv, Sound(wm), NewSizes, Undisturbed, Unannounced
  PROVE  LInv'
<1>1. /\ Live(wm') = Live(wm) /\ wm'.parent = wm.parent
      /\ wm'.fullscreen = wm.fullscreen /\ wm'.minimized = wm.minimized
      /\ wm'.manage_dirty /\ last_layout_sig' = last_layout_sig
  BY UnannouncedFields DEF SameRoles, SameWindows
<1>2. screen' = screen /\ server' = server /\ phase' = phase
  BY DEF Unannounced
<1>3. InStep'
  BY <1>1, <1>2 DEF LInv, InStep, SameRoots
<1>4. FreshIsCurrent'
  BY <1>1, <1>2 DEF LInv, FreshIsCurrent, Undisturbed
<1>5. DrawnInStep' /\ DrawnIsCurrent' /\ SizesAreSigned'
  BY <1>1, <1>2 DEF LInv, DrawnInStep, DrawnIsCurrent, SizesAreSigned
<1>6. (ShownAsDrawn /\ PlacedAsDrawn)'
  BY <1>1, <1>2, DrawingKept DEF LInv
<1> QED BY <1>3, <1>4, <1>5, <1>6 DEF LInv

LEMMA DimensionsDraw ==
  ASSUME LInv, Sound(wm), FInv, NewSizes, Undisturbed, Dimensions
  PROVE  LInv'
<1>1. PICK x \in Window, s \in Size, reply \in {"match", "late", "mismatch"} :
        window_handle_dimensions(x, s, reply)
  BY DEF Dimensions
<1>2. /\ screen' = screen /\ server' = server /\ last_layout_sig' = last_layout_sig
      /\ phase # "announcing" /\ phase' = "rendering" /\ x \in Live(wm)
  BY <1>1 DEF Dimensions, window_handle_dimensions, Handled, Open
<1>3. /\ Live(wm') = Live(wm) /\ wm'.parent = wm.parent
      /\ wm'.fullscreen = wm.fullscreen /\ wm'.minimized = wm.minimized
      /\ ~wm'.manage_dirty =>
           /\ wm'.size = [wm.size EXCEPT ![x] = s]
           /\ ~(wm.parent[x] # NULL /\ window_is_really_visible(wm, x))
  BY <1>1, DimensionsFields DEF SameRoles, SameWindows
<1>4. InStep'
  BY <1>2, <1>3 DEF LInv, InStep, SameRoots
<1>5. FreshIsCurrent'
  BY <1>2, <1>3 DEF LInv, FreshIsCurrent, Undisturbed
<1>6. DrawnInStep' /\ DrawnIsCurrent'
  BY <1>2 DEF LInv, DrawnInStep, DrawnIsCurrent
<1>7. SizesAreSigned'
  <2> SUFFICES ASSUME ~wm'.manage_dirty, screen.fresh_sig # <<>>, NEW y \in Live(wm'),
                      wm'.parent[y] # NULL, window_is_really_visible(wm', y)
               PROVE  <<y, wm'.size[y]>> \in screen.fresh_sig[1][2]
    BY <1>2 DEF SizesAreSigned, Sized
  <2>1. LayoutOf(wm') = LayoutOf(wm) /\ ~wm.manage_dirty
    BY <1>1, DimensionsHandles DEF Handles, OnlyResized, AsSettled
  <2>2. window_is_really_visible(wm, y)
    BY <2>1, LayoutDepends
  <2>3. y # x
    BY <1>3, <2>2
  <2>4. wm'.size[y] = wm.size[y]
    <3>1. y \in Window /\ wm.size \in [Window -> Size \cup {0}]
      BY <1>3, LiveWindows DEF Sound, WMState
    <3> QED BY <1>3, <2>3, <3>1
  <2>5. Sized(screen.fresh_sig[1][2])
    BY <2>1 DEF LInv, SizesAreSigned
  <2> QED BY <1>3, <2>2, <2>4, <2>5 DEF Sized
<1>8. (ShownAsDrawn /\ PlacedAsDrawn)'
  BY <1>2, <1>3, DrawingKept DEF LInv
<1> QED BY <1>4, <1>5, <1>6, <1>7, <1>8 DEF LInv

\* A drawing.
LEMMA RenderDraws ==
  ASSUME LInv, ScreenTypes, Sound(wm), NewSizes, wm_handle_render_start
  PROVE  LInv'
<1> DEFINE sig == IF screen.fresh_sig # <<>> THEN screen.fresh_sig
                  ELSE <<compute_layout_signature(wm), OutputsOf(screen)>>
           R == screen.last_render_sig
           drawn == {x \in Live(wm) : IsDrawn(wm, x)}
           there == Range(screen.outputs) \ screen.removed
           presentation == [o \in Output |->
                         IF o \notin there THEN server.presentation[o]
                         ELSE IF fullscreen_window_for_output(screen, wm, o) \in Async
                              THEN "async" ELSE "vsync"]
           presented == [server EXCEPT !.presentation = presentation]
           top == Placed(wm).top
           stack == Placed(wm).stack
           hidden == (presented.hidden \ drawn) \cup (screen.applied_visible \ drawn)
           place == [x \in Window |-> IF x \in drawn /\ Spot(screen, wm, x) # <<>>
                                      THEN Spot(screen, wm, x) ELSE presented.place[x]]
<1>0. UNCHANGED vars /\ phase = "rendering" /\ phase' = "idle"
  BY DEF wm_handle_render_start
<1>1. IF sig = R
      THEN screen' = [screen EXCEPT !.fresh_sig = <<>>] /\ server' = presented
      ELSE /\ screen' = [screen EXCEPT !.fresh_sig = <<>>, !.last_render_sig = sig,
                                       !.applied_visible = drawn, !.last_placed_top = top]
           /\ server' = [presented EXCEPT !.stack = stack, !.hidden = hidden, !.place = place]
  BY DEF wm_handle_render_start
\* What is signed is the layout, with the sizes.
<1>2. /\ sig # <<>> /\ sig[1][1] = LayoutOf(wm) /\ sig[2] = OutputsOf(screen)
      /\ ~wm.manage_dirty => Sized(sig[1][2])
  <2>1. CASE screen.fresh_sig # <<>>
    BY <2>1 DEF LInv, FreshIsCurrent, SizesAreSigned
  <2>2. CASE screen.fresh_sig = <<>>
    <3>1. /\ sig # <<>> /\ sig[2] = OutputsOf(screen)
          /\ sig[1] = compute_layout_signature(wm)
      BY <2>2
    <3>2. sig[1][1] = LayoutOf(wm)
      BY <3>1 DEF compute_layout_signature
    <3>3. sig[1][2] = {<<x, wm.size[x]>> : x \in {y \in Live(wm) : ~IsCard(wm, y)}}
      BY <3>1 DEF compute_layout_signature
    <3>4. Sized(sig[1][2])
      BY <3>3 DEF Sized, IsCard
    <3> QED BY <3>1, <3>2, <3>4
  <2> QED BY <2>1, <2>2
<1>3. IsServer(presented) /\ presented.hidden = server.hidden /\ presented.place = server.place
  <2> HIDE DEF presentation
  <2> QED BY DEF ScreenTypes, IsServer
<1> HIDE DEF sig, drawn, presented, top, stack, hidden, place
<1>4. /\ OutputsOf(screen') = OutputsOf(screen) /\ screen'.fresh_sig = <<>>
      /\ screen'.last_render_sig = sig
  <2>1. /\ screen'.outputs = screen.outputs /\ screen'.removed = screen.removed
        /\ screen'.box = screen.box /\ screen'.fresh_sig = <<>>
        /\ screen'.last_render_sig = sig
    BY <1>1 DEF ScreenTypes, IsScreen
  <2> QED BY <2>1, OutputsDepend
<1>5. SameRoots(wm, last_layout_sig[1]) /\ last_layout_sig # <<>>
  BY <1>0 DEF LInv, InStep
<1>6. wm' = wm /\ last_layout_sig' = last_layout_sig
  BY <1>0 DEF vars
<1>7. InStep' /\ FreshIsCurrent'
  BY <1>0, <1>4, <1>5, <1>6 DEF InStep, FreshIsCurrent
<1>8. DrawnInStep'
  <2>1. SameRoots(LayoutOf(wm), last_layout_sig[1])
    BY <1>5 DEF SameRoots, LayoutOf, Live
  <2> QED BY <1>2, <1>4, <1>5, <1>6, <2>1 DEF DrawnInStep
<1>9. DrawnIsCurrent'
  BY <1>2, <1>4, <1>6 DEF DrawnIsCurrent
<1>10. SizesAreSigned'
  <2> SUFFICES ASSUME ~wm.manage_dirty, NEW x \in Live(wm),
                      wm.parent[x] # NULL, window_is_really_visible(wm, x)
               PROVE  <<x, wm.size[x]>> \in sig[1][2]
    BY <1>4, <1>6 DEF SizesAreSigned, Sized
  <2> QED BY <1>2 DEF Sized
<1>11. (ShownAsDrawn /\ PlacedAsDrawn)'
  <2>1. CASE sig = R
    <3>1. /\ screen'.last_render_sig = screen.last_render_sig
          /\ screen'.applied_visible = screen.applied_visible
          /\ server'.hidden = server.hidden /\ server'.place = server.place
      BY <1>1, <1>3, <2>1 DEF ScreenTypes, IsScreen
    <3>2. screen.fresh_sig \in {<<>>, R}
      BY <2>1 DEF sig
    <3> QED BY <1>6, <3>1, <3>2, DrawingKept DEF LInv
  <2>2. CASE sig # R
    <3>1. /\ screen'.applied_visible = drawn
          /\ server'.hidden = hidden /\ server'.place = place
      BY <1>1, <1>3, <2>2 DEF ScreenTypes, IsScreen, IsServer
    <3>2. LayoutOf(LayoutOf(wm)) = LayoutOf(wm) /\ Live(LayoutOf(wm)) = Live(wm)
      BY LayoutTwice
    <3> DEFINE L == LayoutOf(wm)
    <3>3. /\ L.parent = wm.parent /\ L.fullscreen = wm.fullscreen
          /\ L.floating = wm.floating
          /\ \A x : root_window(L, x) = root_window(wm, x)
          /\ \A x : IsDrawn(L, x) = IsDrawn(wm, x)
          /\ \A b, x : BoxIn(b, L, x) = BoxIn(b, wm, x)
      BY <3>2, LayoutDepends
    <3>4. OutputsOf(screen)[1] = output_box(screen)
      BY DEF OutputsOf
    <3> HIDE DEF L
    <3>5. ShownAsDrawn'
      <4>1. \A x \in Live(wm) : /\ x \in drawn <=> IsDrawn(L, x)
                                /\ x \in drawn => x \notin hidden
        BY <3>3 DEF drawn, hidden
      <4>2. sig[1][1] = L
        BY <1>2 DEF L
      <4> QED BY <1>4, <1>6, <3>1, <4>1, <4>2 DEF ShownAsDrawn
    <3>6. PlacedAsDrawn'
      <4> SUFFICES ASSUME NEW x \in Live(wm), IsDrawn(L, x), x \notin L.floating \cup L.fullscreen
                   PROVE  IF L.parent[x] = NULL THEN place[x] = BoxIn(output_box(screen), L, x)
                          ELSE place[x] = <<BoxIn(output_box(screen), L, root_window(L, x)), wm.size[x]>>
        <5>1. sig[1][1] = L /\ sig[2][1] = output_box(screen)
          BY <1>2, <3>4 DEF L
        <5> QED BY <1>4, <1>6, <3>1, <5>1 DEF PlacedAsDrawn, PlacedIn
      <4>1. \A y : BoxOf(screen, wm, y) = BoxIn(output_box(screen), L, y)
        <5>1. \A y : BoxOf(screen, wm, y) = BoxIn(output_box(screen), wm, y)
          BY DEF BoxOf, BoxIn
        <5> QED BY <3>3, <5>1
      <4>2. Spot(screen, wm, x) = IF L.parent[x] = NULL THEN BoxIn(output_box(screen), L, x)
                                  ELSE <<BoxIn(output_box(screen), L, root_window(L, x)), wm.size[x]>>
        BY <3>3, <4>1 DEF Spot
      <4>3. BoxIn(output_box(screen), L, x) # <<>>
        BY DEF BoxIn
      <4>4. Spot(screen, wm, x) # <<>>
        BY <4>2, <4>3
      <4>5. x \in drawn /\ x \in Window
        BY <3>3, LiveWindows DEF drawn
      <4> QED BY <4>2, <4>4, <4>5 DEF place
    <3> QED BY <3>5, <3>6
  <2> QED BY <2>1, <2>2
<1> QED BY <1>7, <1>8, <1>9, <1>10, <1>11 DEF LInv

\* A manage sequence.
LEMMA ManageDraws ==
  ASSUME LInv, SInv, Sound(wm), FInv, NewSizes, NEW due \in SUBSET (Key \cap HoldAction),
         manage_start(due)
  PROVE  LInv'
<1> DEFINE D == wm.closed
           f == Forget(screen, D)
           outputs == Drop(f.outputs, screen.removed)
           box == [o \in Output |-> IF o \in screen.removed THEN 0 ELSE f.box[o]]
           s == [f EXCEPT !.outputs = outputs, !.removed = {}, !.box = box]
           w == Settled(wm, due)
           sig == compute_layout_signature(w)
           moved == OutputsOf(s) # s.last_outputs
           laid == moved \/ sig # last_layout_sig
           enter == IF laid THEN Entering(s, w) ELSE {}
           leave == IF laid THEN Leaving(s, w) ELSE {}
           there == Closed(server, D)
           proposed == IF laid THEN there.proposed \cup enter \cup Proposed(w)
                       ELSE there.proposed
           full == [x \in Window |-> IF x \in enter THEN window_fullscreen_output(s, x)
                                     ELSE IF x \in leave THEN NULL ELSE there.fullscreen[x]]
           place == [x \in Window |-> IF x \in leave THEN <<>> ELSE there.place[x]]
           last == OutputsOf(s)
           fresh == <<sig, last>>
           applied == (s.applied_fullscreen \cup enter) \ leave
           R == screen.last_render_sig
           L == R[1][1]
<1>1. /\ wm_handle_manage_start(due, moved)
      /\ screen' = [s EXCEPT !.applied_fullscreen = applied, !.last_outputs = last,
                             !.fresh_sig = fresh]
      /\ server' = [there EXCEPT !.proposed = proposed, !.fullscreen = full, !.place = place]
      /\ phase # "rendering" /\ phase' = "rendering"
  BY DEF manage_start
<1>2. last_layout_sig' = sig /\ sig # <<>> /\ sig[1] = LayoutOf(w)
  BY <1>1 DEF wm_handle_manage_start, compute_layout_signature
<1>3. screen.fresh_sig = <<>>
  BY <1>1 DEF LInv, FreshIsCurrent
<1>4. AsSettled(w, wm')
  BY <1>1, ManageFocus
<1>5. /\ LayoutOf(wm') = LayoutOf(w) /\ Live(wm') = Live(w) /\ Live(w) = Live(wm) \ D
      /\ Live(w) \subseteq Window /\ Sound(w)
  <2>1. wm'.windows = w.windows
    BY <1>4, SignedFocus DEF AsSettled
  <2>2. Sound(w) /\ Live(w) = Live(wm) \ D
    BY SettledSound
  <2> QED BY <1>4, <2>1, <2>2, LiveWindows DEF Live, AsSettled
<1>6. wm'.size = w.size
  <2> DEFINE laidout == IF laid THEN window_manage_layout(w) ELSE w
  <2>1. wm' = IF laid \/ w.focus_dirty
              THEN [focus_target_on_seats(laidout) EXCEPT !.focus_dirty = FALSE]
              ELSE laidout
    BY <1>1 DEF wm_handle_manage_start
  <2>2. Sound(laidout) /\ laidout.size = w.size
    <3>1. Sound(laidout)
      BY <1>5, ManageLayout DEF SameWindows
    <3>2. window_manage_layout(w).size = w.size
      BY <1>5 DEF window_manage_layout, Sound, WMState
    <3> QED BY <3>1, <3>2
  <2> HIDE DEF laidout
  <2>3. /\ focus_target_on_seats(laidout).size = laidout.size
        /\ Sound(focus_target_on_seats(laidout))
    <3> DEFINE c == clamp_target(laidout)
    <3>1. Sound(c)
      BY <2>2, ClampTarget DEF SameWindows
    <3>2. c.size = laidout.size
      BY <2>2 DEF clamp_target, Sound, WMState
    <3> HIDE DEF c
    <3>3. focus_target_on_seats(laidout) = IF KeepsFloatFocus(c) THEN c ELSE [c EXCEPT !.focused = FocusOf(c)]
      BY DEF focus_target_on_seats, c
    <3>4. Sound(focus_target_on_seats(laidout))
      BY <2>2, FocusTargetOnSeats DEF SameWindows
    <3> QED BY <3>1, <3>2, <3>3, <3>4 DEF Sound, WMState
  <2> QED BY <2>1, <2>2, <2>3 DEF Sound, WMState
\* The memory and the server.
<1>7. ScreenTypes
  BY DEF SInv
<1>8. /\ IsScreen(f) /\ f.fresh_sig = screen.fresh_sig /\ f.last_render_sig = R
      /\ f.applied_visible = screen.applied_visible \ D
      /\ f.applied_fullscreen = screen.applied_fullscreen \ D
  BY <1>7, Forgotten, ForgottenDrawing DEF ScreenTypes
<1>9. /\ IsServer(there) /\ there.hidden = server.hidden \ D
      /\ \A x \in Window \ D : there.place[x] = server.place[x]
  <2> HIDE DEF D
  <2>1. IsServer(server)
    BY <1>7 DEF ScreenTypes
  <2>2. IsServer(there)
    BY <2>1, ClosedThere
  <2>3. /\ there.hidden = server.hidden \ D
        /\ there.place = [x \in Window |-> IF x \in D THEN <<>> ELSE server.place[x]]
    BY <2>1, ClosedPlaces
  <2> HIDE DEF there
  <2> QED BY <2>2, <2>3
<1> HIDE DEF f, outputs, box, there, proposed
<1>10. /\ IsScreen(s) /\ s.outputs = outputs /\ s.removed = {} /\ s.box = box
       /\ s.last_render_sig = R /\ s.applied_visible = screen.applied_visible \ D
       /\ s.applied_fullscreen = screen.applied_fullscreen \ D
  <2>1. s = [f EXCEPT !.outputs = outputs, !.removed = {}, !.box = box]
    OBVIOUS
  <2> HIDE DEF s, D, R
  <2>2. /\ IsScreen(s) /\ s.outputs = outputs /\ s.removed = {} /\ s.box = box
        /\ s.last_render_sig = f.last_render_sig /\ s.applied_visible = f.applied_visible
        /\ s.applied_fullscreen = f.applied_fullscreen
    BY <1>8, <2>1 DEF IsScreen
  <2> QED BY <1>8, <2>2
<1> HIDE DEF s
<1> HIDE DEF w, sig, D, moved, laid, enter, full, place, fresh, applied, last, R
<1>11. /\ screen'.outputs = outputs /\ screen'.removed = {}
       /\ screen'.box = box /\ screen'.fresh_sig = fresh
       /\ screen'.last_render_sig = R /\ screen'.applied_visible = screen.applied_visible \ D
  BY <1>1, <1>10 DEF IsScreen
<1>12. server'.hidden = server.hidden \ D /\ server'.place = place
  BY <1>1, <1>9 DEF IsServer
<1>13. OutputsOf(screen') = last
  BY <1>10, <1>11, OutputsDepend DEF last
<1>14. fresh # <<>> /\ fresh[1] = sig /\ fresh[2] = last
  BY DEF fresh
\* The invariant.
<1>15. InStep'
  BY <1>2, <1>5 DEF InStep, SameRoots, LayoutOf, Live
<1>16. FreshIsCurrent'
  BY <1>1, <1>2, <1>5, <1>11, <1>13, <1>14 DEF FreshIsCurrent
<1>17. DrawnInStep' /\ DrawnIsCurrent'
  BY <1>1, <1>2, <1>11, <1>14 DEF DrawnInStep, DrawnIsCurrent
<1>18. SizesAreSigned'
  <2> SUFFICES ASSUME NEW x \in Live(wm'), wm'.parent[x] # NULL
               PROVE  <<x, wm'.size[x]>> \in sig[2]
    BY <1>1, <1>11, <1>14 DEF SizesAreSigned, Sized
  <2>1. sig[2] = {<<y, w.size[y]>> : y \in {z \in Live(w) : ~IsCard(w, z)}}
    BY DEF sig, compute_layout_signature
  <2>2. x \in Live(w) /\ ~IsCard(w, x)
    BY <1>5, LayoutDepends DEF IsCard
  <2> QED BY <1>6, <2>1, <2>2
<1>19. (ShownAsDrawn /\ PlacedAsDrawn)'
  <2>1. ASSUME R # <<>>, NEW x \in Live(wm') \cap Live(L)
        PROVE  /\ x \in Live(wm)
               /\ x \in screen'.applied_visible <=> x \in screen.applied_visible
               /\ x \in server'.hidden => x \in server.hidden
               /\ fresh = R => server'.place[x] = server.place[x]
    <3>1. x \in Live(wm) /\ x \notin D /\ x \in Window
      BY <1>5, <2>1
    <3>2. fresh = R => x \notin leave
      <4> SUFFICES ASSUME fresh = R, x \in Leaving(s, w) PROVE FALSE
        BY DEF leave
      <4>1. L = LayoutOf(w)
        BY <1>2, <1>14
      <4>2. L.parent = w.parent /\ L.fullscreen = w.fullscreen /\ L.minimized = w.minimized
        BY <4>1 DEF LayoutOf
      <4>3. /\ x \in screen.applied_fullscreen /\ w.parent[x] = NULL
            /\ x \notin w.fullscreen \ w.minimized
        BY <1>10 DEF Leaving, Roots
      <4>4. last_layout_sig # <<>> /\ SameRoots(L, last_layout_sig[1])
        BY <1>3, <2>1 DEF LInv, DrawnInStep, R
      <4>5. x \in last_layout_sig[1].fullscreen \ last_layout_sig[1].minimized
        <5>1. x \in Live(wm) \cap Live(last_layout_sig[1]) /\ last_layout_sig[1].parent[x] = NULL
          BY <2>1, <3>1, <4>2, <4>3, <4>4 DEF SameRoots
        <5> QED BY <4>3, <4>4, <5>1 DEF SInv, SignedIsApplied
      <4> QED BY <4>2, <4>3, <4>4, <4>5 DEF SameRoots
    <3>3. x \notin leave => place[x] = server.place[x]
      BY <1>9, <3>1 DEF place
    <3> QED BY <1>11, <1>12, <3>1, <3>2, <3>3
  <2> QED BY <1>3, <1>11, <1>14, <2>1, DrawingKept DEF LInv, R
<1> QED BY <1>15, <1>16, <1>17, <1>18, <1>19 DEF LInv

LEMMA LInvInit == ScreenInit => LInv
<1> SUFFICES ASSUME ScreenInit PROVE LInv
  OBVIOUS
<1>1. /\ wm.windows = <<>> /\ last_layout_sig = <<>> /\ phase = "idle"
      /\ screen.fresh_sig = <<>> /\ screen.last_render_sig = <<>>
  BY DEF ScreenInit, Init
<1>2. Live(wm) = {}
  BY <1>1 DEF Live, Range
<1>3. InStep /\ FreshIsCurrent /\ DrawnInStep /\ DrawnIsCurrent
  BY <1>1, <1>2 DEF InStep, FreshIsCurrent, DrawnInStep, DrawnIsCurrent
<1>4. SizesAreSigned /\ ShownAsDrawn /\ PlacedAsDrawn
  BY <1>1 DEF SizesAreSigned, ShownAsDrawn, PlacedAsDrawn
<1> QED BY <1>3, <1>4 DEF LInv

\* No event touches the signature of the last manage sequence.
LEMMA EventsKeepSignature ==
  ASSUME NEW x,
         NewWindow(x) \/ Fullscreen(x) \/ Parent(x) \/ OtherEvent(x) \/ SeatInput
  PROVE  last_layout_sig' = last_layout_sig
<1>1. ASSUME NEW p, window_handle_parent(x, p)
      PROVE  last_layout_sig' = last_layout_sig
  BY <1>1 DEF window_handle_parent, Event, Handled
<1>2. ASSUME NEW t, window_handle_title(x, t)
      PROVE  last_layout_sig' = last_layout_sig
  BY <1>2 DEF window_handle_title, Event, Handled
<1>3. CASE NewWindow(x)
  BY <1>3 DEF NewWindow, wm_handle_window, Event, Handled
<1>4. CASE Fullscreen(x)
  BY <1>4 DEF Fullscreen, window_handle_fullscreen_requested, Event, Handled,
     window_handle_exit_fullscreen_requested, window_handle_minimize_requested
<1>5. CASE Parent(x)
  BY <1>1, <1>5 DEF Parent
<1>6. CASE OtherEvent(x)
  <2>1. window_handle_closed(x) => last_layout_sig' = last_layout_sig
    BY DEF window_handle_closed, Event, Handled
  <2>2. window_handle_app_id(x) => last_layout_sig' = last_layout_sig
    BY DEF window_handle_app_id, Event, Handled
  <2>3. window_handle_dimensions_hint(x) => last_layout_sig' = last_layout_sig
    BY DEF window_handle_dimensions_hint, Event, Handled
  <2> QED BY <1>2, <1>6, <2>1, <2>2, <2>3 DEF OtherEvent
<1>7. CASE SeatInput
  BY <1>7 DEF SeatInput, xkb_binding_handle, seat_handle_window_interaction,
     layer_shell_seat_handle_focus_none, Event, Handled
<1> QED BY <1>3, <1>4, <1>5, <1>6, <1>7

LEMMA LInvStep ==
  ASSUME IInv, IInv', FInv, SInv, LInv,
         NewAddresses, UsedOutputsStay, NewSizes, Undisturbed, [ScreenNext]_svars
  PROVE  LInv'
<1>1. Sound(wm) /\ Sound(wm') /\ ScreenTypes
  BY DEF IInv, SInv
<1>2. ASSUME NEW x,
             NewWindow(x) \/ Fullscreen(x) \/ Parent(x) \/ OtherEvent(x) \/ SeatInput
      PROVE  LInv'
  BY <1>1, <1>2, EventsKeepSignature, EventDraws
<1>3. CASE OutputEvent
  BY <1>1, <1>3, OutputDraws
<1>4. CASE Unannounced
  BY <1>1, <1>4, UnannouncedDraws
<1>5. CASE Dimensions
  BY <1>1, <1>5, DimensionsDraw
<1>6. ASSUME NEW due \in SUBSET (Key \cap HoldAction), manage_start(due)
      PROVE  LInv'
  BY <1>1, <1>6, ManageDraws
<1>7. CASE wm_handle_render_start
  BY <1>1, <1>7, RenderDraws
<1>8. CASE UNCHANGED svars
  <2>1. /\ wm' = wm /\ last_layout_sig' = last_layout_sig
        /\ screen' = screen /\ server' = server /\ phase' = phase
    BY <1>8 DEF svars
  <2>2. (InStep /\ FreshIsCurrent /\ DrawnInStep /\ DrawnIsCurrent /\ SizesAreSigned)'
    BY <2>1 DEF LInv, InStep, FreshIsCurrent, DrawnInStep, DrawnIsCurrent, SizesAreSigned, Sized
  <2>3. (ShownAsDrawn /\ PlacedAsDrawn)'
    BY <2>1 DEF LInv, ShownAsDrawn, PlacedAsDrawn, PlacedIn
  <2> QED BY <2>2, <2>3 DEF LInv
<1> QED BY <1>2, <1>3, <1>4, <1>5, <1>6, <1>7, <1>8 DEF ScreenNext, Manage

\* Once nothing is announced, owed or being drawn, every window of the layout is
\* shown and stands where the layout has it now, and every other has been hidden,
\* although a drawing whose signature is that of the last one is skipped
\* (wm_handle_render_start): provided that what the signature was taken from does
\* not change before it is drawn, that no dialog takes back a size it was drawn
\* with while it has another, that no output goes under a fullscreen window and
\* that no window comes at the address of one the last manage sequence laid out.
THEOREM LayoutIsDrawn ==
  ScreenSpec /\ [][NewAddresses /\ UsedOutputsStay /\ NewSizes /\ Undisturbed]_svars
    => []LayoutIsShown
<1>1. LInv /\ IInv => LayoutIsShown
  <2> SUFFICES ASSUME LInv, IInv, ~Settling, NEW x \in Live(wm)
               PROVE  /\ x \in screen.applied_visible <=> IsDrawn(wm, x)
                      /\ IsDrawn(wm, x) => x \notin server.hidden
                      /\ IsDrawn(wm, x) /\ x \notin wm.floating \cup wm.fullscreen =>
                           server.place[x] = Spot(screen, wm, x)
    BY DEF LayoutIsShown
  <2> DEFINE R == screen.last_render_sig
             L == R[1][1]
             box == output_box(screen)
  <2>1. phase = "idle" /\ ~wm.manage_dirty
    BY DEF Settling
  <2>2. last_layout_sig # <<>> /\ screen.fresh_sig = <<>>
    BY <2>1 DEF LInv, InStep, FreshIsCurrent
  <2>3. /\ R # <<>> /\ L = LayoutOf(wm) /\ R[2] = OutputsOf(screen) /\ Sized(R[1][2])
    BY <2>1, <2>2 DEF LInv, DrawnInStep, DrawnIsCurrent, SizesAreSigned
  <2>4. /\ LayoutOf(L) = LayoutOf(wm) /\ Live(L) = Live(wm)
    BY <2>3, LayoutTwice
  <2>5. /\ L.parent = wm.parent /\ L.fullscreen = wm.fullscreen
        /\ L.floating = wm.floating
        /\ \A y : root_window(L, y) = root_window(wm, y)
        /\ \A y : IsDrawn(L, y) = IsDrawn(wm, y)
        /\ \A b, y : BoxIn(b, L, y) = BoxIn(b, wm, y)
    BY <2>4, LayoutDepends
  <2>6. R[2][1] = box
    BY <2>3 DEF OutputsOf
  <2>7. /\ x \in screen.applied_visible <=> IsDrawn(L, x)
        /\ x \in screen.applied_visible => x \notin server.hidden
    BY <2>3, <2>4 DEF LInv, ShownAsDrawn
  <2>8. PlacedIn(L, R[1][2], box)
    BY <2>2, <2>3, <2>6 DEF LInv, PlacedAsDrawn
  <2> HIDE DEF L, R, box
  <2>9. ASSUME IsDrawn(wm, x), x \notin wm.floating \cup wm.fullscreen
        PROVE  server.place[x] = Spot(screen, wm, x)
    <3>1. \A y : BoxOf(screen, wm, y) = BoxIn(box, L, y)
      <4>1. \A y : BoxOf(screen, wm, y) = BoxIn(box, wm, y)
        BY DEF BoxOf, BoxIn, box
      <4> QED BY <2>5, <4>1
    <3>2. wm.parent[x] # NULL => <<x, wm.size[x]>> \in R[1][2]
      <4> HAVE wm.parent[x] # NULL
      <4>1. window_is_really_visible(wm, x)
        BY <2>9 DEF IsDrawn
      <4> QED BY <2>3, <4>1 DEF Sized
    <3>3. server.place[x] = IF wm.parent[x] = NULL THEN BoxIn(box, L, x)
                            ELSE <<BoxIn(box, L, root_window(wm, x)), wm.size[x]>>
      BY <2>4, <2>5, <2>8, <2>9, <3>2 DEF PlacedIn
    <3> QED BY <2>9, <3>1, <3>3 DEF Spot
  <2> QED BY <2>5, <2>7, <2>9
<1>2. ScreenInit => LInv
  BY LInvInit
<1>3. IInv /\ IInv' /\ FInv /\ SInv /\ LInv /\ [ScreenNext]_svars
        /\ [NewAddresses /\ UsedOutputsStay /\ NewSizes /\ Undisturbed]_svars => LInv'
  <2> SUFFICES ASSUME IInv, IInv', FInv, SInv, LInv, [ScreenNext]_svars,
                      [NewAddresses /\ UsedOutputsStay /\ NewSizes /\ Undisturbed]_svars
               PROVE  LInv'
    OBVIOUS
  <2>1. UNCHANGED svars => NewAddresses /\ UsedOutputsStay /\ NewSizes /\ Undisturbed
    BY DEF svars, NewAddresses, UsedOutputsStay, NewSizes, Undisturbed
  <2> QED BY <2>1, LInvStep
<1>4. ScreenSpec => []IInv /\ []FInv
  BY ScreenManagesWindows, Invariance, FocusInvariance
<1>5. [][NewAddresses /\ UsedOutputsStay /\ NewSizes /\ Undisturbed]_svars
        => [][NewAddresses /\ UsedOutputsStay]_svars
  <2>1. [NewAddresses /\ UsedOutputsStay /\ NewSizes /\ Undisturbed]_svars
          => [NewAddresses /\ UsedOutputsStay]_svars
    OBVIOUS
  <2> QED BY <2>1, PTL
<1> QED BY <1>1, <1>2, <1>3, <1>4, <1>5, SInvHolds, PTL DEF ScreenSpec

=============================================================================
