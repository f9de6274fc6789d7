-------------------------- MODULE BarTaskbarProofs --------------------------
(***************************************************************************)
(* Entries and identifiers are paired right, and entries of live windows   *)
(* stay, for any windows and any order of announcements.                   *)
(*                                                                         *)
(* Between two announcements both arrays are the same list L of windows;   *)
(* what the handlers do by position is what they would do by window as     *)
(* long as both arrays are L but for the events of one announcement that   *)
(* were dispatched (Lock).  An entry is reaped from both arrays, whichever *)
(* of those events it comes between (ReapKeepsLock).                       *)
(*                                                                         *)
(* A live window is in every set under way by the time its entry is old,   *)
(* and in the last one received when none is under way (NewsInv).          *)
(***************************************************************************)
EXTENDS BarTaskbar, WlListProofs

\* An entry before and after its identifier has come.
Bare(x) == [window |-> x, identifier |-> NULL]
Full(x) == [window |-> x, identifier |-> x]
Pairs == {Full(x) : x \in Window}

\* What is left of an announcement while it is dispatched.
OpeningRest == {<<"ext_new", "ext_identifier">>, <<"ext_identifier", "zwlr_new">>,
                <<"zwlr_new", "ext_identifier">>, <<"ext_identifier">>, <<"zwlr_new">>}
ClosingRest == {<<"zwlr_closed">>, <<"ext_closed">>}
Announcement == [window : Window,
                 events : Opening \cup OpeningRest \cup Closing \cup ClosingRest]
\* An announcement, whole or not, that a window is opened.
Opens(a) == a.events \in Opening \cup OpeningRest

\* No announcement is of both kinds.
LEMMA Apart ==
  \A e \in Opening \cup OpeningRest : e \notin Closing \cup ClosingRest
<1>1. ASSUME NEW e \in Opening \cup OpeningRest
      PROVE  e[1] \in {"zwlr_new", "ext_new", "ext_identifier"}
  BY DEF Opening, OpeningRest
<1>2. ASSUME NEW e \in Closing \cup ClosingRest
      PROVE  e[1] \in {"zwlr_closed", "ext_closed"}
  BY DEF Closing, ClosingRest
<1> QED BY <1>1, <1>2

\* What the fields of such entries are.
LEMMA EntryFields ==
  /\ Pairs \subseteq Entry
  /\ \A x \in Window : /\ Bare(x) \in Entry /\ Full(x) \in Entry /\ Full(x) \in Pairs
                       /\ Bare(x).window = x /\ Bare(x).identifier = NULL
                       /\ Full(x).window = x /\ Full(x).identifier = x
                       /\ Bare(x) \notin Pairs
  /\ \A h \in Pairs : h.window \in Window /\ h = Full(h.window) /\ h.identifier = h.window
                      /\ h.identifier # NULL
  /\ \A h \in Entry : h.identifier = h.window => h \in Pairs
<1>1. ASSUME NEW x \in Window
      PROVE  /\ Bare(x) \in Entry /\ Full(x) \in Entry /\ Full(x) \in Pairs
             /\ Bare(x).window = x /\ Bare(x).identifier = NULL
             /\ Full(x).window = x /\ Full(x).identifier = x
  BY DEF Pairs, Full, Bare, Entry
<1>2. ASSUME NEW h \in Pairs
      PROVE  h.window \in Window /\ h = Full(h.window) /\ h.identifier = h.window
             /\ h.identifier # NULL /\ h \in Entry
  <2>1. PICK x \in Window : h = Full(x)
    BY DEF Pairs
  <2> QED BY <1>1, <2>1, TaskbarAssumption
<1>3. ASSUME NEW x \in Window PROVE Bare(x) \notin Pairs
  BY <1>1, <1>2
<1>4. ASSUME NEW h \in Entry, h.identifier = h.window PROVE h \in Pairs
  <2>1. h.window \in Window /\ h = Full(h.window)
    BY <1>4 DEF Entry, Full
  <2> QED BY <2>1 DEF Pairs
<1> QED BY <1>1, <1>2, <1>3, <1>4

-----------------------------------------------------------------------------
(* The two arrays.                                                         *)

\* L is what both arrays held before the announcement about c, of which events
\* are left, was begun: the entries T and the ext handles E differ from it by what
\* has been dispatched.
Lock(L, c, events, T, E) ==
  \/ events \in Opening \cup Closing /\ T = L /\ E = L
  \/ events = <<"ext_new", "ext_identifier">> /\ T = Append(L, Bare(c)) /\ E = L
  \/ events = <<"ext_identifier">> /\ T = Append(L, Bare(c)) /\ E = Append(L, Bare(c))
  \/ events = <<"ext_identifier", "zwlr_new">> /\ T = L /\ E = Append(L, Bare(c))
  \/ events = <<"zwlr_new", "ext_identifier">> /\ T = L /\ E = Append(L, Bare(c))
  \/ events = <<"zwlr_new">> /\ T = L /\ E = Append(L, Full(c))
  \/ events = <<"ext_closed">> /\ T = Drop(L, HandlesOf(c)) /\ E = L
  \/ events = <<"zwlr_closed">> /\ T = L /\ E = Drop(L, HandlesOf(c))

\* The identifiers of reaped entries.
IdsOf(G) == {g.identifier : g \in G}

\* What is reaped goes from both arrays, and has been in L: the entry that is being
\* made has no identifier yet, or no zwlr handle.
LEMMA ReapKeepsLock ==
  ASSUME NEW L \in Seq(Pairs), NEW c \in Window, NEW events, NEW T, NEW E,
         Lock(L, c, events, T, E),
         events \in Opening \cup OpeningRest => Full(c) \notin Range(L),
         NEW G, G \subseteq Range(T), \A g \in G : g.identifier # NULL,
         NEW F, F = {e \in Entry : e.identifier \in IdsOf(G)}
  PROVE  Lock(Drop(L, G), c, events, Drop(T, G), Drop(E, F)) /\ G \subseteq Range(L)
<1> DEFINE B == Bare(c)
           P == Full(c)
           H == HandlesOf(c)
<1>1. /\ B \in Entry /\ P \in Entry /\ P \in Pairs /\ B \notin Pairs
      /\ B.identifier = NULL /\ P.identifier = c /\ L \in Seq(Entry)
  BY EntryFields, SeqMonotonic
<1>2. Range(L) \subseteq Pairs
  BY LenProperties, ElementOfSeq DEF Range
<1>3. Range(T) \subseteq Range(L) \cup {B}
  <2>1. Range(Append(L, B)) = Range(L) \cup {B}
    BY <1>1, AppendList
  <2>2. Range(Drop(L, H)) \subseteq Range(L)
    BY DropProperties
  <2> HIDE DEF B, H
  <2>3. T = L \/ T = Append(L, B) \/ T = Drop(L, H)
    BY DEF Lock, B, H
  <2> QED BY <2>1, <2>2, <2>3
<1>4. G \subseteq Range(L) /\ G \subseteq Pairs
  BY <1>1, <1>2, <1>3
<1>5. B \notin G /\ B \notin F
  BY <1>1, <1>4, EntryFields DEF IdsOf
<1>6. Drop(L, F) = Drop(L, G)
  <2>1. \A h \in Range(L) : h \in F <=> h \in G
    <3> SUFFICES ASSUME NEW h \in Range(L) PROVE h \in F <=> h \in G
      OBVIOUS
    <3>1. h \in Pairs /\ h \in Entry /\ h.identifier = h.window /\ h = Full(h.window)
      BY <1>2, EntryFields
    <3>2. ASSUME h \in F PROVE h \in G
      <4>1. PICK g \in G : g.identifier = h.identifier
        BY <3>2 DEF IdsOf
      <4>2. g \in Pairs /\ g = Full(g.window) /\ g.identifier = g.window
        BY <1>4, EntryFields
      <4> QED BY <3>1, <4>1, <4>2
    <3>3. ASSUME h \in G PROVE h \in F
      BY <3>1, <3>3 DEF IdsOf
    <3> QED BY <3>2, <3>3
  <2>2. Range(L) \cap F = Range(L) \cap G
    BY <2>1
  <2> QED BY <2>2, DropSame
<1>7. P \notin Range(L) => P \notin G /\ P \notin F
  <2> SUFFICES ASSUME P \notin Range(L) PROVE P \notin G /\ P \notin F
    OBVIOUS
  <2>1. P \notin G
    BY <1>4
  <2>2. ASSUME P \in F PROVE FALSE
    <3>1. PICK g \in G : g.identifier = c
      BY <1>1, <2>2 DEF IdsOf
    <3>2. g = P
      BY <1>4, <3>1, EntryFields
    <3> QED BY <2>1, <3>2
  <2> QED BY <2>1, <2>2
<1> DEFINE M == Drop(L, G)
<1>8. \A x \in Entry : x \notin G => Drop(Append(L, x), G) = Append(M, x)
  BY <1>1, DropAppend
<1>9. \A x \in Entry : x \notin F => Drop(Append(L, x), F) = Append(M, x)
  <2>1. \A x \in Entry : x \notin F => Drop(Append(L, x), F) = Append(Drop(L, F), x)
    BY <1>1, DropAppend
  <2> QED BY <1>6, <2>1
<1>10. Drop(Drop(L, H), G) = Drop(M, H)
  <2>1. Drop(Drop(L, H), G) = Drop(L, H \cup G) /\ Drop(M, H) = Drop(L, G \cup H)
    BY <1>1, DropTwice
  <2>2. H \cup G = G \cup H
    OBVIOUS
  <2> QED BY <2>1, <2>2
<1>11. Drop(Drop(L, H), F) = Drop(M, H)
  <2>1. Drop(Drop(L, H), F) = Drop(L, H \cup F) /\ Drop(Drop(L, F), H) = Drop(L, F \cup H)
    BY <1>1, DropTwice
  <2>2. H \cup F = F \cup H
    OBVIOUS
  <2> QED BY <1>6, <2>1, <2>2
<1>12. Drop(L, F) = M
  BY <1>6
<1>13. Drop(Append(L, B), G) = Append(M, B) /\ Drop(Append(L, B), F) = Append(M, B)
  BY <1>1, <1>5, <1>8, <1>9
<1>14. P \notin Range(L) => Drop(Append(L, P), F) = Append(M, P)
  BY <1>1, <1>7, <1>9
<1> DEFINE DT == Drop(T, G)
           DE == Drop(E, F)
<1>15. Lock(M, c, events, DT, DE)
  <2>1. CASE events \in Opening \cup Closing /\ T = L /\ E = L
    <3>1. DT = M /\ DE = M
      BY <1>12, <2>1
    <3> QED BY <2>1, <3>1 DEF Lock
  <2>2. CASE events = <<"ext_new", "ext_identifier">> /\ T = Append(L, B) /\ E = L
    <3>1. DT = Append(M, B) /\ DE = M
      BY <1>12, <1>13, <2>2
    <3> QED BY <2>2, <3>1 DEF Lock
  <2>3. CASE events = <<"ext_identifier">> /\ T = Append(L, B) /\ E = Append(L, B)
    <3>1. DT = Append(M, B) /\ DE = Append(M, B)
      BY <1>13, <2>3
    <3> QED BY <2>3, <3>1 DEF Lock
  <2>4. CASE events = <<"ext_identifier", "zwlr_new">> /\ T = L /\ E = Append(L, B)
    <3>1. DT = M /\ DE = Append(M, B)
      BY <1>13, <2>4
    <3> QED BY <2>4, <3>1 DEF Lock
  <2>5. CASE events = <<"zwlr_new", "ext_identifier">> /\ T = L /\ E = Append(L, B)
    <3>1. DT = M /\ DE = Append(M, B)
      BY <1>13, <2>5
    <3> QED BY <2>5, <3>1 DEF Lock
  <2>6. CASE events = <<"zwlr_new">> /\ T = L /\ E = Append(L, P)
    <3>1. P \notin Range(L)
      BY <2>6 DEF OpeningRest
    <3>2. DT = M /\ DE = Append(M, P)
      BY <1>14, <2>6, <3>1
    <3> QED BY <2>6, <3>2 DEF Lock
  <2>7. CASE events = <<"ext_closed">> /\ T = Drop(L, H) /\ E = L
    <3>1. DT = Drop(M, H) /\ DE = M
      BY <1>10, <1>12, <2>7
    <3> QED BY <2>7, <3>1 DEF Lock
  <2>8. CASE events = <<"zwlr_closed">> /\ T = L /\ E = Drop(L, H)
    <3>1. DT = M /\ DE = Drop(M, H)
      BY <1>11, <2>8
    <3> QED BY <2>8, <3>1 DEF Lock
  <2> HIDE DEF M, DT, DE, B, P, H
  <2> QED BY <2>1, <2>2, <2>3, <2>4, <2>5, <2>6, <2>7, <2>8 DEF Lock, B, P, H
<1> QED BY <1>4, <1>15

-----------------------------------------------------------------------------
(* What is on its way.                                                     *)

\* Announcements come one after the other; none opens a window that L knows, that
\* another opens or that is yet to be opened.
Sound(L, un, st) ==
  /\ \A i \in DOMAIN st : i # 1 => st[i].events \in Opening \cup Closing
  /\ \A i \in DOMAIN st : Opens(st[i]) => /\ st[i].window \notin un
                                         /\ Full(st[i].window) \notin Range(L)
  /\ \A i, j \in DOMAIN st : i # j /\ Opens(st[i]) /\ Opens(st[j]) => st[i].window # st[j].window
  /\ \A x \in un : Full(x) \notin Range(L)

\* Nothing of this depends on what leaves L.
LEMMA SoundShrinks ==
  ASSUME NEW L, NEW M, NEW un, NEW st, Sound(L, un, st), Range(M) \subseteq Range(L)
  PROVE  Sound(M, un, st)
BY DEF Sound

\* A window is opened or closed.
LEMMA AnnounceSound ==
  ASSUME NEW L, NEW un, un \subseteq Window, NEW st \in Seq(Announcement), Sound(L, un, st),
         NEW x \in Window, NEW events, NEW left,
         \/ events \in Closing /\ left = un
         \/ events \in Opening /\ x \in un /\ left = un \ {x}
  PROVE  /\ Append(st, [window |-> x, events |-> events]) \in Seq(Announcement)
         /\ Sound(L, left, Append(st, [window |-> x, events |-> events]))
<1> DEFINE a == [window |-> x, events |-> events]
           ts == Append(st, a)
           n == Len(st)
<1>1. n \in Nat /\ DOMAIN st = 1..n /\ \A i \in 1..n : st[i] \in Announcement
  BY LenProperties, ElementOfSeq
<1>2. a \in Announcement /\ a.window = x /\ a.events = events /\ events \in Opening \cup Closing
  BY DEF Announcement
<1>3. Opens(a) => x \in un /\ left = un \ {x}
  BY <1>2, Apart DEF Opens
<1>4. left \subseteq un
  OBVIOUS
<1> HIDE DEF a
<1>5. ts \in Seq(Announcement) /\ Len(ts) = n + 1 /\ ts[n + 1] = a /\ \A i \in 1..n : ts[i] = st[i]
  BY <1>2, AppendProperties
<1>6. DOMAIN ts = 1..n + 1
  BY <1>5, LenProperties
<1> HIDE DEF ts, n
<1>7. \A i \in DOMAIN ts : (i \in DOMAIN st /\ ts[i] = st[i]) \/ (i = n + 1 /\ ts[i] = a)
  <2>1. \A i \in 1..n + 1 : i \in 1..n \/ i = n + 1
    BY <1>1
  <2> QED BY <1>1, <1>5, <1>6, <2>1
<1>8. \A i \in DOMAIN ts : i # 1 => ts[i].events \in Opening \cup Closing
  BY <1>2, <1>7 DEF Sound
<1>9. \A i \in DOMAIN ts : Opens(ts[i]) => ts[i].window \notin left /\ Full(ts[i].window) \notin Range(L)
  BY <1>2, <1>3, <1>4, <1>7 DEF Sound
<1>10. \A i, j \in DOMAIN ts : i # j /\ Opens(ts[i]) /\ Opens(ts[j]) => ts[i].window # ts[j].window
  <2> SUFFICES ASSUME NEW i \in DOMAIN ts, NEW j \in DOMAIN ts, i # j,
                      Opens(ts[i]), Opens(ts[j])
               PROVE  ts[i].window # ts[j].window
    OBVIOUS
  <2> QED BY <1>2, <1>3, <1>7 DEF Sound
<1>11. \A y \in left : Full(y) \notin Range(L)
  BY <1>4 DEF Sound
<1> QED BY <1>5, <1>8, <1>9, <1>10, <1>11 DEF Sound, a, ts

\* The queue when rest is left of the first announcement.
Rest(st, rest) == [st EXCEPT ![1].events = rest]

\* An event that is not the last of its announcement is dispatched.
LEMMA RestSound ==
  ASSUME NEW L, NEW un, NEW st \in Seq(Announcement), st # <<>>, Sound(L, un, st),
         NEW rest \in OpeningRest \cup ClosingRest,
         rest \in OpeningRest => Opens(st[1])
  PROVE  /\ Rest(st, rest) \in Seq(Announcement)
         /\ Rest(st, rest) # <<>>
         /\ Rest(st, rest)[1].window = st[1].window
         /\ Rest(st, rest)[1].events = rest
         /\ Sound(L, un, Rest(st, rest))
<1> DEFINE ts == Rest(st, rest)
           n == Len(st)
           a == [st[1] EXCEPT !.events = rest]
<1>1. n \in Nat /\ n # 0 /\ DOMAIN st = 1..n /\ \A i \in 1..n : st[i] \in Announcement
  BY LenProperties, ElementOfSeq, EmptySeq
<1>2. 1 \in 1..n /\ st[1] \in Announcement
  BY <1>1
<1>3. a \in Announcement /\ a.window = st[1].window /\ a.events = rest
  BY <1>2 DEF Announcement
<1>4. Opens(a) => Opens(st[1])
  BY <1>3, Apart DEF Opens
<1>5. ts = [st EXCEPT ![1] = a]
  BY DEF Rest
<1> HIDE DEF a, ts
<1>6. ts \in Seq(Announcement) /\ Len(ts) = n /\ \A i \in 1..n : ts[i] = IF i = 1 THEN a ELSE st[i]
  <2> DEFINE k == 1
  <2>1. k \in 1..Len(st)
    BY <1>2
  <2>2. ts = [st EXCEPT ![k] = a] /\ \A i \in 1..n : i = k <=> i = 1
    BY <1>5
  <2> HIDE DEF k
  <2>3. /\ [st EXCEPT ![k] = a] \in Seq(Announcement) /\ Len([st EXCEPT ![k] = a]) = n
        /\ \A i \in 1..n : [st EXCEPT ![k] = a][i] = IF i = k THEN a ELSE st[i]
    BY <1>3, <2>1, ExceptSeq
  <2> QED BY <2>2, <2>3
<1>7. DOMAIN ts = DOMAIN st
  <2>1. DOMAIN ts = 1..Len(ts)
    BY <1>6, LenProperties
  <2> QED BY <1>1, <1>6, <2>1
<1>8. ts # <<>>
  BY <1>1, <1>6, EmptySeq
<1> HIDE DEF n
<1>9. \A i \in DOMAIN ts : (i = 1 /\ ts[i] = a) \/ (i # 1 /\ ts[i] = st[i])
  BY <1>1, <1>6, <1>7
<1>10. 1 \in DOMAIN st
  BY <1>1, <1>2
<1>11. \A i \in DOMAIN ts : ts[i].window = st[i].window /\ (Opens(ts[i]) => Opens(st[i]))
  BY <1>3, <1>4, <1>7, <1>9
<1>12. \A i \in DOMAIN ts : i # 1 => ts[i].events \in Opening \cup Closing
  BY <1>7, <1>9 DEF Sound
<1>13. Sound(L, un, ts)
  BY <1>7, <1>11, <1>12 DEF Sound
<1>14. ts[1] = a
  BY <1>9, <1>10, <1>7
<1> QED BY <1>3, <1>6, <1>8, <1>13, <1>14 DEF ts

\* The last one is, and L becomes M.
LEMMA TailSound ==
  ASSUME NEW L, NEW M, NEW un, NEW st \in Seq(Announcement), st # <<>>, Sound(L, un, st),
         \/ Range(M) \subseteq Range(L)
         \/ Opens(st[1]) /\ Range(M) = Range(L) \cup {Full(st[1].window)}
  PROVE  /\ Tail(st) \in Seq(Announcement)
         /\ Tail(st) # <<>> => Tail(st)[1].events \in Opening \cup Closing
         /\ Sound(M, un, Tail(st))
<1> DEFINE ts == Tail(st)
           n == Len(st)
<1>1. n \in Nat /\ n # 0 /\ DOMAIN st = 1..n /\ \A i \in 1..n : st[i] \in Announcement
  BY LenProperties, ElementOfSeq, EmptySeq
<1>2. ts \in Seq(Announcement) /\ Len(ts) = n - 1 /\ \A i \in 1..Len(ts) : ts[i] = st[i + 1]
  BY HeadTailProperties
<1>3. DOMAIN ts = 1..n - 1
  BY <1>2, LenProperties
<1>4. \A i \in DOMAIN ts : i + 1 \in DOMAIN st /\ i + 1 # 1 /\ ts[i] = st[i + 1]
  BY <1>1, <1>2, <1>3
<1>5. 1 \in DOMAIN st
  BY <1>1
<1>6. \A i, j \in DOMAIN ts : i + 1 = j + 1 => i = j
  BY <1>3
<1>7. ts # <<>> => 1 \in DOMAIN ts
  BY <1>2, <1>3, EmptySeq
<1> HIDE DEF ts, n
<1>8. \A x, y \in Window : Full(x) = Full(y) => x = y
  BY DEF Full
<1>9. \A i \in DOMAIN st : st[i].window \in Window
  BY <1>1 DEF Announcement
<1>10. \A i \in DOMAIN ts : ts[i].events \in Opening \cup Closing
  BY <1>4 DEF Sound
<1>11. \A i \in DOMAIN ts : Opens(ts[i]) => ts[i].window \notin un /\ Full(ts[i].window) \notin Range(M)
  <2> SUFFICES ASSUME NEW i \in DOMAIN ts, Opens(ts[i])
               PROVE  ts[i].window \notin un /\ Full(ts[i].window) \notin Range(M)
    OBVIOUS
  <2> DEFINE k == i + 1
  <2>1. k \in DOMAIN st /\ k # 1 /\ ts[i] = st[k]
    BY <1>4
  <2> HIDE DEF k
  <2>2. st[k].window \notin un /\ Full(st[k].window) \notin Range(L)
    BY <2>1 DEF Sound
  <2>3. Opens(st[1]) => Full(st[k].window) # Full(st[1].window)
    BY <1>5, <1>8, <1>9, <2>1 DEF Sound
  <2> QED BY <2>1, <2>2, <2>3
<1>12. \A i, j \in DOMAIN ts : i # j /\ Opens(ts[i]) /\ Opens(ts[j]) => ts[i].window # ts[j].window
  <2> SUFFICES ASSUME NEW i \in DOMAIN ts, NEW j \in DOMAIN ts, i # j, Opens(ts[i]), Opens(ts[j])
               PROVE  ts[i].window # ts[j].window
    OBVIOUS
  <2> DEFINE k == i + 1
             l == j + 1
  <2>1. k \in DOMAIN st /\ l \in DOMAIN st /\ k # l /\ ts[i] = st[k] /\ ts[j] = st[l]
    BY <1>4, <1>6
  <2> HIDE DEF k, l
  <2> QED BY <2>1 DEF Sound
<1>13. \A x \in un : Full(x) \notin Range(M)
  <2> SUFFICES ASSUME NEW x \in un PROVE Full(x) \notin Range(M)
    OBVIOUS
  <2>1. Full(x) \notin Range(L)
    BY DEF Sound
  <2>2. Opens(st[1]) => Full(x) # Full(st[1].window)
    <3>1. Opens(st[1]) => st[1].window # x
      BY <1>5 DEF Sound
    <3>2. Full(x).window = x /\ Full(st[1].window).window = st[1].window
      BY DEF Full
    <3> QED BY <3>1, <3>2
  <2> QED BY <2>1, <2>2
<1>14. Sound(M, un, ts)
  BY <1>10, <1>11, <1>12, <1>13 DEF Sound
<1>15. ts # <<>> => ts[1].events \in Opening \cup Closing
  BY <1>7, <1>10
<1> QED BY <1>2, <1>14, <1>15 DEF ts

-----------------------------------------------------------------------------
(* The invariant of the pairing, and what the handlers do to it.           *)

Consistent(L, un, st, T, E) ==
  /\ IsInjective(L)
  /\ Sound(L, un, st)
  /\ st = <<>> => T = L /\ E = L
  /\ st # <<>> => Lock(L, st[1].window, st[1].events, T, E)

\* A handle that is announced finds room in the array it goes to: mgr_toplevel and
\* ext_list_toplevel do not turn it away.
Room ==
  stream # <<>> =>
    /\ Head(stream[1].events) = "zwlr_new" => Len(toplevels) < BAR_MAX_TOPLEVELS
    /\ Head(stream[1].events) = "ext_new" => Len(ext) < BAR_MAX_TOPLEVELS

PairInv ==
  /\ unborn \subseteq Window
  /\ stream \in Seq(Announcement)
  /\ \E L \in Seq(Pairs) : Consistent(L, unborn, stream, toplevels, ext)

\* An entry for c behind those of L is the only one for c.
LEMMA LastEntry ==
  ASSUME NEW L \in Seq(Pairs), NEW c \in Window, Full(c) \notin Range(L),
         NEW h \in Entry, h.window = c
  PROVE  /\ Append(L, h) \in Seq(Entry)
         /\ Len(Append(L, h)) = Len(L) + 1 /\ Append(L, h)[Len(L) + 1] = h
         /\ {i \in DOMAIN Append(L, h) : Append(L, h)[i].window = c} = {Len(L) + 1}
         /\ \A i \in 1..Len(L) : Append(L, h)[i] = L[i]
<1> DEFINE n == Len(L)
           s == Append(L, h)
<1>1. n \in Nat /\ DOMAIN L = 1..n /\ \A i \in 1..n : L[i] \in Pairs /\ L[i] \in Range(L)
  BY LenProperties, ElementOfSeq DEF Range
<1>2. L \in Seq(Entry)
  BY EntryFields, SeqMonotonic
<1>3. s \in Seq(Entry) /\ Len(s) = n + 1 /\ s[n + 1] = h /\ \A i \in 1..n : s[i] = L[i]
  BY <1>2, AppendProperties
<1>4. DOMAIN s = 1..n + 1
  BY <1>3, LenProperties
<1>5. \A i \in 1..n : L[i].window # c
  <2> SUFFICES ASSUME NEW i \in 1..n, L[i].window = c PROVE FALSE
    OBVIOUS
  <2>1. L[i] = Full(c)
    BY <1>1, EntryFields
  <2> QED BY <1>1, <2>1
<1> HIDE DEF s, n
<1>6. \A i \in 1..n + 1 : i \in 1..n \/ i = n + 1
  BY <1>1
<1>7. n + 1 \in 1..n + 1
  BY <1>1
<1>8. {i \in DOMAIN s : s[i].window = c} = {n + 1}
  BY <1>3, <1>4, <1>5, <1>6, <1>7
<1> QED BY <1>3, <1>8 DEF s, n

\* ext_identifier, on either array.
PositionsOf(s, c) == {i \in DOMAIN s : s[i].window = c}
Identified(s, at, c) ==
  [i \in DOMAIN s |-> IF i \in at THEN [s[i] EXCEPT !.identifier = c] ELSE s[i]]

\* The identifier of c goes to the last entry of either array and to no other.
LEMMA IdentifierArrives ==
  ASSUME NEW L \in Seq(Pairs), NEW c \in Window, Full(c) \notin Range(L)
  PROVE  /\ Identified(Append(L, Bare(c)), PositionsOf(Append(L, Bare(c)), c), c) = Append(L, Full(c))
         /\ Identified(L, PositionsOf(Append(L, Bare(c)), c), c) = L
<1> DEFINE at == PositionsOf(Append(L, Bare(c)), c)
<1> DEFINE n == Len(L)
           s == Append(L, Bare(c))
           t == Append(L, Full(c))
           b == Bare(c)
           p == Full(c)
<1>1. n \in Nat /\ DOMAIN L = 1..n /\ L \in [1..n -> Pairs]
  BY LenProperties
<1>2. b \in Entry /\ b.window = c /\ p \in Entry /\ p.window = c
  BY EntryFields
<1>3. [b EXCEPT !.identifier = c] = p
  BY DEF Bare, Full
<1> HIDE DEF b, p
<1>4. /\ s \in Seq(Entry) /\ Len(s) = n + 1 /\ s[n + 1] = b /\ at = {n + 1}
      /\ \A i \in 1..n : s[i] = L[i]
  <2>1. /\ Append(L, b) \in Seq(Entry)
        /\ Len(Append(L, b)) = Len(L) + 1 /\ Append(L, b)[Len(L) + 1] = b
        /\ {i \in DOMAIN Append(L, b) : Append(L, b)[i].window = c} = {Len(L) + 1}
        /\ \A i \in 1..Len(L) : Append(L, b)[i] = L[i]
    BY <1>2, LastEntry
  <2> QED BY <2>1 DEF b, PositionsOf
<1>5. t \in Seq(Entry) /\ Len(t) = n + 1 /\ t[n + 1] = p /\ \A i \in 1..n : t[i] = L[i]
  <2>1. /\ Append(L, p) \in Seq(Entry)
        /\ Len(Append(L, p)) = Len(L) + 1 /\ Append(L, p)[Len(L) + 1] = p
        /\ \A i \in 1..Len(L) : Append(L, p)[i] = L[i]
    BY <1>2, LastEntry
  <2> QED BY <2>1 DEF p
<1> HIDE DEF s, t, at
<1>6. /\ DOMAIN s = 1..n + 1 /\ DOMAIN t = 1..n + 1
      /\ t \in [1..n + 1 -> Entry]
  BY <1>4, <1>5, LenProperties
<1> HIDE DEF n
<1>7. \A i \in 1..n + 1 : i \in 1..n \/ i = n + 1
  BY <1>1
<1>8. n + 1 \notin 1..n
  BY <1>1
<1> DEFINE u == Identified(s, at, c)
           v == Identified(L, at, c)
<1>9. \A i \in 1..n + 1 : u[i] = t[i]
  BY <1>3, <1>4, <1>5, <1>6, <1>7, <1>8 DEF Identified
<1>10. DOMAIN u = 1..n + 1 /\ u = [i \in 1..n + 1 |-> u[i]]
  BY <1>6 DEF Identified
<1>11. \A i \in 1..n : v[i] = L[i]
  BY <1>1, <1>4, <1>8 DEF Identified
<1>12. DOMAIN v = 1..n /\ v = [i \in 1..n |-> v[i]]
  BY <1>1 DEF Identified
<1> HIDE DEF u, v
<1>13. u = t
  <2>1. t = [i \in 1..n + 1 |-> t[i]]
    BY <1>6
  <2> QED BY <1>9, <1>10, <2>1
<1>14. v = L
  <2>1. L = [i \in 1..n |-> L[i]]
    BY <1>1
  <2> QED BY <1>11, <1>12, <2>1
<1> QED BY <1>13, <1>14 DEF u, v, s, t, at

\* The zwlr handle of c takes the identifier that is at its position, if any.
LEMMA HandleArrives ==
  ASSUME NEW L \in Seq(Pairs), NEW c \in Window, Full(c) \notin Range(L),
         toplevels = L, Len(toplevels) < BAR_MAX_TOPLEVELS, mgr_toplevel(c)
  PROVE  /\ ext = L => toplevels' = Append(L, Bare(c))
         /\ ext = Append(L, Bare(c)) => toplevels' = Append(L, Bare(c))
         /\ ext = Append(L, Full(c)) => toplevels' = Append(L, Full(c))
         /\ ext' = ext
<1> DEFINE n == Len(L)
           b == Bare(c)
           p == Full(c)
<1>1. n \in Nat /\ n < BAR_MAX_TOPLEVELS /\ BAR_MAX_TOPLEVELS \in Nat
  BY LenProperties, TaskbarAssumption
<1>2. b \in Entry /\ b.window = c /\ p \in Entry /\ p.window = c /\ b.identifier = NULL /\ p.identifier = c
  BY EntryFields
<1>3. b = [window |-> c, identifier |-> NULL] /\ p = [window |-> c, identifier |-> c]
  BY DEF Bare, Full
<1> HIDE DEF b, p
<1>4. \A h \in Entry : h.window = c => Len(Append(L, h)) = Len(L) + 1 /\ Append(L, h)[Len(L) + 1] = h
  BY LastEntry
<1>5. /\ Len(Append(L, b)) = n + 1 /\ Append(L, b)[n + 1] = b
      /\ Len(Append(L, p)) = n + 1 /\ Append(L, p)[n + 1] = p
  BY <1>2, <1>4
<1>6. /\ toplevels' = Append(L, [window |-> c, identifier |->
                                   IF n + 1 <= Len(ext) THEN ext[n + 1].identifier ELSE NULL])
      /\ ext' = ext
  BY <1>1 DEF mgr_toplevel
<1>7. CASE ext = L
  <2>1. ~(n + 1 <= Len(ext))
    BY <1>1, <1>7
  <2>2. toplevels' = Append(L, b)
    BY <1>3, <1>6, <2>1
  <2> QED BY <1>2, <1>5, <1>6, <1>7, <2>2, <1>1 DEF b, p
<1>8. CASE ext = Append(L, b)
  <2>1. n + 1 <= Len(ext) /\ ext[n + 1].identifier = NULL
    BY <1>1, <1>2, <1>5, <1>8
  <2>2. toplevels' = Append(L, b)
    BY <1>3, <1>6, <2>1
  <2>3. ext # L
    BY <1>1, <1>5, <1>8
  <2>4. ext # Append(L, p)
    BY <1>2, <1>5, <1>8, TaskbarAssumption
  <2> QED BY <1>6, <1>8, <2>2, <2>3, <2>4 DEF b, p
<1>9. CASE ext = Append(L, p)
  <2>1. n + 1 <= Len(ext) /\ ext[n + 1].identifier = c
    BY <1>1, <1>2, <1>5, <1>9
  <2>2. toplevels' = Append(L, p)
    BY <1>3, <1>6, <2>1
  <2>3. ext # L
    BY <1>1, <1>5, <1>9
  <2>4. ext # Append(L, b)
    BY <1>2, <1>5, <1>9, TaskbarAssumption
  <2> QED BY <1>6, <1>9, <2>2, <2>3, <2>4 DEF b, p
<1> QED BY <1>6, <1>7, <1>8, <1>9 DEF b, p

\* The ext handle of c goes to the end.
LEMMA ExtArrives ==
  ASSUME NEW L \in Seq(Pairs), ext = L, Len(ext) < BAR_MAX_TOPLEVELS,
         NEW c \in Window, ext_list_toplevel(c)
  PROVE  ext' = Append(L, Bare(c)) /\ toplevels' = toplevels
<1>1. Len(L) < BAR_MAX_TOPLEVELS /\ Len(L) \in Nat /\ BAR_MAX_TOPLEVELS \in Nat
  BY LenProperties, TaskbarAssumption
<1>2. ~(Len(ext) >= BAR_MAX_TOPLEVELS)
  BY <1>1
<1> QED BY <1>2 DEF ext_list_toplevel, Bare

\* Tuples of one to three events.
LEMMA Tuples ==
  ASSUME NEW a, NEW b, NEW c
  PROVE  /\ Len(<<a>>) = 1 /\ Head(<<a>>) = a
         /\ Len(<<a, b>>) # 1 /\ Head(<<a, b>>) = a /\ Tail(<<a, b>>) = <<b>>
         /\ Len(<<a, b, c>>) # 1 /\ Head(<<a, b, c>>) = a /\ Tail(<<a, b, c>>) = <<b, c>>
OBVIOUS

\* The event that is dispatched, and what it leaves of the announcement.
LEMMA Dispatched ==
  ASSUME NEW event, NEW rest, stream # <<>>, Dispatch,
         Head(stream[1].events) = event,
         \/ Len(stream[1].events) = 1 /\ rest = <<>>
         \/ Len(stream[1].events) # 1 /\ rest = Tail(stream[1].events)
  PROVE  /\ event = "zwlr_new" => mgr_toplevel(stream[1].window)
         /\ event = "ext_new" => ext_list_toplevel(stream[1].window)
         /\ event = "ext_identifier" => ext_identifier(stream[1].window)
         /\ event = "zwlr_closed" => tl_closed(stream[1].window)
         /\ event = "ext_closed" => ext_closed(stream[1].window)
         /\ Len(stream[1].events) = 1 => stream' = Tail(stream)
         /\ Len(stream[1].events) # 1 => stream' = Rest(stream, rest)
         /\ unborn' = unborn /\ alive' = alive /\ owed' = owed /\ notify' = notify
BY DEF Dispatch, world, Rest

\* Some of the announcement is left: L stays.
LEMMA PartDone ==
  ASSUME PairInv, NEW L \in Seq(Pairs), Consistent(L, unborn, stream, toplevels, ext),
         stream # <<>>, NEW rest \in OpeningRest \cup ClosingRest,
         rest \in OpeningRest => Opens(stream[1]),
         stream' = Rest(stream, rest),
         unborn' = unborn,
         Lock(L, stream[1].window, rest, toplevels', ext')
  PROVE  PairInv'
<1>1. Sound(L, unborn, stream) /\ IsInjective(L) /\ stream \in Seq(Announcement)
  BY DEF Consistent, PairInv
<1>2. /\ stream' \in Seq(Announcement) /\ stream' # <<>>
      /\ stream'[1].window = stream[1].window /\ stream'[1].events = rest
      /\ Sound(L, unborn, stream')
  BY <1>1, RestSound
<1>3. Consistent(L, unborn', stream', toplevels', ext')
  BY <1>1, <1>2 DEF Consistent
<1>4. unborn' \subseteq Window
  BY DEF PairInv
<1> QED BY <1>2, <1>3, <1>4 DEF PairInv

\* Nothing of it is left: both arrays are M, the new L.
LEMMA AllDone ==
  ASSUME PairInv, NEW L \in Seq(Pairs), Consistent(L, unborn, stream, toplevels, ext),
         stream # <<>>, NEW M \in Seq(Pairs), IsInjective(M),
         \/ Range(M) \subseteq Range(L)
         \/ Opens(stream[1]) /\ Range(M) = Range(L) \cup {Full(stream[1].window)},
         stream' = Tail(stream), unborn' = unborn, toplevels' = M, ext' = M
  PROVE  PairInv'
<1>1. Sound(L, unborn, stream) /\ stream \in Seq(Announcement)
  BY DEF Consistent, PairInv
<1>2. /\ Tail(stream) \in Seq(Announcement)
      /\ Tail(stream) # <<>> => Tail(stream)[1].events \in Opening \cup Closing
      /\ Sound(M, unborn, Tail(stream))
  BY <1>1, TailSound
<1>3. stream' # <<>> => Lock(M, stream'[1].window, stream'[1].events, toplevels', ext')
  BY <1>2 DEF Lock
<1>4. Consistent(M, unborn', stream', toplevels', ext')
  BY <1>2, <1>3 DEF Consistent
<1> QED BY <1>2, <1>4 DEF PairInv

\* The identifier has come for both.
LEMMA BothKnown ==
  ASSUME NEW L \in Seq(Pairs), IsInjective(L), NEW c \in Window, Full(c) \notin Range(L)
  PROVE  /\ Append(L, Full(c)) \in Seq(Pairs) /\ IsInjective(Append(L, Full(c)))
         /\ Range(Append(L, Full(c))) = Range(L) \cup {Full(c)}
<1> DEFINE p == Full(c)
<1>1. p \in Pairs
  BY EntryFields
<1> HIDE DEF p
<1>2. /\ Append(L, p) \in Seq(Pairs) /\ Range(Append(L, p)) = Range(L) \cup {p}
      /\ p \notin Range(L) => IsInjective(Append(L, p))
  BY <1>1, AppendList
<1> QED BY <1>2 DEF p

\* Any event, in any order that the announcement may have.
LEMMA DispatchPairs ==
  ASSUME Room, PairInv, Dispatch
  PROVE  PairInv'
<1> DEFINE c == stream[1].window
           events == stream[1].events
<1>1. stream # <<>> /\ stream \in Seq(Announcement) /\ unborn' = unborn
  BY DEF Dispatch, PairInv, world
<1>2. PICK L \in Seq(Pairs) : Consistent(L, unborn, stream, toplevels, ext)
  BY DEF PairInv
<1>3. 1 \in DOMAIN stream /\ c \in Window
  <2>1. stream[1] \in Announcement /\ 1 \in DOMAIN stream
    BY <1>1, LenProperties, ElementOfSeq, EmptySeq
  <2> QED BY <2>1 DEF Announcement
<1>4. Lock(L, c, events, toplevels, ext) /\ IsInjective(L)
  BY <1>1, <1>2 DEF Consistent
<1>5. events \in Opening \cup OpeningRest => Opens(stream[1]) /\ Full(c) \notin Range(L)
  BY <1>2, <1>3 DEF Consistent, Sound, Opens
<1>6. ASSUME NEW rest \in OpeningRest \cup ClosingRest,
             rest \in OpeningRest => Opens(stream[1]),
             stream' = Rest(stream, rest),
             Lock(L, c, rest, toplevels', ext')
      PROVE  PairInv'
  BY <1>1, <1>2, <1>6, PartDone
<1>7. ASSUME Opens(stream[1]), Full(c) \notin Range(L), stream' = Tail(stream),
             toplevels' = Append(L, Full(c)), ext' = Append(L, Full(c))
      PROVE  PairInv'
  <2> DEFINE M == Append(L, Full(c))
  <2>1. M \in Seq(Pairs) /\ IsInjective(M) /\ Range(M) = Range(L) \cup {Full(c)}
    BY <1>3, <1>4, <1>7, BothKnown
  <2> HIDE DEF M
  <2>2. toplevels' = M /\ ext' = M
    BY <1>7 DEF M
  <2> QED BY <1>1, <1>2, <1>7, <2>1, <2>2, AllDone
<1>8. ASSUME stream' = Tail(stream),
             toplevels' = Drop(L, HandlesOf(c)), ext' = Drop(L, HandlesOf(c))
      PROVE  PairInv'
  <2> DEFINE M == Drop(L, HandlesOf(c))
  <2>1. M \in Seq(Pairs) /\ IsInjective(M) /\ Range(M) \subseteq Range(L)
    BY <1>4, DropProperties
  <2> HIDE DEF M
  <2>2. toplevels' = M /\ ext' = M
    BY <1>8 DEF M
  <2> QED BY <1>1, <1>2, <1>8, <2>1, <2>2, AllDone
<1>9. CASE events = <<"zwlr_new", "ext_new", "ext_identifier">> /\ toplevels = L /\ ext = L
  <2>1. events \in Opening
    BY <1>9 DEF Opening
  <2> DEFINE rest == <<"ext_new", "ext_identifier">>
  <2>2. Head(events) = "zwlr_new" /\ Len(events) # 1 /\ Tail(events) = rest /\ rest \in OpeningRest
    BY <1>9, Tuples DEF OpeningRest
  <2>3. mgr_toplevel(c) /\ stream' = Rest(stream, rest)
    BY <1>1, <2>2, Dispatched
  <2>4. toplevels' = Append(L, Bare(c)) /\ ext' = L
    BY <1>1, <1>3, <1>5, <1>9, <2>1, <2>2, <2>3, HandleArrives DEF Room
  <2>5. Lock(L, c, rest, toplevels', ext')
    BY <2>4 DEF Lock
  <2> QED BY <1>5, <1>6, <2>1, <2>2, <2>3, <2>5
<1>10. CASE events = <<"ext_new", "ext_identifier", "zwlr_new">> /\ toplevels = L /\ ext = L
  <2>1. events \in Opening
    BY <1>10 DEF Opening
  <2> DEFINE rest == <<"ext_identifier", "zwlr_new">>
  <2>2. Head(events) = "ext_new" /\ Len(events) # 1 /\ Tail(events) = rest /\ rest \in OpeningRest
    BY <1>10, Tuples DEF OpeningRest
  <2>3. ext_list_toplevel(c) /\ stream' = Rest(stream, rest)
    BY <1>1, <2>2, Dispatched
  <2>4. toplevels' = L /\ ext' = Append(L, Bare(c))
    BY <1>1, <1>3, <1>5, <1>10, <2>1, <2>2, <2>3, ExtArrives DEF Room
  <2>5. Lock(L, c, rest, toplevels', ext')
    BY <2>4 DEF Lock
  <2> QED BY <1>5, <1>6, <2>1, <2>2, <2>3, <2>5
<1>11. CASE events = <<"ext_new", "zwlr_new", "ext_identifier">> /\ toplevels = L /\ ext = L
  <2>1. events \in Opening
    BY <1>11 DEF Opening
  <2> DEFINE rest == <<"zwlr_new", "ext_identifier">>
  <2>2. Head(events) = "ext_new" /\ Len(events) # 1 /\ Tail(events) = rest /\ rest \in OpeningRest
    BY <1>11, Tuples DEF OpeningRest
  <2>3. ext_list_toplevel(c) /\ stream' = Rest(stream, rest)
    BY <1>1, <2>2, Dispatched
  <2>4. toplevels' = L /\ ext' = Append(L, Bare(c))
    BY <1>1, <1>3, <1>5, <1>11, <2>1, <2>2, <2>3, ExtArrives DEF Room
  <2>5. Lock(L, c, rest, toplevels', ext')
    BY <2>4 DEF Lock
  <2> QED BY <1>5, <1>6, <2>1, <2>2, <2>3, <2>5
<1>12. CASE events = <<"ext_new", "ext_identifier">> /\ toplevels = Append(L, Bare(c)) /\ ext = L
  <2>1. events \in OpeningRest
    BY <1>12 DEF OpeningRest
  <2> DEFINE rest == <<"ext_identifier">>
  <2>2. Head(events) = "ext_new" /\ Len(events) # 1 /\ Tail(events) = rest /\ rest \in OpeningRest
    BY <1>12, Tuples DEF OpeningRest
  <2>3. ext_list_toplevel(c) /\ stream' = Rest(stream, rest)
    BY <1>1, <2>2, Dispatched
  <2>4. toplevels' = Append(L, Bare(c)) /\ ext' = Append(L, Bare(c))
    BY <1>1, <1>3, <1>5, <1>12, <2>1, <2>2, <2>3, ExtArrives DEF Room
  <2>5. Lock(L, c, rest, toplevels', ext')
    BY <2>4 DEF Lock
  <2> QED BY <1>5, <1>6, <2>1, <2>2, <2>3, <2>5
<1>13. CASE events = <<"zwlr_new", "ext_identifier">> /\ toplevels = L /\ ext = Append(L, Bare(c))
  <2>1. events \in OpeningRest
    BY <1>13 DEF OpeningRest
  <2> DEFINE rest == <<"ext_identifier">>
  <2>2. Head(events) = "zwlr_new" /\ Len(events) # 1 /\ Tail(events) = rest /\ rest \in OpeningRest
    BY <1>13, Tuples DEF OpeningRest
  <2>3. mgr_toplevel(c) /\ stream' = Rest(stream, rest)
    BY <1>1, <2>2, Dispatched
  <2>4. toplevels' = Append(L, Bare(c)) /\ ext' = Append(L, Bare(c))
    BY <1>1, <1>3, <1>5, <1>13, <2>1, <2>2, <2>3, HandleArrives DEF Room
  <2>5. Lock(L, c, rest, toplevels', ext')
    BY <2>4 DEF Lock
  <2> QED BY <1>5, <1>6, <2>1, <2>2, <2>3, <2>5
<1>14. CASE events = <<"ext_identifier", "zwlr_new">> /\ toplevels = L /\ ext = Append(L, Bare(c))
  <2>1. events \in OpeningRest
    BY <1>14 DEF OpeningRest
  <2> DEFINE rest == <<"zwlr_new">>
  <2>2. Head(events) = "ext_identifier" /\ Len(events) # 1 /\ Tail(events) = rest /\ rest \in OpeningRest
    BY <1>14, Tuples DEF OpeningRest
  <2>3. ext_identifier(c) /\ stream' = Rest(stream, rest)
    BY <1>1, <2>2, Dispatched
  <2>4. /\ ext' = Identified(ext, PositionsOf(ext, c), c)
        /\ toplevels' = Identified(toplevels, PositionsOf(ext, c), c)
    BY <2>3 DEF ext_identifier, Identified, PositionsOf
  <2>5. toplevels' = L /\ ext' = Append(L, Full(c))
    BY <1>3, <1>5, <1>14, <2>1, <2>4, IdentifierArrives
  <2>6. Lock(L, c, rest, toplevels', ext')
    BY <2>5 DEF Lock
  <2> QED BY <1>5, <1>6, <2>1, <2>2, <2>3, <2>6
<1>15. CASE events = <<"ext_identifier">> /\ toplevels = Append(L, Bare(c)) /\ ext = Append(L, Bare(c))
  <2>1. events \in OpeningRest
    BY <1>15 DEF OpeningRest
  <2> DEFINE rest == <<>>
  <2>2. Head(events) = "ext_identifier" /\ Len(events) = 1
    BY <1>15, Tuples
  <2>3. ext_identifier(c) /\ stream' = Tail(stream)
    BY <1>1, <2>2, Dispatched
  <2>4. /\ ext' = Identified(ext, PositionsOf(ext, c), c)
        /\ toplevels' = Identified(toplevels, PositionsOf(ext, c), c)
    BY <2>3 DEF ext_identifier, Identified, PositionsOf
  <2>5. toplevels' = Append(L, Full(c)) /\ ext' = Append(L, Full(c))
    BY <1>3, <1>5, <1>15, <2>1, <2>4, IdentifierArrives
  <2> QED BY <1>5, <1>7, <2>1, <2>3, <2>5
<1>16. CASE events = <<"zwlr_new">> /\ toplevels = L /\ ext = Append(L, Full(c))
  <2>1. events \in OpeningRest
    BY <1>16 DEF OpeningRest
  <2>2. Head(events) = "zwlr_new" /\ Len(events) = 1
    BY <1>16, Tuples
  <2>3. mgr_toplevel(c) /\ stream' = Tail(stream)
    BY <1>1, <2>2, Dispatched
  <2>4. toplevels' = Append(L, Full(c)) /\ ext' = Append(L, Full(c))
    BY <1>1, <1>3, <1>5, <1>16, <2>1, <2>2, <2>3, HandleArrives DEF Room
  <2> QED BY <1>5, <1>7, <2>1, <2>3, <2>4
<1>17. CASE events = <<"zwlr_closed", "ext_closed">> /\ toplevels = L /\ ext = L
  <2> DEFINE rest == <<"ext_closed">>
  <2>1. Head(events) = "zwlr_closed" /\ Len(events) # 1 /\ Tail(events) = rest /\ rest \in ClosingRest
    BY <1>17, Tuples DEF ClosingRest
  <2>2. tl_closed(c) /\ stream' = Rest(stream, rest)
    BY <1>1, <2>1, Dispatched
  <2>3. Lock(L, c, rest, toplevels', ext')
    BY <1>17, <2>2 DEF Lock, tl_closed
  <2> QED BY <1>6, <2>1, <2>2, <2>3, Apart
<1>18. CASE events = <<"ext_closed", "zwlr_closed">> /\ toplevels = L /\ ext = L
  <2> DEFINE rest == <<"zwlr_closed">>
  <2>1. Head(events) = "ext_closed" /\ Len(events) # 1 /\ Tail(events) = rest /\ rest \in ClosingRest
    BY <1>18, Tuples DEF ClosingRest
  <2>2. ext_closed(c) /\ stream' = Rest(stream, rest)
    BY <1>1, <2>1, Dispatched
  <2>3. Lock(L, c, rest, toplevels', ext')
    BY <1>18, <2>2 DEF Lock, ext_closed
  <2> QED BY <1>6, <2>1, <2>2, <2>3, Apart
<1>19. CASE events = <<"ext_closed">> /\ toplevels = Drop(L, HandlesOf(c)) /\ ext = L
  <2>1. Head(events) = "ext_closed" /\ Len(events) = 1
    BY <1>19, Tuples
  <2>2. ext_closed(c) /\ stream' = Tail(stream)
    BY <1>1, <2>1, Dispatched
  <2> QED BY <1>8, <1>19, <2>2 DEF ext_closed
<1>20. CASE events = <<"zwlr_closed">> /\ toplevels = L /\ ext = Drop(L, HandlesOf(c))
  <2>1. Head(events) = "zwlr_closed" /\ Len(events) = 1
    BY <1>20, Tuples
  <2>2. tl_closed(c) /\ stream' = Tail(stream)
    BY <1>1, <2>1, Dispatched
  <2> QED BY <1>8, <1>20, <2>2 DEF tl_closed
<1> QED BY <1>4, <1>9, <1>10, <1>11, <1>12, <1>13, <1>14, <1>15, <1>16, <1>17, <1>18, <1>19, <1>20
        DEF Lock, Opening, Closing

-----------------------------------------------------------------------------
(* The steps of the bar and of the others.                                 *)

\* An entry is for a window that was opened, and has its identifier or none.
LEMMA EntriesAre ==
  ASSUME PairInv
  PROVE  /\ toplevels \in Seq(Entry)
         /\ \A h \in Range(toplevels) : /\ h \in Entry /\ h.window \notin unborn
                                        /\ h.identifier \in {NULL, h.window}
<1>1. PICK L \in Seq(Pairs) : Consistent(L, unborn, stream, toplevels, ext)
  BY DEF PairInv
<1>2. L \in Seq(Entry) /\ Pairs \subseteq Entry
  BY EntryFields, SeqMonotonic
<1>3. Range(L) \subseteq Pairs
  BY LenProperties, ElementOfSeq DEF Range
<1>4. ASSUME NEW h \in Range(L)
      PROVE  h \in Entry /\ h.window \notin unborn /\ h.identifier \in {NULL, h.window}
  <2>1. h \in Entry /\ h.identifier = h.window /\ h = Full(h.window)
    BY <1>3, EntryFields
  <2>2. h.window \notin unborn
    BY <1>1, <2>1 DEF Consistent, Sound
  <2> QED BY <2>1, <2>2
<1>5. CASE toplevels = L
  BY <1>2, <1>4, <1>5
<1>6. CASE stream # <<>> /\ toplevels # L
  <2> DEFINE c == stream[1].window
             b == Bare(c)
             H == HandlesOf(c)
  <2>1. 1 \in DOMAIN stream /\ c \in Window
    <3>1. stream \in Seq(Announcement)
      BY DEF PairInv
    <3>2. stream[1] \in Announcement /\ 1 \in DOMAIN stream
      BY <1>6, <3>1, LenProperties, ElementOfSeq, EmptySeq
    <3> QED BY <3>2 DEF Announcement
  <2>2. b \in Entry /\ b.window = c /\ b.identifier = NULL
    BY <2>1, EntryFields
  <2>3. /\ toplevels = Append(L, b) \/ toplevels = Drop(L, H)
        /\ toplevels = Append(L, b) => Opens(stream[1]) \/ toplevels = Drop(L, H)
    BY <1>1, <1>6 DEF Consistent, Lock, Opens, OpeningRest
  <2>4. Opens(stream[1]) => c \notin unborn
    BY <1>1, <2>1 DEF Consistent, Sound
  <2>5. Append(L, b) \in Seq(Entry) /\ Range(Append(L, b)) = Range(L) \cup {b}
    BY <1>2, <2>2, AppendList
  <2>6. Drop(L, H) \in Seq(Entry) /\ Range(Drop(L, H)) \subseteq Range(L)
    BY <1>2, DropProperties
  <2> HIDE DEF b, H, c
  <2>7. CASE toplevels = Drop(L, H)
    BY <1>4, <2>6, <2>7
  <2>8. CASE toplevels = Append(L, b) /\ Opens(stream[1])
    BY <1>4, <2>2, <2>4, <2>5, <2>8
  <2> QED BY <2>3, <2>7, <2>8
<1>7. stream = <<>> => toplevels = L
  BY <1>1 DEF Consistent
<1> QED BY <1>5, <1>6, <1>7

\* bar_taskbar_prune_ghosts
LEMMA ReapPairs ==
  ASSUME PairInv, NEW set, NEW received,
         bar_taskbar_prune_ghosts(set, received), UNCHANGED <<unborn, stream>>
  PROVE  PairInv'
<1> DEFINE Ghost(tl) == /\ set.valid /\ tl.identifier # NULL
                        /\ tl.window \in old \cap received
                        /\ tl.identifier \notin set.ids
           G == {tl \in Range(toplevels) : Ghost(tl)}
           F == {e \in Entry : e.identifier \in IdsOf(G)}
<1>1. toplevels' = Drop(toplevels, G) /\ ext' = Drop(ext, F)
  BY DEF bar_taskbar_prune_ghosts, IdsOf
<1>2. G \subseteq Range(toplevels) /\ \A g \in G : g.identifier # NULL
  OBVIOUS
<1>3. F = {e \in Entry : e.identifier \in IdsOf(G)}
  OBVIOUS
<1> HIDE DEF G, F
<1>4. PICK L \in Seq(Pairs) : Consistent(L, unborn, stream, toplevels, ext)
  BY DEF PairInv
<1> DEFINE M == Drop(L, G)
<1>5. M \in Seq(Pairs) /\ Range(M) \subseteq Range(L) /\ IsInjective(M)
  BY <1>4, DropProperties DEF Consistent
<1>6. Sound(M, unborn, stream)
  <2>1. Sound(L, unborn, stream)
    BY <1>4 DEF Consistent
  <2> HIDE DEF M
  <2> QED BY <1>5, <2>1, SoundShrinks
<1>7. CASE stream = <<>>
  <2>1. toplevels = L /\ ext = L
    BY <1>4, <1>7 DEF Consistent
  <2>2. \A h \in Range(L) : h \in Pairs /\ h \in Entry /\ h.identifier = h.window /\ h = Full(h.window)
    <3>1. Range(L) \subseteq Pairs
      BY LenProperties, ElementOfSeq DEF Range
    <3> QED BY <3>1, EntryFields
  <2>3. Range(L) \cap F = Range(L) \cap G
    <3>1. ASSUME NEW h \in Range(L), h \in F PROVE h \in G
      <4>1. PICK g \in G : g.identifier = h.identifier
        BY <1>3, <3>1 DEF IdsOf
      <4>2. g = Full(g.window) /\ g.identifier = g.window
        BY <1>2, <2>1, <2>2
      <4> QED BY <2>2, <4>1, <4>2
    <3>2. ASSUME NEW h \in Range(L), h \in G PROVE h \in F
      BY <1>3, <2>2, <3>2 DEF IdsOf
    <3> QED BY <3>1, <3>2
  <2>4. Drop(L, F) = Drop(L, G)
    BY <2>3, DropSame
  <2>5. toplevels' = M /\ ext' = M
    BY <1>1, <2>1, <2>4
  <2> HIDE DEF M
  <2>6. Consistent(M, unborn, stream, toplevels', ext')
    BY <1>5, <1>6, <1>7, <2>5 DEF Consistent
  <2> QED BY <1>5, <2>6 DEF PairInv
<1>8. CASE stream # <<>>
  <2> DEFINE c == stream[1].window
             events == stream[1].events
  <2>1. 1 \in DOMAIN stream /\ c \in Window
    <3>1. stream \in Seq(Announcement)
      BY DEF PairInv
    <3>2. stream[1] \in Announcement /\ 1 \in DOMAIN stream
      BY <1>8, <3>1, LenProperties, ElementOfSeq, EmptySeq
    <3> QED BY <3>2 DEF Announcement
  <2>2. Lock(L, c, events, toplevels, ext)
    BY <1>4, <1>8 DEF Consistent
  <2>3. events \in Opening \cup OpeningRest => Full(c) \notin Range(L)
    BY <1>4, <2>1 DEF Consistent, Sound, Opens
  <2> HIDE DEF c, events
  <2>4. Lock(M, c, events, Drop(toplevels, G), Drop(ext, F))
    BY <1>2, <1>3, <2>1, <2>2, <2>3, ReapKeepsLock
  <2> HIDE DEF M
  <2>5. Consistent(M, unborn, stream, toplevels', ext')
    BY <1>1, <1>5, <1>6, <1>8, <2>4 DEF Consistent, c, events
  <2> QED BY <1>5, <2>5 DEF PairInv
<1> QED BY <1>7, <1>8

\* Open, Close
LEMMA AnnouncePairs ==
  ASSUME PairInv, NEW x \in Window, NEW orders,
         \/ orders = Closing /\ unborn' = unborn
         \/ orders = Opening /\ x \in unborn /\ unborn' = unborn \ {x},
         Announce(orders, x), UNCHANGED <<toplevels, ext>>
  PROVE  PairInv'
<1>1. PICK events \in orders : stream' = Append(stream, [window |-> x, events |-> events])
  BY DEF Announce
<1>2. PICK L \in Seq(Pairs) : Consistent(L, unborn, stream, toplevels, ext)
  BY DEF PairInv
<1>3. unborn \subseteq Window /\ stream \in Seq(Announcement) /\ Sound(L, unborn, stream) /\ IsInjective(L)
  BY <1>2 DEF PairInv, Consistent
<1> DEFINE a == [window |-> x, events |-> events]
           left == unborn'
<1>4. Append(stream, a) \in Seq(Announcement) /\ Sound(L, left, Append(stream, a))
  <2>1. \/ events \in Closing /\ left = unborn
        \/ events \in Opening /\ x \in unborn /\ left = unborn \ {x}
    OBVIOUS
  <2> HIDE DEF left
  <2> QED BY <1>3, <2>1, AnnounceSound
<1>5. a.window = x /\ a.events = events /\ events \in Opening \cup Closing /\ a \in Announcement
  BY DEF Announcement
<1> HIDE DEF a
<1>6. stream' # <<>>
  BY <1>1, <1>3, <1>5, AppendProperties DEF a
<1>7. CASE stream = <<>>
  <2>1. stream'[1] = a /\ toplevels = L /\ ext = L
    BY <1>1, <1>2, <1>7 DEF a, Consistent
  <2>2. Lock(L, stream'[1].window, stream'[1].events, toplevels', ext')
    BY <1>5, <2>1 DEF Lock
  <2>3. Consistent(L, unborn', stream', toplevels', ext')
    BY <1>1, <1>3, <1>4, <1>6, <2>2 DEF Consistent, a
  <2> QED BY <1>1, <1>3, <1>4, <2>3 DEF PairInv, a
<1>8. CASE stream # <<>>
  <2>1. stream'[1] = stream[1]
    <3>1. 1 \in 1..Len(stream)
      BY <1>3, <1>8, EmptySeq
    <3>2. \A i \in 1..Len(stream) : Append(stream, a)[i] = stream[i]
      BY <1>3, <1>5, AppendProperties
    <3> QED BY <1>1, <3>1, <3>2 DEF a
  <2>2. Lock(L, stream'[1].window, stream'[1].events, toplevels', ext')
    BY <1>2, <1>8, <2>1 DEF Consistent
  <2>3. Consistent(L, unborn', stream', toplevels', ext')
    BY <1>1, <1>3, <1>4, <1>6, <2>2 DEF Consistent, a
  <2> QED BY <1>1, <1>3, <1>4, <2>3 DEF PairInv, a
<1> QED BY <1>7, <1>8

\* Every step keeps the pairing.
LEMMA PairsKept ==
  ASSUME Room, PairInv, [Next]_vars
  PROVE  PairInv'
<1>1. ASSUME UNCHANGED <<unborn, stream, toplevels, ext>> PROVE PairInv'
  BY <1>1 DEF PairInv
<1>2. ASSUME NEW x \in Window, Open(x) PROVE PairInv'
  BY <1>2, AnnouncePairs DEF Open
<1>3. ASSUME NEW x \in Window, Close(x) PROVE PairInv'
  BY <1>3, AnnouncePairs DEF Close
<1>4. ASSUME NEW x \in Window, Age(x) PROVE PairInv'
  BY <1>1, <1>4 DEF Age, world
<1>5. CASE wm_notify_bar_windows
  BY <1>1, <1>5 DEF wm_notify_bar_windows
<1>6. CASE Dispatch
  BY <1>6, DispatchPairs
<1>7. CASE bar_taskbar_set_wm_windows
  BY <1>7, ReapPairs DEF bar_taskbar_set_wm_windows, world
<1>8. CASE minute_tick
  BY <1>8, ReapPairs DEF minute_tick, world
<1>9. CASE UNCHANGED vars
  BY <1>1, <1>9 DEF vars, world
<1> QED BY <1>2, <1>3, <1>4, <1>5, <1>6, <1>7, <1>8, <1>9 DEF Next

\* It holds at first.
LEMMA PairsAtFirst ==
  ASSUME Init
  PROVE  PairInv
<1> DEFINE L == <<>>
<1>1. L \in Seq(Pairs) /\ Range(L) = {} /\ IsInjective(L) /\ stream \in Seq(Announcement)
  BY DEF Init, Range, IsInjective
<1>2. stream = L /\ toplevels = L /\ ext = L /\ DOMAIN stream = {} /\ unborn = Window
  BY DEF Init
<1>3. Sound(L, unborn, stream)
  <2> HIDE DEF L
  <2> QED BY <1>1, <1>2 DEF Sound
<1>4. Consistent(L, unborn, stream, toplevels, ext)
  BY <1>1, <1>2, <1>3 DEF Consistent
<1> QED BY <1>1, <1>2, <1>4 DEF PairInv

-----------------------------------------------------------------------------

\* The pairing, as long as there is room.
LEMMA PairInvariance == Spec /\ []Room => []PairInv
<1>1. Init => PairInv
  BY PairsAtFirst
<1>2. Room /\ PairInv /\ [Next]_vars => PairInv'
  BY PairsKept
<1> QED BY <1>1, <1>2, PTL DEF Spec

\* As long as no handle is turned away, an entry that has an identifier has the one
\* of its own window (mgr_toplevel, ext_identifier, taskbar_remove_ext_by_identifier),
\* whatever the order of the announcements and wherever ghosts are reaped.
THEOREM PairsAreRight == Spec /\ []Room => []PairedRight
<1>1. ASSUME PairInv PROVE PairedRight
  BY <1>1, EntriesAre DEF PairedRight, Range
<1> QED BY <1>1, PairInvariance, PTL

\* The windows that there ever are fit in the arrays.
Fits == IsFiniteSet(Window) /\ Cardinality(Window) <= BAR_MAX_TOPLEVELS

\* Then an entry for c is not one too many.
LEMMA RoomLeft ==
  ASSUME Fits, NEW L \in Seq(Pairs), IsInjective(L),
         NEW c \in Window, Full(c) \notin Range(L)
  PROVE  Len(L) < BAR_MAX_TOPLEVELS
<1> DEFINE f == [i \in 1..Len(L) |-> L[i].window]
           T == Window \ {c}
<1>1. Len(L) \in Nat /\ DOMAIN L = 1..Len(L) /\ \A i \in 1..Len(L) : L[i] \in Pairs
  BY LenProperties, ElementOfSeq
<1>2. IsFiniteSet(T) /\ Cardinality(T) = Cardinality(Window) - 1 /\ Cardinality(Window) \in Nat
  BY FS_RemoveElement, FS_CardinalityType DEF Fits
<1>3. ASSUME NEW i \in 1..Len(L) PROVE f[i] \in T /\ L[i] = Full(f[i])
  <2>1. L[i] \in Pairs /\ L[i] \in Range(L) /\ f[i] = L[i].window
    BY <1>1 DEF Range
  <2> QED BY <2>1, EntryFields
<1>4. f \in Injection(1..Len(L), T)
  <2>1. f \in [1..Len(L) -> T]
    BY <1>3
  <2>2. \A i, j \in 1..Len(L) : f[i] = f[j] => i = j
    <3> HIDE DEF f
    <3> QED BY <1>1, <1>3 DEF IsInjective
  <2>3. DOMAIN f = 1..Len(L)
    OBVIOUS
  <2> HIDE DEF f, T
  <2> QED BY <2>1, <2>2, <2>3 DEF Injection, IsInjective
<1> HIDE DEF f, T
<1>5. Cardinality(1..Len(L)) <= Cardinality(T)
  BY <1>2, <1>4, FS_Injection
<1>6. Cardinality(1..Len(L)) = Len(L)
  <2> DEFINE n == Len(L)
             one == 1
  <2>1. one \in Int /\ n \in Int /\ (one > n => n = 0) /\ n - one + 1 = n
    BY <1>1
  <2> HIDE DEF n, one
  <2>2. Cardinality(one..n) = n
    BY <2>1, FS_Interval
  <2> QED BY <2>2 DEF n, one
<1> QED BY <1>1, <1>2, <1>5, <1>6, TaskbarAssumption DEF Fits

\* Then no handle is turned away.
LEMMA RoomForAll ==
  ASSUME Fits, PairInv
  PROVE  Room
<1> SUFFICES ASSUME stream # <<>> PROVE Room
  BY DEF Room
<1> DEFINE c == stream[1].window
           events == stream[1].events
<1>1. PICK L \in Seq(Pairs) : Consistent(L, unborn, stream, toplevels, ext)
  BY DEF PairInv
<1>2. 1 \in DOMAIN stream /\ c \in Window
  <2>1. stream \in Seq(Announcement)
    BY DEF PairInv
  <2>2. stream[1] \in Announcement /\ 1 \in DOMAIN stream
    BY <2>1, LenProperties, ElementOfSeq, EmptySeq
  <2> QED BY <2>2 DEF Announcement
<1>3. Lock(L, c, events, toplevels, ext) /\ IsInjective(L)
  BY <1>1 DEF Consistent
<1>4. ASSUME events \in Opening \cup OpeningRest PROVE Len(L) < BAR_MAX_TOPLEVELS
  <2>1. Full(c) \notin Range(L)
    BY <1>1, <1>2, <1>4 DEF Consistent, Sound, Opens
  <2> QED BY <1>2, <1>3, <2>1, RoomLeft
<1>5. \A e \in Closing \cup ClosingRest : Head(e) # "zwlr_new" /\ Head(e) # "ext_new"
  BY DEF Closing, ClosingRest
<1>6. /\ Head(<<"ext_new", "ext_identifier">>) = "ext_new" /\ Head(<<"ext_identifier">>) = "ext_identifier"
      /\ Head(<<"ext_identifier", "zwlr_new">>) = "ext_identifier"
      /\ Head(<<"zwlr_new", "ext_identifier">>) = "zwlr_new" /\ Head(<<"zwlr_new">>) = "zwlr_new"
  OBVIOUS
<1>7. events \in Opening \cup Closing \cup OpeningRest \cup ClosingRest
  BY <1>3 DEF Lock, OpeningRest, ClosingRest
<1>8. ASSUME Head(events) = "zwlr_new" PROVE Len(toplevels) < BAR_MAX_TOPLEVELS
  <2>1. events \in Opening \cup OpeningRest
    BY <1>5, <1>7, <1>8
  <2>2. events # <<"ext_new", "ext_identifier">> /\ events # <<"ext_identifier">>
    BY <1>6, <1>8
  <2>3. events \notin Closing \cup ClosingRest
    BY <2>1, Apart
  <2>4. toplevels = L
    BY <1>3, <2>2, <2>3 DEF Lock, ClosingRest
  <2> QED BY <1>4, <2>1, <2>4
<1>9. ASSUME Head(events) = "ext_new" PROVE Len(ext) < BAR_MAX_TOPLEVELS
  <2>1. events \in Opening \cup OpeningRest
    BY <1>5, <1>7, <1>9
  <2>2. /\ events # <<"ext_identifier">> /\ events # <<"ext_identifier", "zwlr_new">>
        /\ events # <<"zwlr_new", "ext_identifier">> /\ events # <<"zwlr_new">>
    BY <1>6, <1>9
  <2>3. events \notin Closing \cup ClosingRest
    BY <2>1, Apart
  <2>4. ext = L
    BY <1>3, <2>2, <2>3 DEF Lock, ClosingRest
  <2> QED BY <1>4, <2>1, <2>4
<1> QED BY <1>8, <1>9 DEF Room

-----------------------------------------------------------------------------
(* The entries of live windows.                                            *)

\* The live windows fit in a set as the bar keeps it.
Few == IsFiniteSet(alive) /\ Cardinality(alive) <= BAR_MAX_TOPLEVELS

\* Windows come and go once: what is closed neither lives nor is yet to come.
WorldInv ==
  /\ alive \subseteq Window
  /\ alive \cap unborn = {}
  /\ old \cap unborn = {}
  /\ \A i \in DOMAIN stream : ~Opens(stream[i]) => stream[i].window \notin alive \cup unborn

\* No set that is yet to be judged by lacks a live window whose entry is old, and
\* the last one is up to date once maindeck-wm has published it.
NewsInv ==
  /\ notify \in Seq(SUBSET Window)
  /\ \A i \in DOMAIN notify : /\ IsFiniteSet(notify[i]) /\ Cardinality(notify[i]) <= BAR_MAX_TOPLEVELS
                              /\ alive \cap old \subseteq notify[i]
  /\ notify = <<>> /\ wm_set.valid => alive \cap old \subseteq wm_set.ids
  /\ notify # <<>> /\ ~owed => notify[Len(notify)] = alive
  /\ notify = <<>> /\ wm_set.valid /\ ~owed => wm_set.ids = alive

LiveInv == WorldInv /\ NewsInv

\* What follows an event of an announcement.
LEMMA RestOfOpening ==
  \A e \in Opening \cup OpeningRest : Len(e) # 1 => Tail(e) \in OpeningRest
<1>1. ASSUME NEW e \in Opening PROVE Tail(e) \in OpeningRest
  <2>1. CASE e = <<"zwlr_new", "ext_new", "ext_identifier">>
    BY <2>1, Tuples DEF OpeningRest
  <2>2. CASE e = <<"ext_new", "ext_identifier", "zwlr_new">>
    BY <2>2, Tuples DEF OpeningRest
  <2>3. CASE e = <<"ext_new", "zwlr_new", "ext_identifier">>
    BY <2>3, Tuples DEF OpeningRest
  <2> QED BY <2>1, <2>2, <2>3 DEF Opening
<1>2. ASSUME NEW e \in OpeningRest, Len(e) # 1 PROVE Tail(e) \in OpeningRest
  <2>1. e # <<"ext_identifier">> /\ e # <<"zwlr_new">>
    BY <1>2, Tuples
  <2>2. CASE e = <<"ext_new", "ext_identifier">>
    BY <2>2, Tuples DEF OpeningRest
  <2>3. CASE e = <<"ext_identifier", "zwlr_new">>
    BY <2>3, Tuples DEF OpeningRest
  <2>4. CASE e = <<"zwlr_new", "ext_identifier">>
    BY <2>4, Tuples DEF OpeningRest
  <2> QED BY <2>1, <2>2, <2>3, <2>4 DEF OpeningRest
<1> QED BY <1>1, <1>2

\* A first event tells the kind of its announcement.
LEMMA FirstEvents ==
  /\ \A e \in Opening \cup OpeningRest : Head(e) # "zwlr_closed"
  /\ \A e \in Closing \cup ClosingRest : Head(e) # "zwlr_new"
BY Tuples DEF Opening, OpeningRest, Closing, ClosingRest

\* The same invariant, when an event is dispatched, when a window is opened or closed,
\* and in any step.
LEMMA DispatchWorld ==
  ASSUME PairInv, WorldInv, Dispatch
  PROVE  WorldInv'
<1>1. /\ stream # <<>> /\ stream \in Seq(Announcement) /\ unborn' = unborn /\ alive' = alive
  BY DEF Dispatch, PairInv, world
<1>2. 1 \in DOMAIN stream /\ stream[1] \in Announcement /\ DOMAIN stream = 1..Len(stream)
  BY <1>1, LenProperties, ElementOfSeq, EmptySeq
<1>3. old' \subseteq old
  BY DEF Dispatch, mgr_toplevel, ext_list_toplevel, ext_identifier, tl_closed, ext_closed
<1>4. CASE Len(stream[1].events) = 1
  <2>1. stream' = Tail(stream)
    BY <1>4 DEF Dispatch
  <2>2. \A i \in DOMAIN Tail(stream) : i + 1 \in DOMAIN stream /\ Tail(stream)[i] = stream[i + 1]
    <3>1. /\ Tail(stream) \in Seq(Announcement) /\ Len(Tail(stream)) = Len(stream) - 1
          /\ \A i \in 1..Len(Tail(stream)) : Tail(stream)[i] = stream[i + 1]
      BY <1>1, HeadTailProperties
    <3>2. DOMAIN Tail(stream) = 1..Len(Tail(stream)) /\ Len(stream) \in Nat
      BY <1>1, <3>1, LenProperties
    <3> QED BY <1>2, <3>1, <3>2
  <2>3. \A i \in DOMAIN stream' : ~Opens(stream'[i]) => stream'[i].window \notin alive \cup unborn
    BY <2>1, <2>2 DEF WorldInv
  <2> QED BY <1>1, <1>3, <2>3 DEF WorldInv
<1>5. CASE Len(stream[1].events) # 1
  <2> DEFINE rest == Tail(stream[1].events)
             a == [stream[1] EXCEPT !.events = rest]
  <2>1. stream' = [stream EXCEPT ![1] = a]
    BY <1>5 DEF Dispatch
  <2>2. a.window = stream[1].window /\ a.events = rest
    BY <1>2 DEF Announcement
  <2>3. Opens(stream[1]) => Opens(a)
    BY <1>5, <2>2, RestOfOpening DEF Opens
  <2> HIDE DEF a
  <2>4. \A i \in DOMAIN stream' : /\ i \in DOMAIN stream /\ stream'[i].window = stream[i].window
                                  /\ Opens(stream[i]) => Opens(stream'[i])
    BY <1>2, <2>1, <2>2, <2>3
  <2>5. \A i \in DOMAIN stream' : ~Opens(stream'[i]) => stream'[i].window \notin alive \cup unborn
    BY <2>4 DEF WorldInv
  <2> QED BY <1>1, <1>3, <2>5 DEF WorldInv
<1> QED BY <1>4, <1>5

LEMMA AnnounceWorld ==
  ASSUME PairInv, WorldInv, NEW x \in Window,
         \/ Open(x)
         \/ Close(x)
  PROVE  WorldInv'
<1>1. stream \in Seq(Announcement)
  BY DEF PairInv
<1>2. PICK events \in Opening \cup Closing :
        /\ stream' = Append(stream, [window |-> x, events |-> events])
        /\ Open(x) => events \in Opening
        /\ Close(x) => events \in Closing \/ Open(x)
  BY DEF Open, Close, Announce
<1> DEFINE a == [window |-> x, events |-> events]
<1>3. a \in Announcement /\ a.window = x /\ a.events = events
  BY DEF Announcement
<1>4. stream' = Append(stream, a)
  BY <1>2
<1> HIDE DEF a
<1>5. \A i \in DOMAIN stream' : \/ i \in DOMAIN stream /\ stream'[i] = stream[i]
                                \/ stream'[i] = a
  <2>1. /\ Append(stream, a) \in Seq(Announcement) /\ Len(Append(stream, a)) = Len(stream) + 1
        /\ \A i \in 1..Len(stream) : Append(stream, a)[i] = stream[i]
        /\ Append(stream, a)[Len(stream) + 1] = a
    BY <1>1, <1>3, AppendProperties
  <2>2. /\ DOMAIN Append(stream, a) = 1..Len(stream) + 1 /\ DOMAIN stream = 1..Len(stream)
        /\ Len(stream) \in Nat
    BY <1>1, <2>1, LenProperties
  <2>3. \A i \in 1..Len(stream) + 1 : i \in 1..Len(stream) \/ i = Len(stream) + 1
    BY <2>2
  <2> QED BY <1>4, <2>1, <2>2, <2>3
<1>6. CASE Open(x)
  <2>1. Opens(a)
    BY <1>2, <1>3, <1>6 DEF Opens
  <2>2. x \in unborn /\ unborn' = unborn \ {x} /\ alive' \subseteq alive \cup {x} /\ old' = old
    BY <1>6 DEF Open
  <2>3. \A i \in DOMAIN stream : Opens(stream[i]) \/ stream[i].window # x
    BY <2>2 DEF WorldInv
  <2>4. \A i \in DOMAIN stream' : ~Opens(stream'[i]) => stream'[i].window \notin alive' \cup unborn'
    BY <1>5, <2>1, <2>2, <2>3 DEF WorldInv
  <2> QED BY <2>2, <2>4 DEF WorldInv
<1>7. CASE Close(x)
  <2>1. x \in alive /\ alive' = alive \ {x} /\ unborn' = unborn /\ old' = old
    BY <1>7 DEF Close
  <2>2. \A i \in DOMAIN stream' : ~Opens(stream'[i]) => stream'[i].window \notin alive' \cup unborn'
    BY <1>3, <1>5, <2>1 DEF WorldInv
  <2> QED BY <2>1, <2>2 DEF WorldInv
<1> QED BY <1>6, <1>7

LEMMA WorldKept ==
  ASSUME PairInv, WorldInv, [Next]_vars
  PROVE  WorldInv'
<1>1. ASSUME UNCHANGED <<unborn, alive, stream>>, old' \subseteq old PROVE WorldInv'
  BY <1>1 DEF WorldInv
<1>2. ASSUME NEW x \in Window, Open(x) \/ Close(x) PROVE WorldInv'
  BY <1>2, AnnounceWorld
<1>3. ASSUME NEW x \in Window, Age(x) PROVE WorldInv'
  <2>1. x \notin unborn
    BY <1>3, EntriesAre DEF Age, Windows, Range
  <2> QED BY <1>3, <2>1 DEF Age, WorldInv, world
<1>4. CASE wm_notify_bar_windows
  BY <1>1, <1>4 DEF wm_notify_bar_windows
<1>5. CASE Dispatch
  BY <1>5, DispatchWorld
<1>6. CASE bar_taskbar_set_wm_windows
  BY <1>1, <1>6 DEF bar_taskbar_set_wm_windows, bar_taskbar_prune_ghosts, world
<1>7. CASE minute_tick
  BY <1>1, <1>7 DEF minute_tick, bar_taskbar_prune_ghosts, world
<1>8. CASE UNCHANGED vars
  BY <1>1, <1>8 DEF vars, world
<1> QED BY <1>2, <1>3, <1>4, <1>5, <1>6, <1>7, <1>8 DEF Next

\* A set that is received is kept whole.
LEMMA SetIsWhole ==
  ASSUME NewsInv, bar_taskbar_set_wm_windows
  PROVE  /\ wm_set' = [valid |-> TRUE, ids |-> notify[1]]
         /\ notify # <<>> /\ 1 \in DOMAIN notify /\ notify' = Tail(notify)
<1>1. notify # <<>> /\ notify \in Seq(SUBSET Window) /\ notify' = Tail(notify) /\ Head(notify) = notify[1]
  BY DEF bar_taskbar_set_wm_windows, NewsInv
<1>2. 1 \in DOMAIN notify
  BY <1>1, LenProperties, EmptySeq
<1>3. PICK ids \in SUBSET notify[1] :
        /\ Cardinality(ids) = BAR_MAX_TOPLEVELS \/ ids = notify[1]
        /\ wm_set' = [valid |-> TRUE, ids |-> ids]
  BY <1>1 DEF bar_taskbar_set_wm_windows
<1>4. IsFiniteSet(notify[1]) /\ Cardinality(notify[1]) <= BAR_MAX_TOPLEVELS
  BY <1>2 DEF NewsInv
<1>5. ids = notify[1]
  <2>1. Cardinality(ids) <= Cardinality(notify[1]) /\ (Cardinality(notify[1]) = Cardinality(ids) => notify[1] = ids)
    BY <1>4, FS_Subset
  <2>2. Cardinality(notify[1]) \in Nat
    BY <1>4, FS_CardinalityType
  <2> QED BY <1>3, <1>4, <2>1, <2>2, TaskbarAssumption
<1> QED BY <1>1, <1>2, <1>3, <1>5

\* The sets under way, in any step.
LEMMA NewsKept ==
  ASSUME ~Lossy, Few, PairInv, WorldInv, NewsInv, [Next]_vars
  PROVE  NewsInv'
<1>1. ASSUME UNCHANGED <<alive, owed, notify, wm_set>>, old' \subseteq old PROVE NewsInv'
  BY <1>1 DEF NewsInv
<1>2. ASSUME NEW x \in Window, Open(x) PROVE NewsInv'
  <2>1. /\ owed' = TRUE /\ UNCHANGED <<notify, wm_set, old>> /\ alive' \subseteq alive \cup {x}
        /\ x \in unborn
    BY <1>2 DEF Open
  <2>2. alive' \cap old' \subseteq alive \cap old
    BY <2>1 DEF WorldInv
  <2> QED BY <2>1, <2>2 DEF NewsInv
<1>3. ASSUME NEW x \in Window, Close(x) PROVE NewsInv'
  <2>1. owed' = TRUE /\ UNCHANGED <<notify, wm_set, old>> /\ alive' \subseteq alive
    BY <1>3 DEF Close
  <2> QED BY <2>1 DEF NewsInv
<1>4. ASSUME NEW x \in Window, Age(x) PROVE NewsInv'
  <2>1. /\ UNCHANGED <<alive, owed, notify, wm_set>> /\ ~owed
        /\ \A i \in DOMAIN notify : notify[i] = alive
    BY <1>4 DEF Age, world
  <2> QED BY <2>1 DEF NewsInv
<1>5. CASE wm_notify_bar_windows
  <2> DEFINE q == Append(notify, alive)
             n == Len(notify)
  <2>1. owed' = FALSE /\ notify' = q /\ UNCHANGED <<alive, wm_set, old>>
    BY <1>5 DEF wm_notify_bar_windows
  <2>2. notify \in Seq(SUBSET Window) /\ alive \in SUBSET Window
    BY DEF NewsInv, WorldInv
  <2>3. /\ q \in Seq(SUBSET Window) /\ q # <<>> /\ Len(q) = n + 1 /\ q[n + 1] = alive
        /\ \A i \in 1..n : q[i] = notify[i]
    BY <2>2, AppendProperties
  <2>4. n \in Nat /\ DOMAIN notify = 1..n /\ DOMAIN q = 1..n + 1
    BY <2>2, <2>3, LenProperties
  <2> HIDE DEF q, n
  <2>5. \A i \in 1..n + 1 : i \in 1..n \/ i = n + 1
    BY <2>4
  <2>6. \A i \in DOMAIN q : IsFiniteSet(q[i]) /\ Cardinality(q[i]) <= BAR_MAX_TOPLEVELS /\ alive \cap old \subseteq q[i]
    BY <2>3, <2>4, <2>5 DEF NewsInv, Few
  <2> QED BY <2>1, <2>3, <2>6 DEF NewsInv
<1>6. CASE Dispatch
  <2>1. old' \subseteq old /\ UNCHANGED <<alive, owed, notify, wm_set>>
    BY <1>6 DEF Dispatch, mgr_toplevel, ext_list_toplevel, ext_identifier, tl_closed, ext_closed, world
  <2> QED BY <1>1, <2>1
<1>7. CASE bar_taskbar_set_wm_windows
  <2> DEFINE q == Tail(notify)
             n == Len(notify)
  <2>1. /\ wm_set' = [valid |-> TRUE, ids |-> notify[1]] /\ notify # <<>> /\ 1 \in DOMAIN notify /\ notify' = q
    BY <1>7, SetIsWhole
  <2>2. old' \subseteq old /\ UNCHANGED <<alive, owed>>
    BY <1>7 DEF bar_taskbar_set_wm_windows, bar_taskbar_prune_ghosts, world
  <2>3. notify \in Seq(SUBSET Window)
    BY DEF NewsInv
  <2>4. q \in Seq(SUBSET Window) /\ Len(q) = n - 1 /\ \A i \in 1..Len(q) : q[i] = notify[i + 1]
    BY <2>1, <2>3, HeadTailProperties
  <2>5. n \in Nat /\ n # 0 /\ DOMAIN notify = 1..n /\ DOMAIN q = 1..n - 1 /\ (q = <<>> => Len(q) = 0)
    BY <2>1, <2>3, <2>4, LenProperties, EmptySeq
  <2>10. q # <<>> => Len(q) # 0
    BY <2>4, EmptySeq
  <2> HIDE DEF q, n
  <2>6. \A i \in DOMAIN q : i + 1 \in DOMAIN notify /\ q[i] = notify[i + 1]
    BY <2>4, <2>5
  <2>7. \A i \in DOMAIN q : IsFiniteSet(q[i]) /\ Cardinality(q[i]) <= BAR_MAX_TOPLEVELS /\ alive \cap old' \subseteq q[i]
    BY <2>2, <2>6 DEF NewsInv
  <2>8. q # <<>> => q[Len(q)] = notify[Len(notify)]
    BY <2>4, <2>5, <2>10 DEF n
  <2>9. q = <<>> => notify[1] = notify[Len(notify)]
    <3>1. q = <<>> => n = 1
      BY <2>4, <2>5
    <3> QED BY <3>1 DEF n
  <2>11. alive \cap old' \subseteq notify[1]
    BY <2>1, <2>2 DEF NewsInv
  <2> QED BY <2>1, <2>2, <2>4, <2>7, <2>8, <2>9, <2>11 DEF NewsInv
<1>8. CASE minute_tick
  BY <1>1, <1>8 DEF minute_tick, bar_taskbar_prune_ghosts, world
<1>9. CASE UNCHANGED vars
  BY <1>1, <1>9 DEF vars, world
<1> QED BY <1>2, <1>3, <1>4, <1>5, <1>6, <1>7, <1>8, <1>9 DEF Next

\* Both hold at first.
LEMMA LiveAtFirst ==
  ASSUME Init
  PROVE  LiveInv
<1>1. /\ notify = <<>> /\ stream = <<>> /\ alive = {} /\ old = {} /\ ~wm_set.valid /\ notify \in Seq(SUBSET Window)
      /\ DOMAIN notify = {} /\ DOMAIN stream = {}
  BY DEF Init
<1> QED BY <1>1 DEF LiveInv, WorldInv, NewsInv

\* No live window that has an entry in T lacks one in U.
Stays(T, U) == \A x \in alive : x \in Windows(T) => x \in Windows(U)

\* Windows, by the entries that are there.
LEMMA WindowsAre ==
  ASSUME NEW s, NEW x
  PROVE  x \in Windows(s) <=> \E h \in Range(s) : h.window = x
BY DEF Windows, Range

\* Dropping entries of dead windows leaves those of live ones.
LEMMA DroppedStays ==
  ASSUME PairInv, NEW D, \A h \in Range(toplevels) : h \in D => h.window \notin alive,
         toplevels' = Drop(toplevels, D)
  PROVE  Stays(toplevels, toplevels')
<1>1. Range(toplevels') = Range(toplevels) \ D
  BY EntriesAre, DropProperties
<1> SUFFICES ASSUME NEW x \in alive, x \in Windows(toplevels) PROVE x \in Windows(toplevels')
  BY DEF Stays
<1>2. PICK h \in Range(toplevels) : h.window = x
  BY WindowsAre
<1>3. h \in Range(toplevels')
  BY <1>1, <1>2
<1> QED BY <1>2, <1>3, WindowsAre

\* An event only takes the entry of a window that was closed.
LEMMA DispatchStays ==
  ASSUME PairInv, WorldInv, Dispatch
  PROVE  Stays(toplevels, toplevels')
<1> DEFINE c == stream[1].window
           event == Head(stream[1].events)
<1>1. stream # <<>> /\ stream \in Seq(Announcement) /\ toplevels \in Seq(Entry)
  BY EntriesAre DEF Dispatch, PairInv
<1>2. 1 \in DOMAIN stream /\ stream[1] \in Announcement /\ c \in Window
  <2>1. 1 \in DOMAIN stream /\ stream[1] \in Announcement
    BY <1>1, LenProperties, ElementOfSeq, EmptySeq
  <2> QED BY <2>1 DEF Announcement
<1>3. \/ event = "zwlr_new" /\ mgr_toplevel(c)
      \/ event = "ext_new" /\ ext_list_toplevel(c)
      \/ event = "ext_identifier" /\ ext_identifier(c)
      \/ event = "zwlr_closed" /\ tl_closed(c)
      \/ event = "ext_closed" /\ ext_closed(c)
  BY DEF Dispatch
<1>4. ASSUME toplevels' = toplevels PROVE Stays(toplevels, toplevels')
  BY <1>4 DEF Stays
<1>5. CASE mgr_toplevel(c)
  <2>1. CASE toplevels' = toplevels
    BY <1>4, <2>1
  <2>2. ASSUME NEW id, toplevels' = Append(toplevels, [window |-> c, identifier |-> id])
        PROVE  Stays(toplevels, toplevels')
    <3> DEFINE h == [window |-> c, identifier |-> id]
               S == Entry \cup {h}
    <3>1. h \in S /\ toplevels \in Seq(S)
      BY <1>1, SeqMonotonic
    <3> HIDE DEF h, S
    <3>2. Range(Append(toplevels, h)) = Range(toplevels) \cup {h}
      BY <3>1, AppendList
    <3> QED BY <2>2, <3>2, WindowsAre DEF Stays, h
  <2> QED BY <1>5, <2>1, <2>2 DEF mgr_toplevel
<1>6. CASE ext_identifier(c)
  <2>1. /\ DOMAIN toplevels' = DOMAIN toplevels
        /\ \A i \in DOMAIN toplevels : toplevels'[i].window = toplevels[i].window
    <3>1. \A i \in DOMAIN toplevels : toplevels[i] \in Entry
      BY <1>1, LenProperties, ElementOfSeq
    <3>2. \A h \in Entry : [h EXCEPT !.identifier = c].window = h.window
      BY DEF Entry
    <3>3. /\ DOMAIN toplevels' = DOMAIN toplevels
          /\ \A i \in DOMAIN toplevels : \/ toplevels'[i] = toplevels[i]
                                         \/ toplevels'[i] = [toplevels[i] EXCEPT !.identifier = c]
      BY <1>6 DEF ext_identifier
    <3> QED BY <3>1, <3>2, <3>3
  <2> QED BY <2>1 DEF Stays, Windows
<1>7. CASE event = "zwlr_closed" /\ tl_closed(c)
  <2>1. ~Opens(stream[1])
    BY <1>7, FirstEvents DEF Opens
  <2>2. c \notin alive
    BY <1>2, <2>1 DEF WorldInv
  <2>3. toplevels' = Drop(toplevels, HandlesOf(c))
    BY <1>7 DEF tl_closed
  <2>4. \A h \in Range(toplevels) : h \in HandlesOf(c) => h.window \notin alive
    BY <2>2 DEF HandlesOf
  <2> QED BY <2>3, <2>4, DroppedStays
<1>8. CASE ext_list_toplevel(c) \/ ext_closed(c)
  BY <1>4, <1>8 DEF ext_list_toplevel, ext_closed
<1> QED BY <1>3, <1>5, <1>6, <1>7, <1>8

\* The reaper only takes entries of windows that the set it goes by rightly lacks.
LEMMA ReapStays ==
  ASSUME PairInv, NEW set, NEW received, set.valid => alive \cap old \subseteq set.ids,
         bar_taskbar_prune_ghosts(set, received)
  PROVE  Stays(toplevels, toplevels')
<1> DEFINE Ghost(tl) == /\ set.valid /\ tl.identifier # NULL
                        /\ tl.window \in old \cap received
                        /\ tl.identifier \notin set.ids
           G == {tl \in Range(toplevels) : Ghost(tl)}
<1>1. toplevels' = Drop(toplevels, G)
  BY DEF bar_taskbar_prune_ghosts
<1>2. \A h \in Range(toplevels) : h \in G => h.window \notin alive
  BY EntriesAre
<1> HIDE DEF G
<1> QED BY <1>1, <1>2, DroppedStays

\* So no step takes the entry of a live window.
LEMMA EntriesStay ==
  ASSUME PairInv, LiveInv, [Next]_vars
  PROVE  [\A x \in alive \cap alive' :
            x \in Windows(toplevels) => x \in Windows(toplevels')]_vars
<1> SUFFICES ASSUME Next PROVE Stays(toplevels, toplevels')
  BY DEF Stays
<1>1. ASSUME toplevels' = toplevels PROVE Stays(toplevels, toplevels')
  BY <1>1 DEF Stays
<1>2. ASSUME NEW x \in Window, Open(x) \/ Close(x) \/ Age(x) PROVE Stays(toplevels, toplevels')
  BY <1>1, <1>2 DEF Open, Close, Age
<1>3. CASE wm_notify_bar_windows
  BY <1>1, <1>3 DEF wm_notify_bar_windows
<1>4. CASE Dispatch
  BY <1>4, DispatchStays DEF LiveInv
<1>5. CASE bar_taskbar_set_wm_windows
  <2>1. wm_set' = [valid |-> TRUE, ids |-> notify[1]] /\ 1 \in DOMAIN notify
    BY <1>5, SetIsWhole DEF LiveInv
  <2>2. alive \cap old \subseteq wm_set'.ids
    BY <2>1 DEF LiveInv, NewsInv
  <2>3. bar_taskbar_prune_ghosts(wm_set', Windows(toplevels))
    BY <1>5 DEF bar_taskbar_set_wm_windows
  <2> QED BY <2>2, <2>3, ReapStays
<1>6. CASE minute_tick
  <2>1. wm_set.valid => alive \cap old \subseteq wm_set.ids
    BY <1>6 DEF minute_tick, LiveInv, NewsInv
  <2>2. bar_taskbar_prune_ghosts(wm_set, since)
    BY <1>6 DEF minute_tick
  <2> QED BY <2>1, <2>2, ReapStays
<1> QED BY <1>2, <1>3, <1>4, <1>5, <1>6 DEF Next

\* If no datagram is lost, no handle is turned away and the live windows fit in a
\* set, no entry of a live window is reaped (bar_taskbar_prune_ghosts): no set that
\* an old entry is judged by is older than the entry.
THEOREM LiveEntriesAreSafe ==
  ~Lossy => (Spec /\ []Room /\ []Few => LiveEntriesStay)
<1> SUFFICES ASSUME ~Lossy PROVE Spec /\ []Room /\ []Few => LiveEntriesStay
  OBVIOUS
<1>1. Init => PairInv /\ LiveInv
  BY PairsAtFirst, LiveAtFirst
<1>2. Room /\ Few /\ PairInv /\ LiveInv /\ [Next]_vars => (PairInv /\ LiveInv)'
  BY PairsKept, WorldKept, NewsKept DEF LiveInv
<1>3. PairInv /\ LiveInv /\ [Next]_vars
        => [\A x \in alive \cap alive' : x \in Windows(toplevels) => x \in Windows(toplevels')]_vars
  BY EntriesStay
<1> QED BY <1>1, <1>2, <1>3, PTL DEF Spec, LiveEntriesStay

\* Both hold if there are no more windows than the bar has room for.
COROLLARY SafeIfAllFit ==
  Fits => (Spec => []PairedRight) /\ (~Lossy /\ Spec => LiveEntriesStay)
<1> SUFFICES ASSUME Fits PROVE (Spec => []PairedRight) /\ (~Lossy /\ Spec => LiveEntriesStay)
  OBVIOUS
<1>1. Init => PairInv /\ WorldInv
  BY PairsAtFirst, LiveAtFirst DEF LiveInv
<1>2. PairInv /\ WorldInv => Room /\ Few
  BY RoomForAll, FS_Subset, FS_CardinalityType, TaskbarAssumption DEF Fits, Few, WorldInv
<1>3. PairInv /\ WorldInv /\ [Next]_vars => (PairInv /\ WorldInv)'
  BY <1>2, PairsKept, WorldKept
<1>4. Spec => []Room /\ []Few
  BY <1>1, <1>2, <1>3, PTL DEF Spec
<1> QED BY <1>4, PairsAreRight, LiveEntriesAreSafe, PTL

=============================================================================
