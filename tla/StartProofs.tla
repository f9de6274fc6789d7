---------------------------- MODULE StartProofs ----------------------------
(***************************************************************************)
(* What programs rely on when they start, for any number of them: one bar  *)
(* is up and it is named in the lock file (BarSingleton), one menu is up   *)
(* and can be told to close (Launcher), and the menu's list of             *)
(* applications is fresh and its cache true (AppsCache).                   *)
(***************************************************************************)
EXTENDS AppsCache, BarSingleton, Launcher, WlListProofs

-----------------------------------------------------------------------------
(* However many bars are started and die, one at a time: there is one bar, *)
(* it has the lock, and the file names it.                                 *)

\* Of the bars that are starting there is one, and only it waits.
OneStarts ==
  \A p, q \in Bar : bar_pc[p] \in BarStarting /\ bar_pc[q] \in BarStarting => p = q

\* The lock is with a bar that is up or about to be, ...
LockIsHeld == lock # NOBODY => bar_pc[lock] \in {"own", "running"}
\* ... it is with the one that writes or has written its pid, ...
OwnerHolds == \A p \in Bar : bar_pc[p] \in {"own", "running"} => lock = p
\* ... which the file names then, ...
RunningIsNamed == \A p \in Bar : bar_pc[p] = "running" => file = p
\* ... so a bar that waits for the lock has told who has it, and has attempts
\* left.
HolderIsTold == \A p \in Bar : bar_pc[p] = "wait" => lock = NOBODY \/ lock \in told
AttemptsLeft ==
  \A p \in Bar : /\ bar_pc[p] \in {"off", "lock", "peek"} => tries[p] = 0
                 /\ bar_pc[p] = "wait" => tries[p] < Tries

Orderly ==
  /\ OneStarts /\ LockIsHeld /\ OwnerHolds /\ RunningIsNamed
  /\ HolderIsTold /\ AttemptsLeft

BarIInv == BarTypeOK /\ (together \/ late \/ Orderly)

USE BarSingletonAssumption DEF BarSingletonAssumption

LEMMA BarInitInv == BarInit => BarIInv
<1> SUFFICES ASSUME BarInit PROVE BarIInv
  OBVIOUS
<1> USE DEF BarInit, BarStarting
<1>1. BarTypeOK
  <2>1. bar_pc \in [Bar -> BarStarting \cup {"off", "running"}]
    OBVIOUS
  <2>2. tries \in [Bar -> 0..Tries]
    <3>1. 0 \in 0..Tries
      OBVIOUS
    <3> QED BY <3>1, Zenon
  <2> QED BY <2>1, <2>2 DEF BarTypeOK
<1>2. OneStarts /\ LockIsHeld /\ OwnerHolds /\ RunningIsNamed
  BY DEF OneStarts, LockIsHeld, OwnerHolds, RunningIsNamed
<1>3. HolderIsTold /\ AttemptsLeft
  BY DEF HolderIsTold, AttemptsLeft
<1> QED BY <1>1, <1>2, <1>3 DEF BarIInv, Orderly

\* Each step keeps the types.
LEMMA TypeStep == ASSUME BarTypeOK, [BarNext]_bar_vars PROVE BarTypeOK'
<1> USE DEF BarTypeOK, BarStarting
<1>1. ASSUME NEW p \in Bar, StartBar(p) PROVE BarTypeOK'
  BY <1>1 DEF StartBar
<1>2. ASSUME NEW p \in Bar, TryLock(p) PROVE BarTypeOK'
  BY <1>2 DEF TryLock, history
<1>3. ASSUME NEW p \in Bar, TellHolder(p) PROVE BarTypeOK'
  BY <1>3 DEF TellHolder, history
<1>4. ASSUME NEW p \in Bar, Wait(p) PROVE BarTypeOK'
  BY <1>4 DEF Wait
<1>5. ASSUME NEW p \in Bar, GiveUp(p) PROVE BarTypeOK'
  BY <1>5 DEF GiveUp, history
<1>6. ASSUME NEW p \in Bar, WritePid(p) PROVE BarTypeOK'
  BY <1>6 DEF WritePid, history
<1>7. ASSUME NEW p \in Bar, EndBar(p) PROVE BarTypeOK'
  BY <1>7 DEF EndBar, history
<1>8. CASE UNCHANGED bar_vars
  BY <1>8 DEF bar_vars
<1> QED BY <1>1, <1>2, <1>3, <1>4, <1>5, <1>6, <1>7, <1>8 DEF BarNext

\* A step of an orderly state leads to one, or is a step out of order: a bar is
\* started while another is starting, or one that was told to end is too slow.
LEMMA OrderlyStep ==
  ASSUME BarTypeOK, Orderly, ~together, ~late, [BarNext]_bar_vars
  PROVE  together' \/ late' \/ Orderly'
<1> USE DEF BarTypeOK, BarStarting, Orderly, OneStarts, LockIsHeld, OwnerHolds, RunningIsNamed,
            HolderIsTold, AttemptsLeft
<1>1. ASSUME NEW p \in Bar, StartBar(p) PROVE together' \/ Orderly'
  BY <1>1 DEF StartBar
<1>2. ASSUME NEW p \in Bar, TryLock(p) PROVE Orderly'
  BY <1>2 DEF TryLock
<1>3. ASSUME NEW p \in Bar, TellHolder(p) PROVE Orderly'
  \* Who has the lock is not the one that is starting, so it is up and named.
  <2>1. lock # NOBODY => file = lock /\ bar_pc[lock] # "off"
    BY <1>3 DEF TellHolder
  <2> QED BY <1>3, <2>1 DEF TellHolder
<1>4. ASSUME NEW p \in Bar, Wait(p) PROVE late' \/ Orderly'
  <2>1. CASE lock = NOBODY
    BY <1>4, <2>1 DEF Wait
  <2>2. CASE lock # NOBODY
    <3>1. lock \in told
      BY <1>4, <2>2 DEF Wait
    <3>2. tries[p] + 1 = Tries \/ tries[p] + 1 < Tries
      BY <1>4 DEF Wait
    <3> QED BY <1>4, <2>2, <3>1, <3>2 DEF Wait
  <2> QED BY <2>1, <2>2
<1>5. ASSUME NEW p \in Bar PROVE ~GiveUp(p)
  BY DEF GiveUp
<1>6. ASSUME NEW p \in Bar, WritePid(p) PROVE Orderly'
  BY <1>6 DEF WritePid
<1>7. ASSUME NEW p \in Bar, EndBar(p) PROVE Orderly'
  BY <1>7 DEF EndBar
<1>8. CASE UNCHANGED bar_vars
  BY <1>8 DEF bar_vars
<1> QED BY <1>1, <1>2, <1>3, <1>4, <1>5, <1>6, <1>7, <1>8 DEF BarNext

\* Disorder is remembered.
LEMMA HistoryStep ==
  ASSUME BarTypeOK, [BarNext]_bar_vars, together \/ late PROVE together' \/ late'
<1>1. ASSUME NEW p \in Bar, StartBar(p) PROVE together' \/ late'
  BY <1>1 DEF BarTypeOK, StartBar
<1>2. ASSUME NEW p \in Bar, Wait(p) PROVE together' \/ late'
  BY <1>2 DEF BarTypeOK, Wait
<1>3. CASE UNCHANGED history
  BY <1>3 DEF history
<1>4. ASSUME NEW p \in Bar,
             TryLock(p) \/ TellHolder(p) \/ GiveUp(p) \/ WritePid(p) \/ EndBar(p)
      PROVE  UNCHANGED history
  BY <1>4 DEF TryLock, TellHolder, GiveUp, WritePid, EndBar
<1>5. CASE UNCHANGED bar_vars
  BY <1>5 DEF bar_vars
<1> QED BY <1>1, <1>2, <1>3, <1>4, <1>5 DEF BarNext

\* The types, and order as long as nothing out of order has happened, hold in
\* every reachable state, for any number of bars and attempts.
THEOREM BarInvariance == BarSpec => []BarIInv
<1>1. BarIInv /\ [BarNext]_bar_vars => BarIInv'
  BY TypeStep, OrderlyStep, HistoryStep DEF BarIInv
<1> QED BY BarInitInv, <1>1, PTL DEF BarSpec

\* At most one bar is up, as long as bars are started one after the other and
\* obey in time.
THEOREM OneBarUp == BarSpec => []OneBar
<1>1. BarIInv => OneBar
  BY DEF BarIInv, Orderly, OwnerHolds, OneBar
<1> QED BY BarInvariance, <1>1, PTL

\* The bar that is up holds the lock and is named in the file, so the next one
\* finds it.
THEOREM HolderNamed == BarSpec => []HolderIsNamed
<1>1. BarIInv => HolderIsNamed
  BY DEF BarIInv, Orderly, OwnerHolds, RunningIsNamed, HolderIsNamed
<1> QED BY BarInvariance, <1>1, PTL

HIDE BarSingletonAssumption DEF BarSingletonAssumption

-----------------------------------------------------------------------------
(* There is one menu and it can be reached, for any number of processes,   *)
(* if keys, clicks and timers come one at a time (Alone).                  *)
(*                                                                         *)
(* What is passed on is the turn: a process that starts or ends has it, or *)
(* a letter that is under way, and whoever has it is alone.  A process     *)
(* takes a name away, and a menu that ends its own, only while no menu is  *)
(* up.                                                                     *)

Busy == {p \in Proc : menu_pc[p] \in Starting \cup Ending}
Letters == {p \in Proc : inbox[p] # <<>>}

MenuTypes ==
  /\ menu_pc \in [Proc -> Starting \cup Ending \cup {"off", "up", "done", "killed"}]
  /\ path \in Proc \cup {NONE} /\ menu_pid \in Proc \cup {NONE}
  /\ inbox \in [Proc -> Seq({"C", "M"})]

\* One has the turn.
OneTurn ==
  /\ \A p, q \in Busy : p = q
  /\ Busy # {} => Letters = {}
  /\ \A p, q \in Letters : p = q
  /\ \A p \in Letters : p \in Up /\ Len(inbox[p]) = 1

\* No menu is up while the name is taken away.
NobodyUp ==
  \A p \in Proc : menu_pc[p] \in {"unlink", "rebind", "ending", "closed"} => Up = {}

\* A menu that ends has its name until it removes it.
EndsReachable == \A p \in Proc : menu_pc[p] = "ending" => path = p

MenuIInv == MenuTypes /\ OneTurn /\ MenuReachable /\ NobodyUp /\ EndsReachable

-----------------------------------------------------------------------------
(* Letters.                                                                *)

LEMMA Delivered ==
  ASSUME NEW i \in Seq({"C", "M"}), i = <<>>, NEW x \in {"C", "M"}
  PROVE  Append(i, x) \in Seq({"C", "M"}) /\ Append(i, x) # <<>> /\ Len(Append(i, x)) = 1
<1>1. Len(i) = 0
  BY EmptySeq, Zenon
<1> QED BY <1>1, AppendProperties

LEMMA Read ==
  ASSUME NEW i \in Seq({"C", "M"}), Len(i) = 1
  PROVE  Tail(i) = <<>>
<1>0. Len(<<>>) = 0
  BY EmptySeq
<1>1. i # <<>>
  BY <1>0
<1>2. Tail(i) \in Seq({"C", "M"}) /\ Len(Tail(i)) = 0
  BY <1>1, HeadTailProperties
<1> QED BY <1>2, EmptySeq

-----------------------------------------------------------------------------
(* Steps.                                                                  *)

LEMMA MenuInitInv == MenuInit => MenuIInv
<1> SUFFICES ASSUME MenuInit PROVE MenuIInv
  OBVIOUS
<1>1. MenuTypes
  BY EmptySeq DEF MenuInit, MenuTypes
<1>2. Busy = {} /\ Letters = {} /\ Up = {}
  BY DEF MenuInit, Busy, Letters, Up, Starting, Ending
<1> QED BY <1>1, <1>2 DEF MenuInit, MenuIInv, OneTurn, MenuReachable, NobodyUp, EndsReachable

LEMMA CalmTurn ==
  ASSUME Alone, Calm
  PROVE  Busy = {} /\ Letters = {}
BY DEF Calm, Busy, Letters

\* A process starts.
LEMMA StartStep ==
  ASSUME MenuIInv, Alone, NEW p \in Proc, spawn_launcher(p) \/ bar_quicklaunch_exec(p)
  PROVE  MenuIInv'
<1> USE DEF MenuIInv, MenuTypes
<1>1. /\ menu_pc[p] = "off" /\ menu_pc' = [menu_pc EXCEPT ![p] = "bind"] /\ path' = path /\ inbox' = inbox
      /\ Busy = {} /\ Letters = {}
  BY CalmTurn DEF spawn_launcher, bar_quicklaunch_exec, Goto
<1>2. MenuTypes'
  BY <1>1 DEF spawn_launcher, bar_quicklaunch_exec, wm, Starting
<1>3. Busy' = {p} /\ Letters' = {} /\ Up' = Up
  BY <1>1 DEF Busy, Letters, Up, Starting, Ending
<1>4. OneTurn'
  BY <1>3 DEF OneTurn
<1>5. MenuReachable' /\ NobodyUp' /\ EndsReachable'
  BY <1>1, <1>3 DEF MenuReachable, NobodyUp, EndsReachable, Busy, Ending, Starting
<1> QED BY <1>2, <1>4, <1>5

\* The process that has the turn goes on, or comes up.
LEMMA BindStep ==
  ASSUME MenuIInv, NEW p \in Proc, Bind(p) \/ Rebind(p)
  PROVE  MenuIInv'
<1> USE DEF MenuIInv, MenuTypes
<1>1. /\ menu_pc[p] \in {"bind", "rebind"} /\ inbox' = inbox /\ menu_pid' = menu_pid
      /\ \/ path = NONE /\ path' = p /\ menu_pc' = [menu_pc EXCEPT ![p] = "up"]
         \/ /\ path # NONE /\ path' = path
            /\ menu_pc' = [menu_pc EXCEPT ![p] = IF menu_pc[p] = "bind" THEN "tell" ELSE "done"]
  BY DEF Bind, Rebind, Goto, wm
<1>2. MenuTypes'
  BY <1>1 DEF Starting
<1>3. Busy = {p} /\ Letters = {} /\ Letters' = {}
  BY <1>1 DEF OneTurn, Busy, Letters, Starting
<1>4. CASE path = NONE
  <2>1. Up = {}
    BY <1>4, LauncherAssumption DEF MenuReachable, Up, LauncherAssumption
  <2>2. Up' = {p} /\ Busy' = {} /\ path' = p
    BY <1>1, <1>3, <1>4, <2>1 DEF Up, Busy, Starting, Ending
  <2> QED BY <1>2, <1>3, <2>2 DEF OneTurn, MenuReachable, NobodyUp, EndsReachable,
                                  Busy, Starting, Ending
<1>5. CASE path # NONE
  <2>1. Up' = Up /\ Busy' \subseteq {p} /\ path' = path
    BY <1>1, <1>3, <1>5 DEF Up, Busy, Starting, Ending
  <2>2. \A q \in Proc : menu_pc'[q] \notin {"unlink", "rebind", "ending", "closed"}
    BY <1>1, <1>3, <1>5 DEF Busy, Starting, Ending
  <2> QED BY <1>2, <1>3, <2>1, <2>2 DEF OneTurn, MenuReachable, NobodyUp, EndsReachable
<1> QED BY <1>4, <1>5

\* It passes the turn on with a letter to the menu that listens.
LEMMA TellStep ==
  ASSUME MenuIInv, NEW p \in Proc, Tell(p)
  PROVE  MenuIInv'
<1> USE DEF MenuIInv, MenuTypes
<1>1. menu_pc[p] = "tell" /\ path' = path /\ menu_pid' = menu_pid
  BY DEF Tell, wm
<1>2. Busy = {p} /\ Letters = {}
  BY <1>1 DEF OneTurn, Busy, Letters, Starting
<1>3. CASE Listens(path)
  <2>1. path \in Proc /\ menu_pc[path] = "up" /\ path # p
    BY <1>1, <1>2, <1>3 DEF Listens, Busy, Ending
  <2>2. PICK x \in {"C", "M"} : inbox' = [inbox EXCEPT ![path] = Append(@, x)]
    BY <1>3 DEF Tell, Post
  <2>3. menu_pc' = [menu_pc EXCEPT ![p] = "done"]
    BY <1>3 DEF Tell, Goto
  <2>4. inbox[path] = <<>>
    BY <1>2, <2>1 DEF Letters
  <2>5. Append(inbox[path], x) \in Seq({"C", "M"}) /\ Append(inbox[path], x) # <<>>
        /\ Len(Append(inbox[path], x)) = 1
    BY <2>1, <2>4, Delivered
  <2>6. MenuTypes'
    BY <1>1, <2>1, <2>2, <2>3, <2>5
  <2>7. Letters' = {path} /\ Len(inbox'[path]) = 1
    BY <1>2, <2>1, <2>2, <2>5 DEF Letters
  <2>8. Busy' = {} /\ Up' = Up
    BY <1>1, <1>2, <2>3 DEF Busy, Up, Starting, Ending
  <2>9. OneTurn'
    BY <2>1, <2>7, <2>8 DEF OneTurn, Up
  <2>10. MenuReachable' /\ NobodyUp' /\ EndsReachable'
    BY <1>1, <2>8 DEF MenuReachable, NobodyUp, EndsReachable, Busy, Starting, Ending
  <2> QED BY <2>1, <2>6, <2>9, <2>10
<1>4. CASE ~Listens(path)
  <2>1. menu_pc' = [menu_pc EXCEPT ![p] = "unlink"] /\ inbox' = inbox
    BY <1>4 DEF Tell, Goto
  <2>2. MenuTypes'
    BY <1>1, <2>1 DEF Starting
  <2>3. Up = {}
    BY <1>4, LauncherAssumption DEF LauncherAssumption, MenuReachable, Listens, Up
  <2>4. Busy' = {p} /\ Up' = {} /\ Letters' = {} /\ menu_pc'[p] = "unlink"
    BY <1>1, <1>2, <2>1, <2>3 DEF Busy, Up, Starting, Ending, Letters
  <2>5. EndsReachable'
    BY <2>4 DEF EndsReachable, Busy, Starting, Ending
  <2> QED BY <2>2, <2>4, <2>5 DEF OneTurn, MenuReachable, NobodyUp
<1> QED BY <1>3, <1>4

\* A name is taken away while no menu is up.
LEMMA UnlinkStep ==
  ASSUME MenuIInv, NEW p \in Proc, Unlink(p) \/ RemovePath(p)
  PROVE  MenuIInv'
<1> USE DEF MenuIInv, MenuTypes
<1>1. /\ menu_pc[p] \in {"unlink", "closed"} /\ path' = NONE /\ inbox' = inbox /\ menu_pid' = menu_pid
      /\ menu_pc' = [menu_pc EXCEPT ![p] = IF menu_pc[p] = "unlink" THEN "rebind" ELSE "done"]
  BY DEF Unlink, RemovePath, Goto, wm
<1>2. MenuTypes'
  BY <1>1 DEF Starting
<1>3. Busy = {p} /\ Letters = {} /\ Up = {}
  BY <1>1 DEF OneTurn, Busy, Letters, Starting, Ending, NobodyUp
<1>4. Busy' \subseteq {p} /\ Letters' = {} /\ Up' = {} /\ menu_pc'[p] # "ending"
  BY <1>1, <1>3 DEF Busy, Letters, Up, Starting, Ending
<1>5. EndsReachable'
  BY <1>4 DEF EndsReachable, Busy, Ending, Starting
<1> QED BY <1>2, <1>4, <1>5 DEF OneTurn, MenuReachable, NobodyUp

\* A menu ends: nobody else has the turn, and it has the name.
LEMMA EndStep ==
  ASSUME MenuIInv, NEW p \in Proc, menu_pc[p] = "up", menu_pc' = [menu_pc EXCEPT ![p] = "ending"],
         path' = path, menu_pid' = menu_pid, Busy = {},
         inbox' \in [Proc -> Seq({"C", "M"})], \A q \in Proc : inbox'[q] = <<>>
  PROVE  MenuIInv'
<1> USE DEF MenuIInv, MenuTypes
<1>1. MenuTypes'
  BY DEF Ending
<1>2. p \in Up /\ \A q \in Up : q = p
  BY DEF MenuReachable, Up
<1>3. Busy' = {p} /\ Letters' = {} /\ Up' = {} /\ path' = p
  BY <1>2 DEF Busy, Letters, Up, MenuReachable, Starting, Ending
<1> QED BY <1>1, <1>3 DEF OneTurn, MenuReachable, NobodyUp, EndsReachable, Busy, Ending

LEMMA LeaveStep ==
  ASSUME MenuIInv, Alone, NEW p \in Proc, Leave(p) \/ close_deadline(p)
  PROVE  MenuIInv'
<1> USE DEF MenuIInv, MenuTypes
<1>1. Busy = {} /\ Letters = {}
  BY CalmTurn DEF Leave, close_deadline
<1>2. /\ menu_pc[p] = "up" /\ menu_pc' = [menu_pc EXCEPT ![p] = "ending"] /\ path' = path
      /\ menu_pid' = menu_pid /\ inbox' = inbox
  BY DEF Leave, close_deadline, Goto, wm
<1>3. \A q \in Proc : inbox'[q] = <<>>
  BY <1>1, <1>2 DEF Letters
<1> QED BY <1>1, <1>2, <1>3, EndStep

\* A letter is read: the turn goes to the menu that ends, or is over.
LEMMA ReceiveStep ==
  ASSUME MenuIInv, NEW p \in Proc, Receive(p)
  PROVE  MenuIInv'
<1> USE DEF MenuIInv, MenuTypes
<1>1. /\ menu_pc[p] = "up" /\ inbox[p] # <<>> /\ inbox' = [inbox EXCEPT ![p] = Tail(@)]
      /\ path' = path /\ menu_pid' = menu_pid
      /\ menu_pc' = menu_pc \/ menu_pc' = [menu_pc EXCEPT ![p] = "ending"]
  BY DEF Receive, Goto, wm
<1>2. Letters = {p} /\ Len(inbox[p]) = 1 /\ Busy = {}
  BY <1>1 DEF OneTurn, Letters
<1>3. Tail(inbox[p]) = <<>>
  BY <1>2, Read
<1>4. inbox' \in [Proc -> Seq({"C", "M"})] /\ \A q \in Proc : inbox'[q] = <<>>
  BY <1>1, <1>2, <1>3, EmptySeq DEF Letters
<1>5. CASE menu_pc' = menu_pc
  <2>1. Busy' = {} /\ Letters' = {} /\ Up' = Up
    BY <1>2, <1>4, <1>5 DEF Busy, Letters, Up
  <2> QED BY <1>1, <1>4, <1>5, <2>1 DEF OneTurn, MenuReachable, NobodyUp, EndsReachable
<1>6. CASE menu_pc' = [menu_pc EXCEPT ![p] = "ending"]
  BY <1>1, <1>2, <1>4, <1>6, EndStep
<1> QED BY <1>1, <1>5, <1>6

LEMMA CloseStep ==
  ASSUME MenuIInv, NEW p \in Proc, CloseSocket(p)
  PROVE  MenuIInv'
<1> USE DEF MenuIInv, MenuTypes
<1>1. /\ menu_pc[p] = "ending" /\ menu_pc' = [menu_pc EXCEPT ![p] = "closed"] /\ path' = path
      /\ menu_pid' = menu_pid /\ inbox' = [inbox EXCEPT ![p] = <<>>]
  BY DEF CloseSocket, Goto, wm
<1>2. MenuTypes'
  BY <1>1, EmptySeq DEF Ending
<1>3. Busy = {p} /\ Letters = {} /\ Up = {}
  BY <1>1 DEF OneTurn, Busy, Letters, Ending, NobodyUp
<1>4. Busy' = {p} /\ Letters' = {} /\ Up' = {} /\ menu_pc'[p] = "closed"
  BY <1>1, <1>3 DEF Busy, Letters, Up, Starting, Ending
<1>5. EndsReachable'
  BY <1>4 DEF EndsReachable, Busy, Ending, Starting
<1> QED BY <1>2, <1>4, <1>5 DEF OneTurn, MenuReachable, NobodyUp

\* A process is gone: one that was up, or any when nobody starts or ends.
LEMMA KilledStep ==
  ASSUME MenuIInv, NEW p \in Proc, menu_pc[p] = "up" \/ Busy = {},
         menu_pc' = [menu_pc EXCEPT ![p] = "killed"], inbox' = [inbox EXCEPT ![p] = <<>>],
         path' = path, menu_pid' \in Proc \cup {NONE}
  PROVE  MenuIInv'
<1> USE DEF MenuIInv, MenuTypes
<1>1. MenuTypes'
  BY EmptySeq
<1>2. Busy' = Busy /\ Up' = Up \ {p} /\ Letters' = Letters \ {p}
      /\ \A q \in Proc : q # p => menu_pc'[q] = menu_pc[q] /\ inbox'[q] = inbox[q]
  BY DEF Busy, Up, Letters, Starting, Ending
<1>3. OneTurn'
  BY <1>2 DEF OneTurn, Letters
<1>4. MenuReachable' /\ NobodyUp' /\ EndsReachable'
  BY <1>2 DEF MenuReachable, NobodyUp, EndsReachable
<1> QED BY <1>1, <1>3, <1>4

LEMMA WmStep ==
  ASSUME MenuIInv, Alone, Settle \/ close_launcher_sent \/ close_launcher_kill
  PROVE  MenuIInv'
<1> USE DEF MenuIInv, MenuTypes
<1>1. CASE Settle
  BY <1>1 DEF Settle, OneTurn, MenuReachable, NobodyUp, EndsReachable, Busy, Letters, Up
<1>2. CASE close_launcher_sent
  <2>1. /\ Busy = {} /\ Letters = {} /\ Listens(path)
        /\ inbox' = [inbox EXCEPT ![path] = Append(@, "C")]
        /\ menu_pc' = menu_pc /\ path' = path /\ menu_pid' = menu_pid
    BY <1>2, CalmTurn DEF close_launcher_sent, Post, wm
  <2>2. path \in Up /\ path \in Proc /\ inbox[path] = <<>>
    BY <2>1 DEF Listens, Up, Busy, Letters, Ending
  <2>3. Append(inbox[path], "C") \in Seq({"C", "M"}) /\ Append(inbox[path], "C") # <<>>
        /\ Len(Append(inbox[path], "C")) = 1
    BY <2>2, Delivered
  <2>4. MenuTypes'
    BY <2>1, <2>2, <2>3
  <2>5. Letters' = {path} /\ Len(inbox'[path]) = 1 /\ Busy' = {} /\ Up' = Up
    BY <2>1, <2>2, <2>3 DEF Letters, Busy, Up
  <2> QED BY <2>1, <2>2, <2>4, <2>5 DEF OneTurn, MenuReachable, NobodyUp, EndsReachable
<1>3. CASE close_launcher_kill
  <2>1. /\ Busy = {} /\ menu_pid \in Proc /\ menu_pc' = [menu_pc EXCEPT ![menu_pid] = "killed"]
        /\ inbox' = [inbox EXCEPT ![menu_pid] = <<>>] /\ path' = path /\ menu_pid' = NONE
    BY <1>3, CalmTurn DEF close_launcher_kill, Goto
  <2> QED BY <2>1, KilledStep
<1> QED BY <1>1, <1>2, <1>3

LEMMA MenuInductive == Alone /\ MenuIInv /\ [MenuNext]_menu_vars => MenuIInv'
<1> SUFFICES ASSUME Alone, MenuIInv, [MenuNext]_menu_vars PROVE MenuIInv'
  OBVIOUS
<1>1. ASSUME NEW p \in Proc, spawn_launcher(p) \/ bar_quicklaunch_exec(p) PROVE MenuIInv'
  BY <1>1, StartStep
<1>2. ASSUME NEW p \in Proc, setup_ipc(p) PROVE MenuIInv'
  BY <1>2, BindStep, TellStep, UnlinkStep DEF setup_ipc
<1>3. ASSUME NEW p \in Proc, Leave(p) \/ close_deadline(p) PROVE MenuIInv'
  BY <1>3, LeaveStep
<1>4. ASSUME NEW p \in Proc, Receive(p) \/ cleanup_ipc(p) PROVE MenuIInv'
  BY <1>4, ReceiveStep, CloseStep, UnlinkStep DEF cleanup_ipc
<1>5. ASSUME NEW p \in Proc, Killed(p) PROVE MenuIInv'
  <2>1. menu_pid' \in Proc \cup {NONE}
    BY <1>5 DEF Killed, wm, MenuIInv, MenuTypes
  <2> QED BY <1>5, <2>1, KilledStep DEF Killed, Goto
<1>6. CASE Settle \/ close_launcher_sent \/ close_launcher_kill
  BY <1>6, WmStep
<1>7. ASSUME UNCHANGED <<menu_pc, path, inbox, menu_pid>> PROVE MenuIInv'
  BY <1>7 DEF MenuIInv, MenuTypes, OneTurn, MenuReachable, NobodyUp, EndsReachable, Busy, Letters, Up
<1>8. ASSUME NEW p \in Proc, keyboard_leave(p) PROVE MenuIInv'
  BY <1>7, <1>8 DEF keyboard_leave, wm
<1>9. CASE UNCHANGED menu_vars
  BY <1>7, <1>9 DEF menu_vars, wm
<1> QED BY <1>1, <1>2, <1>3, <1>4, <1>5, <1>6, <1>8, <1>9 DEF MenuNext

LEMMA MenuInvariance == Alone /\ MenuSpec => []MenuIInv
<1> SUFFICES ASSUME Alone PROVE MenuSpec => []MenuIInv
  OBVIOUS
<1>1. MenuIInv /\ [MenuNext]_menu_vars => MenuIInv'
  BY MenuInductive
<1> QED BY <1>1, MenuInitInv, PTL DEF MenuSpec

-----------------------------------------------------------------------------

\* If keys, clicks and timers come one at a time there is one menu at most
\* (setup_ipc), however menus are started, told to close, and killed.
THEOREM OneMenuAlone == Alone => (MenuSpec => []OneMenu)
<1>1. ASSUME MenuIInv PROVE OneMenu
  <2>1. CASE Up = {}
    BY <2>1, FS_EmptySet DEF OneMenu
  <2>2. ASSUME NEW p \in Up PROVE OneMenu
    <3>1. Up = {p}
      BY <1>1, <2>2 DEF MenuIInv, MenuReachable
    <3>2. Cardinality({p}) = 1
      BY FS_Singleton
    <3> QED BY <3>1, <3>2 DEF OneMenu
  <2> QED BY <2>1, <2>2
<1> QED BY <1>1, MenuInvariance, PTL

\* If they do, a menu that is up has the name menus and maindeck-wm look for: no
\* start takes it away, and none that ends.
THEOREM MenuReachableAlone == Alone => (MenuSpec => []MenuReachable)
<1>1. MenuIInv => MenuReachable
  BY DEF MenuIInv
<1> QED BY <1>1, MenuInvariance, PTL

-----------------------------------------------------------------------------
(* The list of a menu is fresh and the cache is true, but for directories  *)
(* that came to a noted time again (reused), for any menus, directories    *)
(* and applications, however menus overlap, die and tear the file, and     *)
(* however often directories change in a second.                           *)
(*                                                                         *)
(* Neither property is inductive.  Directories are read one by one at      *)
(* different times, so a list is that of no one moment: what makes it      *)
(* right is that some contents c, one of each directory, account for it    *)
(* and that c is tied to the modification times read before (Agrees).      *)

\* What a scan of the first n directories finds if c is in them.
ListedTo(c, dirs, n) ==
  {e \in App \X Dir :
     \E i \in 1..n : /\ dirs[i] = e[2] /\ e[1] \in c[e[2]]
                     /\ \A j \in 1..(i - 1) : e[1] \notin c[dirs[j]]}

\* A list with the ids of a directory that are not in it yet.
WithMore(l, as, d) == l \cup ((as \ {e[1] : e \in l}) \X {d})

\* The contents c of the first n of dirs, which were read after the times in
\* times were: but for reused times, a directory that still has its time holds what
\* was read, and a loading menu that has read the same time of a directory has seen
\* in it what was read.
Agrees(c, dirs, times, n) ==
  /\ c \in [Dir -> SUBSET App]
  /\ \A i \in 1..n : <<dirs[i], times[i]>> \notin reused =>
       /\ times[i] = mtime(dirs[i]) => c[dirs[i]] = content[dirs[i]]
       /\ \A r \in Menu : pc[r] \in Loading =>
            \A k \in 1..Len(mtimes[r]) :
              Dirs[r][k] = dirs[i] /\ mtimes[r][k] = times[i] => c[dirs[i]] \in seen[r][dirs[i]]

\* The times are noted, so that a change to one of them would be remembered.
AllNoted(dirs, times, n) == \A i \in 1..n : Noted(dirs[i], times[i])

Types ==
  /\ now \in Nat
  /\ exists \in [Dir -> BOOLEAN] /\ content \in [Dir -> SUBSET App]
  /\ changed \in [Dir -> Nat]
  /\ pc \in [Menu -> {"idle", "ready", "done"} \cup Loading]
  /\ mtimes \in [Menu -> Seq(Int)]
  /\ scanned \in [Menu -> Nat]
  /\ list \in [Menu -> SUBSET (App \X Dir)]
  /\ seen \in [Menu -> [Dir -> SUBSET SUBSET App]]

\* What a menu has got so far.
Progress(p) ==
  /\ Len(mtimes[p]) <= Len(Dirs[p]) /\ scanned[p] <= Len(Dirs[p])
  /\ pc[p] \in {"idle", "done"} => mtimes[p] = <<>>
  /\ pc[p] \in {"idle", "done", "stat", "load"} => scanned[p] = 0 /\ list[p] = {}
  /\ pc[p] \in {"load", "scan", "write", "ready"} => Len(mtimes[p]) = Len(Dirs[p])
  /\ pc[p] = "write" => scanned[p] = Len(Dirs[p])

SeesNow(p) ==
  pc[p] \in Loading =>
    \A k \in 1..Len(mtimes[p]) : content[Dirs[p][k]] \in seen[p][Dirs[p][k]]

ScanAgrees(p) ==
  pc[p] \in {"scan", "write"} =>
    \E c : /\ Agrees(c, Dirs[p], mtimes[p], scanned[p])
           /\ list[p] = ListedTo(c, Dirs[p], scanned[p])

IsFresh(p) ==
  \E c \in [Dir -> SUBSET App] :
    /\ \A i \in DOMAIN Dirs[p] :
         <<Dirs[p][i], mtimes[p][i]>> \notin reused => c[Dirs[p][i]] \in seen[p][Dirs[p][i]]
    /\ list[p] = Listed(c, Dirs[p])

MenuInv(p) ==
  /\ Progress(p) /\ SeesNow(p)
  /\ ScanAgrees(p)
  /\ pc[p] = "ready" => IsFresh(p)

FileInv(f) ==
  /\ f.dirs \in Seq(Dir) /\ f.mtimes \in Seq(Int) /\ Len(f.mtimes) = Len(f.dirs)
  /\ f.apps \subseteq App \X Dir
  /\ ~f.torn => \E c : /\ Agrees(c, f.dirs, f.mtimes, Len(f.dirs))
                       /\ f.apps = ListedTo(c, f.dirs, Len(f.dirs))

IInv == Types /\ (\A p \in Menu : MenuInv(p)) /\ (\A f \in cache : FileInv(f))

-----------------------------------------------------------------------------
(* Lists.                                                                  *)

LEMMA MenuDirs ==
  ASSUME NEW p \in Menu
  PROVE  /\ Dirs[p] \in Seq(Dir) /\ IsInjective(Dirs[p])
         /\ Len(Dirs[p]) \in Nat /\ DOMAIN Dirs[p] = 1..Len(Dirs[p])
         /\ \A i \in 1..Len(Dirs[p]) : Dirs[p][i] \in Dir
BY AppsCacheAssumption, LenProperties, ElementOfSeq DEF AppsCacheAssumption

LEMMA ListedIsAll ==
  ASSUME NEW c \in [Dir -> SUBSET App], NEW dirs \in Seq(Dir)
  PROVE  Listed(c, dirs) = ListedTo(c, dirs, Len(dirs))
<1>1. DOMAIN dirs = 1..Len(dirs)
  BY LenProperties
<1>2. ASSUME NEW e \in Listed(c, dirs) PROVE e \in ListedTo(c, dirs, Len(dirs))
  BY <1>1, <1>2 DEF Listed, ListedTo
<1>3. ASSUME NEW e \in ListedTo(c, dirs, Len(dirs)) PROVE e \in Listed(c, dirs)
  <2>1. PICK a \in App, d \in Dir : e = <<a, d>>
    BY <1>3 DEF ListedTo
  <2>2. PICK i \in 1..Len(dirs) : /\ dirs[i] = d /\ a \in c[d]
                                  /\ \A j \in 1..(i - 1) : a \notin c[dirs[j]]
    BY <1>3, <2>1 DEF ListedTo
  <2> QED BY <1>1, <2>1, <2>2 DEF Listed
<1> QED BY <1>2, <1>3

LEMMA NothingListed ==
  ASSUME NEW c, NEW dirs
  PROVE  ListedTo(c, dirs, 0) = {}
BY DEF ListedTo

LEMMA SameListed ==
  ASSUME NEW b \in [Dir -> SUBSET App], NEW c \in [Dir -> SUBSET App],
         NEW dirs \in Seq(Dir), NEW n \in 0..Len(dirs),
         \A i \in 1..n : b[dirs[i]] = c[dirs[i]]
  PROVE  ListedTo(b, dirs, n) = ListedTo(c, dirs, n)
<1>1. \A i \in 1..n : \A j \in 1..(i - 1) : j \in 1..n
  OBVIOUS
<1> QED BY <1>1 DEF ListedTo

\* One more directory, which gives the ids that are not listed yet.
LEMMA OneMoreListed ==
  ASSUME NEW c \in [Dir -> SUBSET App], NEW dirs \in Seq(Dir), IsInjective(dirs),
         NEW n \in Nat, n < Len(dirs), NEW as \in SUBSET App
  PROVE  WithMore(ListedTo(c, dirs, n), as, dirs[n + 1])
           = ListedTo([c EXCEPT ![dirs[n + 1]] = as], dirs, n + 1)
<1> DEFINE l == ListedTo(c, dirs, n)
           d == dirs[n + 1]
           b == [c EXCEPT ![d] = as]
           m == ListedTo(b, dirs, n + 1)
<1>1. /\ DOMAIN dirs = 1..Len(dirs) /\ Len(dirs) \in Nat
      /\ \A i \in 1..Len(dirs) : dirs[i] \in Dir
  BY LenProperties, ElementOfSeq
<1>2. d \in Dir /\ b \in [Dir -> SUBSET App] /\ b[d] = as
  <2>1. n + 1 \in 1..Len(dirs)
    BY <1>1
  <2>2. d \in Dir
    BY <1>1, <2>1
  <2> HIDE DEF d
  <2> QED BY <2>2
<1>3. \A i \in 1..n : i \in 1..Len(dirs) /\ dirs[i] # d
  BY <1>1 DEF IsInjective
<1>4. \A i \in 1..n : b[dirs[i]] = c[dirs[i]]
  BY <1>1, <1>3
<1> HIDE DEF b
<1>5. l = ListedTo(b, dirs, n)
  BY <1>1, <1>2, <1>4, SameListed
<1>6. \A a \in {e[1] : e \in l} : \E i \in 1..n : a \in b[dirs[i]]
  BY <1>5 DEF ListedTo
<1>7. ASSUME NEW a \in App, NEW k \in 1..n, a \in b[dirs[k]]
      PROVE  a \in {e[1] : e \in l}
  <2> DEFINE T == {i \in 1..n : a \in b[dirs[i]]}
  <2>1. T \subseteq Nat /\ T # {}
    BY <1>7
  <2>2. PICK i \in T : \A j \in T : i <= j
    BY <2>1, LeastNat
  <2>3. \A j \in 1..(i - 1) : a \notin b[dirs[j]]
    BY <2>2
  <2>4. i \in 1..n /\ dirs[i] \in Dir /\ a \in b[dirs[i]]
    BY <1>1, <1>3
  <2>5. <<a, dirs[i]>> \in ListedTo(b, dirs, n)
    BY <2>3, <2>4 DEF ListedTo
  <2> QED BY <1>5, <2>5
<1> HIDE DEF d
<1>8. ASSUME NEW e \in m PROVE e \in l \cup ((as \ {x[1] : x \in l}) \X {d})
  <2>1. PICK a \in App, f \in Dir : e = <<a, f>>
    BY DEF ListedTo
  <2>2. PICK i \in 1..(n + 1) : /\ dirs[i] = f /\ a \in b[f]
                                /\ \A j \in 1..(i - 1) : a \notin b[dirs[j]]
    BY <2>1 DEF ListedTo
  <2>3. CASE i = n + 1
    <3>1. \A j \in 1..n : a \notin b[dirs[j]]
      BY <2>2, <2>3
    <3>2. a \notin {x[1] : x \in l}
      BY <1>6, <3>1
    <3>3. f = d
      BY <2>2, <2>3 DEF d
    <3> QED BY <1>2, <2>1, <2>2, <3>2, <3>3
  <2>4. CASE i # n + 1
    <3>1. i \in 1..n
      BY <2>4
    <3>2. <<a, f>> \in ListedTo(b, dirs, n)
      BY <2>2, <3>1 DEF ListedTo
    <3> QED BY <1>5, <2>1, <3>2
  <2> QED BY <2>3, <2>4
<1>9. ASSUME NEW e \in l \cup ((as \ {x[1] : x \in l}) \X {d}) PROVE e \in m
  <2>1. ASSUME e \in l PROVE e \in m
    <3>1. \A i \in 1..n : i \in 1..(n + 1)
      OBVIOUS
    <3> QED BY <1>5, <2>1, <3>1 DEF ListedTo
  <2>2. ASSUME e \in (as \ {x[1] : x \in l}) \X {d} PROVE e \in m
    <3>a. \A T : e \in T \X {d} => \E a \in T : e = <<a, d>>
      OBVIOUS
    <3>0. PICK a \in as \ {x[1] : x \in l} : e = <<a, d>>
      BY <2>2, <3>a
    <3>1. a \in App /\ e = <<a, d>> /\ a \in as /\ a \notin {x[1] : x \in l}
      BY <3>0
    <3>2. \A j \in 1..n : a \notin b[dirs[j]]
      BY <1>7, <3>1
    <3>3. n + 1 \in 1..(n + 1) /\ (n + 1) - 1 = n /\ dirs[n + 1] = d
      BY DEF d
    <3>4. a \in b[d] /\ <<a, d>> \in App \X Dir
      BY <1>2, <3>1
    <3> QED BY <3>1, <3>2, <3>3, <3>4 DEF ListedTo
  <2> QED BY <1>9, <2>1, <2>2
<1>10. l \cup ((as \ {x[1] : x \in l}) \X {d}) = m
  BY <1>8, <1>9
<1> QED BY <1>10 DEF WithMore, b, d

LEMMA MoreScanned ==
  ASSUME NEW p \in Menu, NEW c \in [Dir -> SUBSET App],
         NEW n \in Nat, n < Len(Dirs[p]), NEW as \in SUBSET App
  PROVE  WithMore(ListedTo(c, Dirs[p], n), as, Dirs[p][n + 1])
           = ListedTo([c EXCEPT ![Dirs[p][n + 1]] = as], Dirs[p], n + 1)
<1>1. Dirs[p] \in Seq(Dir) /\ IsInjective(Dirs[p])
  BY MenuDirs
<1> QED BY <1>1, OneMoreListed, Zenon

-----------------------------------------------------------------------------
(* What every step keeps: a directory keeps its time and what it holds, or *)
(* a noted time it comes to is remembered; a time is added only when it is *)
(* read; and what was seen stays seen.                                     *)

\* A directory did not change, or it did.
DirLater(d) ==
  \/ mtime(d)' = mtime(d) /\ content'[d] = content[d]
  \/ Noted(d, mtime(d)') => <<d, mtime(d)'>> \in reused'

\* The kth time of r was read before, or now.
ReadLater(r, k) ==
  \/ /\ pc[r] \in Loading /\ k \in 1..Len(mtimes[r]) /\ mtimes'[r][k] = mtimes[r][k]
     /\ seen[r][Dirs[r][k]] \subseteq seen'[r][Dirs[r][k]]
  \/ /\ mtimes'[r][k] = mtime(Dirs[r][k]) /\ content[Dirs[r][k]] \in seen'[r][Dirs[r][k]]

Later ==
  /\ reused \subseteq reused'
  /\ \A d \in Dir : DirLater(d)
  /\ \A r \in Menu : pc'[r] \in Loading => \A k \in 1..Len(mtimes'[r]) : ReadLater(r, k)

LEMMA AgreesLater ==
  ASSUME Later, NEW c, NEW dirs \in Seq(Dir), NEW times, NEW n \in Nat, n <= Len(dirs),
         AllNoted(dirs, times, n), Agrees(c, dirs, times, n)
  PROVE  Agrees(c, dirs, times, n)'
<1>1. \A i \in 1..n : dirs[i] \in Dir
  <2>1. Len(dirs) \in Nat
    BY LenProperties
  <2> QED BY <2>1, ElementOfSeq
<1>2. ASSUME NEW i \in 1..n, <<dirs[i], times[i]>> \notin reused', times[i] = mtime(dirs[i])'
      PROVE  c[dirs[i]] = content'[dirs[i]]
  <2>1. dirs[i] \in Dir /\ <<dirs[i], times[i]>> \notin reused
    BY <1>1, <1>2 DEF Later
  <2>2. Noted(dirs[i], mtime(dirs[i])')
    BY <1>2 DEF AllNoted
  <2>3. mtime(dirs[i])' = mtime(dirs[i]) /\ content'[dirs[i]] = content[dirs[i]]
    BY <1>2, <2>1, <2>2 DEF Later, DirLater
  <2> QED BY <1>2, <2>1, <2>3 DEF Agrees
<1>3. ASSUME NEW i \in 1..n, <<dirs[i], times[i]>> \notin reused',
             NEW r \in Menu, pc'[r] \in Loading, NEW k \in 1..Len(mtimes'[r]),
             Dirs[r][k] = dirs[i], mtimes'[r][k] = times[i]
      PROVE  c[dirs[i]] \in seen'[r][dirs[i]]
  <2>1. <<dirs[i], times[i]>> \notin reused /\ ReadLater(r, k)
    BY <1>3 DEF Later
  <2>2. CASE /\ pc[r] \in Loading /\ k \in 1..Len(mtimes[r]) /\ mtimes'[r][k] = mtimes[r][k]
             /\ seen[r][Dirs[r][k]] \subseteq seen'[r][Dirs[r][k]]
    BY <1>3, <2>1, <2>2 DEF Agrees
  <2>3. CASE mtimes'[r][k] = mtime(Dirs[r][k]) /\ content[Dirs[r][k]] \in seen'[r][Dirs[r][k]]
    BY <1>3, <2>1, <2>3 DEF Agrees
  <2> QED BY <2>1, <2>2, <2>3 DEF ReadLater
<1> QED BY <1>2, <1>3 DEF Agrees

LEMMA FileLater ==
  ASSUME Later, NEW f, FileInv(f), AllNoted(f.dirs, f.mtimes, Len(f.dirs))
  PROVE  FileInv(f)'
<1>1. f.dirs \in Seq(Dir) /\ Len(f.dirs) \in Nat
  BY LenProperties DEF FileInv
<1>2. ASSUME ~f.torn
      PROVE  \E c : /\ Agrees(c, f.dirs, f.mtimes, Len(f.dirs))'
                    /\ f.apps = ListedTo(c, f.dirs, Len(f.dirs))
  <2>1. PICK c : /\ Agrees(c, f.dirs, f.mtimes, Len(f.dirs))
                 /\ f.apps = ListedTo(c, f.dirs, Len(f.dirs))
    BY <1>2 DEF FileInv
  <2>2. Agrees(c, f.dirs, f.mtimes, Len(f.dirs))'
    BY <1>1, <2>1, AgreesLater
  <2> QED BY <2>1, <2>2
<1> QED BY <1>1, <1>2 DEF FileInv

\* A menu that does not move keeps its part of the invariant.
LEMMA MenuLater ==
  ASSUME Types, Later, NEW p \in Menu, MenuInv(p),
         pc'[p] = pc[p], mtimes'[p] = mtimes[p], scanned'[p] = scanned[p], list'[p] = list[p],
         pc[p] = "ready" => seen'[p] = seen[p],
         SeesNow(p)'
  PROVE  MenuInv(p)'
<1>1. /\ Dirs[p] \in Seq(Dir) /\ mtimes[p] \in Seq(Int) /\ scanned[p] \in Nat
      /\ Len(Dirs[p]) \in Nat /\ Len(mtimes[p]) \in Nat /\ DOMAIN mtimes[p] = 1..Len(mtimes[p])
      /\ Len(mtimes[p]) <= Len(Dirs[p])
  BY MenuDirs, LenProperties DEF Types, MenuInv, Progress
<1>2. ScanAgrees(p)'
  <2> SUFFICES ASSUME pc[p] \in {"scan", "write"}
               PROVE  \E c : /\ Agrees(c, Dirs[p], mtimes[p], scanned[p])'
                             /\ list[p] = ListedTo(c, Dirs[p], scanned[p])
    BY DEF ScanAgrees
  <2>1. PICK c : /\ Agrees(c, Dirs[p], mtimes[p], scanned[p])
                 /\ list[p] = ListedTo(c, Dirs[p], scanned[p])
    BY DEF MenuInv, ScanAgrees
  <2>2. scanned[p] <= Len(Dirs[p]) /\ Len(mtimes[p]) = Len(Dirs[p])
    BY DEF MenuInv, Progress
  <2>3. AllNoted(Dirs[p], mtimes[p], scanned[p])
    <3>1. pc[p] \in Loading /\ \A i \in 1..scanned[p] : i \in DOMAIN mtimes[p]
      BY <1>1, <2>2 DEF Loading
    <3> QED BY <3>1 DEF AllNoted, Noted
  <2>4. ASSUME NEW times, times = mtimes[p], NEW n, n = scanned[p]
        PROVE  Agrees(c, Dirs[p], times, n)'
    BY <1>1, <2>1, <2>2, <2>3, <2>4, AgreesLater
  <2>5. Agrees(c, Dirs[p], mtimes[p], scanned[p])'
    BY <2>4 DEF Agrees
  <2> QED BY <2>1, <2>5
<1>3. ASSUME pc[p] = "ready" PROVE IsFresh(p)'
  BY <1>3 DEF MenuInv, IsFresh, Later
<1>4. Progress(p)'
  BY DEF MenuInv, Progress
<1> QED BY <1>2, <1>3, <1>4 DEF MenuInv

-----------------------------------------------------------------------------
(* Steps.                                                                  *)

LEMMA InitInv == Init => IInv
<1> SUFFICES ASSUME Init PROVE IInv
  OBVIOUS
<1>1. Types
  BY EmptySeq DEF Init, Types
<1>2. ASSUME NEW p \in Menu PROVE MenuInv(p)
  <2>1. Len(mtimes[p]) = 0 /\ mtimes[p] = <<>> /\ pc[p] = "idle"
    BY EmptySeq DEF Init
  <2>2. Progress(p)
    BY <2>1, MenuDirs DEF Init, Progress
  <2> QED BY <2>1, <2>2 DEF MenuInv, SeesNow, ScanAgrees, Loading
<1> QED BY <1>1, <1>2 DEF IInv, Init

LEMMA MtimeType ==
  ASSUME Types
  PROVE  \A d \in Dir : mtime(d) \in Int
BY DEF Types, mtime

\* What a change of a directory does, whichever it is.
LEMMA TouchedStep ==
  ASSUME IInv, NEW d \in Dir, Change(d) \/ Delete(d)
  PROVE  /\ Types' /\ UNCHANGED <<now, cache, menus>>
         /\ \A f \in Dir \ {d} : mtime(f)' = mtime(f) /\ content'[f] = content[f]
         /\ Noted(d, mtime(d)') => <<d, mtime(d)'>> \in reused'
         /\ reused \subseteq reused'
         /\ \A p \in Menu :
              /\ pc[p] \notin Loading => seen'[p] = seen[p]
              /\ \A f \in Dir : seen[p][f] \subseteq seen'[p][f]
              /\ pc[p] \in Loading /\ seen[p][d] # {} => content'[d] \in seen'[p][d]
<1> USE DEF IInv, Types
<1>1. /\ exists' \in [Dir -> BOOLEAN] /\ content' \in [Dir -> SUBSET App]
      /\ changed' \in [Dir -> Nat]
      /\ \A f \in Dir \ {d} : exists'[f] = exists[f] /\ changed'[f] = changed[f] /\ content'[f] = content[f]
      /\ Touched(d)
  <2>1. CASE Change(d)
    BY <2>1 DEF Change
  <2>2. CASE Delete(d)
    <3>1. {} \in SUBSET App
      OBVIOUS
    <3> QED BY <2>2, <3>1 DEF Delete
  <2> QED BY <2>1, <2>2
<1>2. \A f \in Dir \ {d} : mtime(f)' = mtime(f) /\ content'[f] = content[f]
  BY <1>1 DEF mtime
<1>3. \A p \in Menu : [seen[p] EXCEPT ![d] = @ \cup {content'[d]}] \in [Dir -> SUBSET SUBSET App]
  BY <1>1
<1>4. /\ seen' \in [Menu -> [Dir -> SUBSET SUBSET App]]
      /\ \A p \in Menu : seen'[p] = IF pc[p] \in Loading /\ seen[p][d] # {}
                                    THEN [seen[p] EXCEPT ![d] = @ \cup {content'[d]}]
                                    ELSE seen[p]
  BY <1>1, <1>3 DEF Touched
<1>5. ASSUME NEW p \in Menu
      PROVE  /\ pc[p] \notin Loading => seen'[p] = seen[p]
             /\ \A f \in Dir : seen[p][f] \subseteq seen'[p][f]
             /\ pc[p] \in Loading /\ seen[p][d] # {} => content'[d] \in seen'[p][d]
  BY <1>4
<1>6. /\ Noted(d, mtime(d)') => <<d, mtime(d)'>> \in reused'
      /\ reused \subseteq reused'
  <2>1. reused' = IF Noted(d, mtime(d)') THEN reused \cup {<<d, mtime(d)'>>} ELSE reused
    BY <1>1 DEF Touched
  <2>2. CASE Noted(d, mtime(d)')
    BY <2>1, <2>2
  <2>3. CASE ~Noted(d, mtime(d)')
    BY <2>1, <2>3
  <2> QED BY <2>2, <2>3
<1>7. UNCHANGED <<now, cache, menus>>
  BY <1>1 DEF Touched
<1>8. Types'
  BY <1>1, <1>4, <1>7 DEF menus
<1> QED BY <1>2, <1>5, <1>6, <1>7, <1>8

LEMMA TypesStep == ASSUME IInv, [Next]_vars PROVE Types'
<1> USE DEF IInv, Types
<1>1. CASE Tick
  BY <1>1 DEF Tick, disk, menus
<1>2. ASSUME NEW d \in Dir, Change(d) \/ Delete(d) PROVE Types'
  BY <1>2, TouchedStep
<1>3. ASSUME NEW p \in Menu, Start(p) PROVE Types'
  BY <1>3 DEF Start, disk, Loading
<1>4. ASSUME NEW p \in Menu, build_watch_dirs(p) PROVE Types'
  <2>1. CASE Len(mtimes[p]) < Len(Dirs[p])
    <3> DEFINE d == Dirs[p][Len(mtimes[p]) + 1]
    <3>1. Len(mtimes[p]) + 1 \in 1..Len(Dirs[p])
      BY <2>1, MenuDirs, LenProperties
    <3>2. d \in Dir
      BY <3>1, MenuDirs
    <3>3. /\ mtimes' = [mtimes EXCEPT ![p] = Append(@, mtime(d))]
          /\ seen' = [seen EXCEPT ![p][d] = {content[d]}] /\ pc' = pc
      BY <1>4, <2>1 DEF build_watch_dirs
    <3> HIDE DEF d
    <3>4. Append(mtimes[p], mtime(d)) \in Seq(Int)
      BY <3>2, MtimeType, AppendProperties
    <3>5. seen' \in [Menu -> [Dir -> SUBSET SUBSET App]]
      BY <3>2, <3>3
    <3> QED BY <1>4, <3>3, <3>4, <3>5 DEF build_watch_dirs, disk
  <2>2. CASE ~(Len(mtimes[p]) < Len(Dirs[p]))
    BY <1>4, <2>2 DEF build_watch_dirs, disk, Loading
  <2> QED BY <2>1, <2>2
<1>5. ASSUME NEW p \in Menu, try_load_cache(p) PROVE Types'
  <2>1. list' \in [Menu -> SUBSET (App \X Dir)]
    BY <1>5 DEF try_load_cache, FileInv
  <2>2. pc' \in [Menu -> {"idle", "ready", "done"} \cup Loading]
    BY <1>5 DEF try_load_cache, Loading
  <2> QED BY <1>5, <2>1, <2>2 DEF try_load_cache, disk
<1>6. ASSUME NEW p \in Menu, scan_desktop_dir(p) PROVE Types'
  <2>1. CASE scanned[p] < Len(Dirs[p])
    <3> DEFINE d == Dirs[p][scanned[p] + 1]
    <3>1. scanned[p] + 1 \in 1..Len(Dirs[p])
      BY <2>1, MenuDirs
    <3>2. d \in Dir
      BY <3>1, MenuDirs
    <3> HIDE DEF d
    <3>3. (content[d] \ {e[1] : e \in list[p]}) \X {d} \subseteq App \X Dir
      BY <3>2
    <3>4. /\ list' = [list EXCEPT ![p] =
                        @ \cup ((content[d] \ {e[1] : e \in @}) \X {d})]
          /\ scanned' = [scanned EXCEPT ![p] = @ + 1] /\ pc' = pc
      BY <1>6, <2>1 DEF scan_desktop_dir, d
    <3>5. list[p] \cup ((content[d] \ {e[1] : e \in list[p]}) \X {d}) \in SUBSET (App \X Dir)
      BY <3>3
    <3>6. list' \in [Menu -> SUBSET (App \X Dir)]
      BY <3>4, <3>5
    <3>7. scanned' \in [Menu -> Nat]
      BY <3>4
    <3> QED BY <1>6, <3>4, <3>6, <3>7 DEF scan_desktop_dir, disk
  <2>2. CASE ~(scanned[p] < Len(Dirs[p]))
    BY <1>6, <2>2 DEF scan_desktop_dir, disk, Loading
  <2> QED BY <2>1, <2>2
<1>7. ASSUME NEW p \in Menu, write_cache(p) PROVE Types'
  BY <1>7 DEF write_cache, disk
<1>8. ASSUME NEW p \in Menu, End(p) PROVE Types'
  <2>1. [d \in Dir |-> {}] \in [Dir -> SUBSET SUBSET App]
    OBVIOUS
  <2> QED BY <1>8, <2>1, EmptySeq DEF End, disk
<1>9. CASE UNCHANGED vars
  BY <1>9 DEF vars, disk, menus
<1> QED BY <1>1, <1>2, <1>3, <1>4, <1>5, <1>6, <1>7, <1>8, <1>9 DEF Next

LEMMA LaterStep == ASSUME IInv, [Next]_vars PROVE Later
<1> USE DEF IInv, Types
<1>1. ASSUME UNCHANGED disk
      PROVE  \A d \in Dir : DirLater(d)
  BY <1>1 DEF disk, mtime, DirLater
<1>2. ASSUME UNCHANGED <<disk, mtimes, seen, reused>>,
             \A r \in Menu : pc'[r] \in Loading => pc[r] \in Loading \/ mtimes[r] = <<>>
      PROVE  Later
  <2>1. ASSUME NEW r \in Menu, pc'[r] \in Loading, NEW k \in 1..Len(mtimes'[r])
        PROVE  ReadLater(r, k)
    <3>1. mtimes[r] # <<>>
      BY <1>2, <2>1, EmptySeq
    <3> QED BY <1>2, <2>1, <3>1 DEF ReadLater
  <2> QED BY <1>1, <1>2, <2>1 DEF Later
<1>3. ASSUME NEW d \in Dir, Change(d) \/ Delete(d) PROVE Later
  <2>1. \A f \in Dir : DirLater(f)
    BY <1>3, TouchedStep DEF DirLater
  <2>2. ASSUME NEW r \in Menu, pc'[r] \in Loading, NEW k \in 1..Len(mtimes'[r])
        PROVE  ReadLater(r, k)
    <3>1. pc' = pc /\ mtimes' = mtimes
      BY <1>3, TouchedStep DEF menus
    <3>2. Dirs[r][k] \in Dir
      <4>1. mtimes[r] \in Seq(Int) /\ Len(mtimes[r]) <= Len(Dirs[r])
        BY DEF MenuInv, Progress
      <4> QED BY <2>2, <3>1, <4>1, MenuDirs, LenProperties
    <3> QED BY <1>3, <2>2, <3>1, <3>2, TouchedStep DEF ReadLater
  <2>3. reused \subseteq reused'
    BY <1>3, TouchedStep
  <2> QED BY <2>1, <2>2, <2>3 DEF Later
<1>4. ASSUME NEW p \in Menu, Start(p) PROVE Later
  <2>1. UNCHANGED <<disk, mtimes, seen, reused>> /\ pc[p] = "idle" /\ pc' = [pc EXCEPT ![p] = "stat"]
    BY <1>4 DEF Start
  <2>2. mtimes[p] = <<>>
    BY <2>1 DEF MenuInv, Progress
  <2>3. \A r \in Menu : pc'[r] \in Loading => pc[r] \in Loading \/ mtimes[r] = <<>>
    BY <2>1, <2>2
  <2> QED BY <1>2, <2>1, <2>3
<1>5. ASSUME NEW p \in Menu, build_watch_dirs(p) PROVE Later
  <2>1. UNCHANGED <<disk, reused>> /\ pc[p] = "stat"
        /\ \A r \in Menu : pc'[r] \in Loading => pc[r] \in Loading
    BY <1>5 DEF build_watch_dirs, Loading
  <2>2. CASE Len(mtimes[p]) < Len(Dirs[p])
    <3> DEFINE n == Len(mtimes[p])
               d == Dirs[p][n + 1]
    <3>1. mtimes' = [mtimes EXCEPT ![p] = Append(@, mtime(d))]
          /\ seen' = [seen EXCEPT ![p][d] = {content[d]}]
      BY <1>5, <2>2 DEF build_watch_dirs
    <3>2. n + 1 \in 1..Len(Dirs[p]) /\ n \in Nat /\ mtimes[p] \in Seq(Int)
      BY <2>2, MenuDirs, LenProperties
    <3>3. d \in Dir /\ mtime(d) \in Int /\ d = Dirs[p][n + 1]
      BY <3>2, MenuDirs, MtimeType
    <3>4. \A k \in 1..n : Dirs[p][k] # d
      BY <3>2, MenuDirs DEF IsInjective
    <3> HIDE DEF d
    <3>5. /\ Len(mtimes'[p]) = n + 1 /\ mtimes'[p][n + 1] = mtime(d)
          /\ \A k \in 1..n : mtimes'[p][k] = mtimes[p][k]
      BY <3>1, <3>2, <3>3, AppendProperties
    <3>6. /\ seen'[p][d] = {content[d]}
          /\ \A f \in Dir \ {d} : seen'[p][f] = seen[p][f]
          /\ \A r \in Menu \ {p} : seen'[r] = seen[r] /\ mtimes'[r] = mtimes[r]
      BY <3>1, <3>3
    <3> HIDE DEF n
    <3>7. n = Len(mtimes[p])
      BY DEF n
    <3>8. ASSUME NEW r \in Menu, pc'[r] \in Loading, NEW k \in 1..Len(mtimes'[r])
          PROVE  ReadLater(r, k)
      <4>1. CASE r # p
        BY <2>1, <3>6, <3>8, <4>1 DEF ReadLater
      <4>2. CASE r = p /\ k \in 1..n
        <5>1. Dirs[p][k] \in Dir \ {d}
          BY <3>2, <3>4, <4>2, MenuDirs
        <5> QED BY <2>1, <3>5, <3>6, <3>7, <3>8, <4>2, <5>1 DEF ReadLater
      <4>3. CASE r = p /\ k = n + 1
        BY <3>3, <3>5, <3>6, <4>3 DEF ReadLater
      <4>4. r = p => k \in 1..n \/ k = n + 1
        BY <3>2, <3>5
      <4> QED BY <4>1, <4>2, <4>3, <4>4
    <3> QED BY <1>1, <2>1, <3>8 DEF Later
  <2>3. CASE ~(Len(mtimes[p]) < Len(Dirs[p]))
    BY <1>2, <1>5, <2>1, <2>3 DEF build_watch_dirs
  <2> QED BY <2>2, <2>3
<1>6. ASSUME NEW p \in Menu, try_load_cache(p) \/ scan_desktop_dir(p) \/ write_cache(p)
      PROVE  Later
  <2>1. UNCHANGED <<disk, mtimes, seen, reused>>
        /\ \A r \in Menu : pc'[r] \in Loading => pc[r] \in Loading
    BY <1>6 DEF try_load_cache, scan_desktop_dir, write_cache, Loading
  <2> QED BY <1>2, <2>1
<1>7. ASSUME NEW p \in Menu, End(p) PROVE Later
  <2>1. UNCHANGED <<disk, reused>> /\ pc'[p] \notin Loading
        /\ \A r \in Menu \ {p} : mtimes'[r] = mtimes[r] /\ seen'[r] = seen[r] /\ pc'[r] = pc[r]
    BY <1>7 DEF End, Loading
  <2> QED BY <1>1, <2>1 DEF Later, ReadLater
<1>8. CASE Tick \/ UNCHANGED vars
  BY <1>2, <1>8 DEF Tick, vars, menus
<1> QED BY <1>3, <1>4, <1>5, <1>6, <1>7, <1>8 DEF Next

\* What was read of the directories of p after their times makes a fresh list.
LEMMA FreshList ==
  ASSUME Types, NEW p \in Menu, pc[p] \in Loading, Len(mtimes[p]) = Len(Dirs[p]),
         NEW c, Agrees(c, Dirs[p], mtimes[p], Len(Dirs[p])),
         mtimes'[p] = mtimes[p], seen'[p] = seen[p], reused' = reused,
         list'[p] = ListedTo(c, Dirs[p], Len(Dirs[p]))
  PROVE  IsFresh(p)'
<1>1. c \in [Dir -> SUBSET App] /\ DOMAIN Dirs[p] = 1..Len(Dirs[p])
  BY MenuDirs DEF Agrees
<1>2. \A i \in DOMAIN Dirs[p] :
        <<Dirs[p][i], mtimes[p][i]>> \notin reused => c[Dirs[p][i]] \in seen[p][Dirs[p][i]]
  BY <1>1 DEF Agrees
<1>3. list'[p] = Listed(c, Dirs[p])
  BY <1>1, MenuDirs, ListedIsAll
<1> QED BY <1>1, <1>2, <1>3 DEF IsFresh

LEMMA FilesStep ==
  ASSUME IInv, Later, [Next]_vars, NEW f \in cache'
  PROVE  FileInv(f)'
<1> USE DEF IInv
<1>1. ASSUME f \in cache PROVE FileInv(f)'
  <2>1. FileInv(f)
    BY <1>1
  <2>2. DOMAIN f.dirs = 1..Len(f.dirs)
    BY <2>1, LenProperties DEF FileInv
  <2>3. AllNoted(f.dirs, f.mtimes, Len(f.dirs))
    BY <1>1, <2>2 DEF AllNoted, Noted
  <2> QED BY <2>1, <2>3, FileLater
<1>2. ASSUME NEW p \in Menu, write_cache(p), f \notin cache PROVE FileInv(f)'
  <2>1. /\ pc[p] = "write"
        /\ \E as \in SUBSET list[p] : f = [dirs |-> Dirs[p], mtimes |-> mtimes[p],
                                           apps |-> as, torn |-> as # list[p]]
    BY <1>2 DEF write_cache
  <2>a. PICK as \in SUBSET list[p] : f = [dirs |-> Dirs[p], mtimes |-> mtimes[p],
                                          apps |-> as, torn |-> as # list[p]]
    BY <2>1
  <2>b. f.dirs = Dirs[p] /\ f.mtimes = mtimes[p] /\ f.apps = as /\ f.torn = (as # list[p])
    BY <2>a
  <2>2. /\ f.dirs = Dirs[p] /\ f.mtimes = mtimes[p] /\ f.apps \subseteq list[p]
        /\ ~f.torn => f.apps = list[p]
    BY <2>b, Zenon
  <2>3. /\ Dirs[p] \in Seq(Dir) /\ mtimes[p] \in Seq(Int) /\ Len(mtimes[p]) = Len(Dirs[p])
        /\ scanned[p] = Len(Dirs[p]) /\ list[p] \subseteq App \X Dir
        /\ ScanAgrees(p)
    BY <2>1, MenuDirs DEF Types, MenuInv, Progress
  <2>4. FileInv(f)
    BY <2>1, <2>2, <2>3 DEF FileInv, ScanAgrees
  <2>5. AllNoted(f.dirs, f.mtimes, Len(f.dirs))
    <3>1. pc[p] \in Loading /\ DOMAIN mtimes[p] = 1..Len(Dirs[p])
      BY <2>1, <2>3, LenProperties DEF Loading
    <3> QED BY <2>2, <3>1 DEF AllNoted, Noted
  <2> QED BY <2>4, <2>5, FileLater
<1>3. ASSUME UNCHANGED cache PROVE FileInv(f)'
  BY <1>1, <1>3
<1>4. CASE Tick \/ \E d \in Dir : Change(d) \/ Delete(d)
  BY <1>3, <1>4 DEF Tick, Change, Delete, Touched
<1>5. ASSUME NEW p \in Menu,
             \/ Start(p) \/ build_watch_dirs(p) \/ try_load_cache(p) \/ scan_desktop_dir(p) \/ End(p)
      PROVE  FileInv(f)'
  BY <1>3, <1>5 DEF Start, build_watch_dirs, try_load_cache, scan_desktop_dir, End
<1>6. CASE UNCHANGED vars
  BY <1>3, <1>6 DEF vars
<1> QED BY <1>1, <1>2, <1>4, <1>5, <1>6 DEF Next

LEMMA OthersKept ==
  ASSUME IInv, Later, NEW p \in Menu, NEW q \in Menu, q # p,
         Start(p) \/ build_watch_dirs(p) \/ try_load_cache(p) \/ scan_desktop_dir(p)
           \/ write_cache(p) \/ End(p)
  PROVE  MenuInv(q)'
<1>1. content' = content
  BY DEF Start, build_watch_dirs, try_load_cache, scan_desktop_dir, write_cache, End, disk
<1>2. /\ pc'[q] = pc[q] /\ mtimes'[q] = mtimes[q] /\ scanned'[q] = scanned[q]
      /\ list'[q] = list[q] /\ seen'[q] = seen[q]
  <2> USE DEF IInv, Types
  <2>1. CASE Start(p)
    BY <2>1 DEF Start
  <2>2. CASE build_watch_dirs(p)
    BY <2>2 DEF build_watch_dirs
  <2>3. CASE try_load_cache(p)
    BY <2>3 DEF try_load_cache
  <2>4. CASE scan_desktop_dir(p)
    BY <2>4 DEF scan_desktop_dir
  <2>5. CASE write_cache(p)
    BY <2>5 DEF write_cache
  <2>6. CASE End(p)
    BY <2>6 DEF End
  <2> QED BY <2>1, <2>2, <2>3, <2>4, <2>5, <2>6
<1>3. SeesNow(q)'
  BY <1>1, <1>2 DEF IInv, MenuInv, SeesNow
<1> QED BY <1>2, <1>3, MenuLater DEF IInv

LEMMA ActorsStep ==
  ASSUME IInv, Types', Later, NEW p \in Menu
  PROVE  /\ Start(p) => MenuInv(p)'
         /\ build_watch_dirs(p) => MenuInv(p)'
         /\ try_load_cache(p) => MenuInv(p)'
         /\ scan_desktop_dir(p) => MenuInv(p)'
         /\ write_cache(p) => MenuInv(p)'
         /\ End(p) => MenuInv(p)'
<1> USE DEF IInv, Types
<1>0. /\ Dirs[p] \in Seq(Dir) /\ mtimes[p] \in Seq(Int) /\ Len(Dirs[p]) \in Nat
      /\ DOMAIN Dirs[p] = 1..Len(Dirs[p])
      /\ Len(mtimes[p]) \in Nat /\ Len(<<>>) = 0
      /\ MenuInv(p)
  BY MenuDirs, LenProperties, EmptySeq
<1>1. ASSUME Start(p) \/ End(p) PROVE MenuInv(p)'
  <2>1. /\ mtimes'[p] = <<>> /\ scanned'[p] = 0 /\ list'[p] = {}
        /\ pc'[p] \in {"done", "stat"}
    BY <1>0, <1>1 DEF Start, End, MenuInv, Progress
  <2>2. Progress(p)'
    BY <1>0, <2>1 DEF Progress
  <2>3. SeesNow(p)'
    BY <1>0, <2>1 DEF SeesNow
  <2> QED BY <2>1, <2>2, <2>3 DEF MenuInv, ScanAgrees
<1>2. ASSUME build_watch_dirs(p) PROVE MenuInv(p)'
  <2>1. /\ pc[p] = "stat" /\ scanned[p] = 0 /\ list[p] = {} /\ scanned' = scanned /\ list' = list
        /\ content' = content
        /\ pc'[p] \in {"stat", "load"}
    BY <1>0, <1>2 DEF build_watch_dirs, MenuInv, Progress, disk
  <2>2. Progress(p)'
    <3>1. CASE Len(mtimes[p]) < Len(Dirs[p])
      <4> DEFINE n == Len(mtimes[p])
                 t == mtime(Dirs[p][n + 1])
      <4>1. mtimes' = [mtimes EXCEPT ![p] = Append(@, t)] /\ pc' = pc
        BY <1>2, <3>1 DEF build_watch_dirs
      <4>2. t \in Int
        <5>1. n + 1 \in 1..Len(Dirs[p])
          BY <1>0, <3>1
        <5> QED BY <5>1, MenuDirs, MtimeType
      <4> HIDE DEF t
      <4>3. Len(mtimes'[p]) = n + 1
        BY <1>0, <4>1, <4>2, AppendProperties
      <4> QED BY <1>0, <2>1, <3>1, <4>1, <4>3 DEF Progress, MenuInv
    <3>2. CASE ~(Len(mtimes[p]) < Len(Dirs[p]))
      <4>1. mtimes' = mtimes /\ pc'[p] = "load"
        BY <1>2, <3>2 DEF build_watch_dirs
      <4> QED BY <1>0, <2>1, <3>2, <4>1 DEF Progress, MenuInv
    <3> QED BY <3>1, <3>2
  <2>3. SeesNow(p)'
    <3>1. ASSUME NEW k \in 1..Len(mtimes'[p])
          PROVE  content[Dirs[p][k]] \in seen'[p][Dirs[p][k]]
      <4>1. pc[p] \in Loading /\ pc'[p] \in Loading
        BY <2>1 DEF Loading
      <4>2. ReadLater(p, k)
        BY <3>1, <4>1 DEF Later
      <4> QED BY <1>0, <4>1, <4>2 DEF ReadLater, MenuInv, SeesNow
    <3> QED BY <2>1, <3>1 DEF SeesNow
  <2> QED BY <2>1, <2>2, <2>3 DEF MenuInv, ScanAgrees
<1>3. ASSUME try_load_cache(p) PROVE MenuInv(p)'
  <2>1. /\ pc[p] = "load" /\ scanned[p] = 0 /\ list[p] = {} /\ Len(mtimes[p]) = Len(Dirs[p])
        /\ scanned' = scanned /\ mtimes' = mtimes /\ UNCHANGED <<seen, disk, reused>>
        /\ pc'[p] \in {"ready", "scan"}
    BY <1>0, <1>3 DEF try_load_cache, MenuInv, Progress
  <2>2. Progress(p)' /\ SeesNow(p)'
    BY <1>0, <2>1 DEF Progress, SeesNow, MenuInv, disk, Loading
  <2>3. ASSUME pc'[p] = "ready" PROVE IsFresh(p)'
    <3>1. PICK f \in cache : /\ f.dirs = Dirs[p] /\ f.mtimes = mtimes[p] /\ ~f.torn
                             /\ list' = [list EXCEPT ![p] = f.apps]
      BY <1>3, <2>3 DEF try_load_cache
    <3>2. list'[p] = f.apps
      BY <3>1
    <3>3. PICK c : /\ Agrees(c, Dirs[p], mtimes[p], Len(Dirs[p]))
                   /\ f.apps = ListedTo(c, Dirs[p], Len(Dirs[p]))
      BY <3>1 DEF FileInv
    <3> QED BY <2>1, <3>2, <3>3, FreshList DEF Loading
  <2>4. ASSUME pc'[p] = "scan" PROVE ScanAgrees(p)'
    <3>1. scanned'[p] = 0 /\ list'[p] = {}
      BY <1>3, <2>1, <2>4 DEF try_load_cache
    <3>2. Agrees(content, Dirs[p], mtimes[p], 0)'
      BY DEF Agrees
    <3> QED BY <3>1, <3>2, NothingListed DEF ScanAgrees
  <2> QED BY <2>1, <2>2, <2>3, <2>4 DEF MenuInv, ScanAgrees
<1>4. ASSUME scan_desktop_dir(p) PROVE MenuInv(p)'
  <2> DEFINE n == scanned[p]
             d == Dirs[p][n + 1]
  <2>1. /\ pc[p] = "scan" /\ n \in Nat /\ n <= Len(Dirs[p]) /\ Len(mtimes[p]) = Len(Dirs[p])
        /\ mtimes' = mtimes /\ UNCHANGED <<seen, disk, reused>>
        /\ pc'[p] \in {"scan", "write"}
        /\ \A r \in Menu : pc'[r] \in Loading <=> pc[r] \in Loading
    BY <1>0, <1>4 DEF scan_desktop_dir, MenuInv, Progress, Loading
  <2>2. SeesNow(p)'
    BY <1>0, <2>1 DEF SeesNow, MenuInv, disk, Loading
  <2>3. PICK c : Agrees(c, Dirs[p], mtimes[p], n) /\ list[p] = ListedTo(c, Dirs[p], n)
    BY <1>0, <2>1 DEF MenuInv, ScanAgrees
  <2>4. CASE n < Len(Dirs[p])
    <3> DEFINE b == [c EXCEPT ![d] = content[d]]
    <3>1. n + 1 \in 1..Len(Dirs[p]) /\ d \in Dir /\ c \in [Dir -> SUBSET App]
      BY <2>1, <2>3, <2>4, MenuDirs DEF Agrees
    <3>2. /\ list' = [list EXCEPT ![p] = @ \cup ((content[d] \ {e[1] : e \in @}) \X {d})]
          /\ scanned' = [scanned EXCEPT ![p] = @ + 1] /\ pc' = pc
      BY <1>4, <2>4 DEF scan_desktop_dir
    <3>3. scanned'[p] = n + 1
          /\ list'[p] = list[p] \cup ((content[d] \ {e[1] : e \in list[p]}) \X {d})
      BY <3>2
    <3>4. list'[p] = ListedTo(b, Dirs[p], n + 1)
      <4>1. content[d] \in SUBSET App
        BY <3>1
      <4>2. WithMore(ListedTo(c, Dirs[p], n), content[d], d) = ListedTo(b, Dirs[p], n + 1)
        BY <2>1, <2>4, <3>1, <4>1, MoreScanned
      <4>3. list'[p] = WithMore(list[p], content[d], d)
        BY <3>3 DEF WithMore
      <4> QED BY <2>3, <4>2, <4>3
    <3> HIDE DEF d, n
    <3>5. b \in [Dir -> SUBSET App] /\ b[d] = content[d]
      BY <3>1
    <3>6. \A i \in 1..n : Dirs[p][i] # d /\ b[Dirs[p][i]] = c[Dirs[p][i]]
      <4>1. \A i \in 1..n : i \in 1..Len(Dirs[p]) /\ i # n + 1
        BY <2>1
      <4>2. \A i \in 1..n : Dirs[p][i] # d /\ Dirs[p][i] \in Dir
        BY <3>1, <4>1, MenuDirs DEF IsInjective, d
      <4> QED BY <3>1, <4>2
    <3> HIDE DEF b
    <3>7. Agrees(b, Dirs[p], mtimes[p], n + 1)
      <4>1. \A i \in 1..(n + 1) : i \in 1..n \/ (i = n + 1 /\ Dirs[p][i] = d)
        BY <2>1 DEF d
      <4>2. ASSUME NEW r \in Menu, pc[r] \in Loading, NEW k \in 1..Len(mtimes[r]), Dirs[r][k] = d
            PROVE  content[d] \in seen[r][d]
        BY <4>2 DEF MenuInv, SeesNow
      <4>3. ASSUME NEW i \in 1..n, <<Dirs[p][i], mtimes[p][i]>> \notin reused
            PROVE  /\ mtimes[p][i] = mtime(Dirs[p][i]) => b[Dirs[p][i]] = content[Dirs[p][i]]
                   /\ \A r \in Menu : pc[r] \in Loading =>
                        \A k \in 1..Len(mtimes[r]) :
                          Dirs[r][k] = Dirs[p][i] /\ mtimes[r][k] = mtimes[p][i]
                            => b[Dirs[p][i]] \in seen[r][Dirs[p][i]]
        BY <2>3, <3>6, <4>3 DEF Agrees
      <4>4. ASSUME NEW i, Dirs[p][i] = d
            PROVE  /\ mtimes[p][i] = mtime(Dirs[p][i]) => b[Dirs[p][i]] = content[Dirs[p][i]]
                   /\ \A r \in Menu : pc[r] \in Loading =>
                        \A k \in 1..Len(mtimes[r]) :
                          Dirs[r][k] = Dirs[p][i] /\ mtimes[r][k] = mtimes[p][i]
                            => b[Dirs[p][i]] \in seen[r][Dirs[p][i]]
        BY <3>5, <4>2, <4>4
      <4> QED BY <3>5, <4>1, <4>3, <4>4 DEF Agrees
    <3>8. ASSUME NEW m, m = n + 1, NEW h, h = b
          PROVE  Agrees(h, Dirs[p], mtimes[p], m)'
      <4>1. mtimes' = mtimes /\ seen' = seen /\ exists' = exists /\ changed' = changed
            /\ content' = content /\ reused' = reused
        BY <2>1 DEF disk
      <4> QED BY <2>1, <3>7, <3>8, <4>1 DEF Agrees, mtime
    <3>9. ScanAgrees(p)'
      <4>1. PICK m, h : m = n + 1 /\ h = b
        OBVIOUS
      <4>2. Agrees(h, Dirs[p], mtimes[p], m)' /\ m = scanned'[p]
            /\ list'[p] = ListedTo(h, Dirs[p], m)
        BY <3>3, <3>4, <3>8, <4>1
      <4>3. Agrees(h, Dirs[p], mtimes[p], scanned[p])'
        BY <4>2 DEF Agrees
      <4> QED BY <4>2, <4>3 DEF ScanAgrees
    <3>10. Progress(p)'
      BY <1>0, <2>1, <2>4, <3>2, <3>3 DEF Progress, MenuInv, n
    <3> QED BY <2>1, <2>2, <3>9, <3>10 DEF MenuInv
  <2>5. CASE ~(n < Len(Dirs[p]))
    <3>1. pc'[p] = "write" /\ UNCHANGED <<list, scanned>> /\ n = Len(Dirs[p])
      BY <1>0, <1>4, <2>1, <2>5 DEF scan_desktop_dir
    <3>2. Progress(p)'
      BY <1>0, <2>1, <3>1 DEF Progress, MenuInv
    <3>3. Agrees(c, Dirs[p], mtimes[p], n)'
      BY <2>1, <2>3, <3>1 DEF Agrees, mtime, disk
    <3>4. ScanAgrees(p)'
      BY <2>3, <3>1, <3>3 DEF ScanAgrees
    <3> QED BY <2>1, <2>2, <3>2, <3>4 DEF MenuInv
  <2> QED BY <2>4, <2>5
<1>5. ASSUME write_cache(p) PROVE MenuInv(p)'
  <2>1. /\ pc[p] = "write" /\ pc'[p] = "ready" /\ scanned[p] = Len(Dirs[p])
        /\ Len(mtimes[p]) = Len(Dirs[p])
        /\ UNCHANGED <<disk, mtimes, scanned, list, seen, reused>>
    BY <1>0, <1>5 DEF write_cache, MenuInv, Progress
  <2>2. Progress(p)' /\ SeesNow(p)'
    BY <1>0, <2>1 DEF Progress, SeesNow, MenuInv, Loading
  <2>3. PICK c : /\ Agrees(c, Dirs[p], mtimes[p], Len(Dirs[p]))
                 /\ list[p] = ListedTo(c, Dirs[p], Len(Dirs[p]))
    BY <1>0, <2>1 DEF MenuInv, ScanAgrees
  <2>4. IsFresh(p)'
    BY <2>1, <2>3, FreshList DEF Loading
  <2> QED BY <2>1, <2>2, <2>4 DEF MenuInv, ScanAgrees
<1> QED BY <1>1, <1>2, <1>3, <1>4, <1>5

LEMMA MenusStep ==
  ASSUME IInv, Types', Later, [Next]_vars, NEW p \in Menu
  PROVE  MenuInv(p)'
<1>1. ASSUME NEW d \in Dir, Change(d) \/ Delete(d) PROVE MenuInv(p)'
  <2>1. UNCHANGED menus
    BY <1>1, TouchedStep
  <2>2. SeesNow(p)'
    <3>1. ASSUME pc[p] \in Loading, NEW k \in 1..Len(mtimes[p])
          PROVE  content'[Dirs[p][k]] \in seen'[p][Dirs[p][k]]
      <4>1. content[Dirs[p][k]] \in seen[p][Dirs[p][k]]
        BY <3>1 DEF IInv, MenuInv, SeesNow
      <4>2. Dirs[p][k] \in Dir
        <5>1. mtimes[p] \in Seq(Int) /\ Len(mtimes[p]) <= Len(Dirs[p])
          BY DEF IInv, Types, MenuInv, Progress
        <5> QED BY <3>1, <5>1, MenuDirs, LenProperties
      <4> QED BY <1>1, <3>1, <4>1, <4>2, TouchedStep
    <3> QED BY <2>1, <3>1 DEF SeesNow, menus
  <2>3. pc[p] = "ready" => seen'[p] = seen[p]
    BY <1>1, TouchedStep DEF Loading
  <2> QED BY <2>1, <2>2, <2>3, MenuLater DEF IInv, menus
<1>2. CASE Tick \/ UNCHANGED vars
  <2>1. UNCHANGED <<menus, seen, content>>
    BY <1>2 DEF Tick, vars, disk
  <2>2. SeesNow(p)'
    BY <2>1 DEF IInv, MenuInv, SeesNow, menus
  <2> QED BY <2>1, <2>2, MenuLater DEF IInv, menus
<1>3. ASSUME NEW q \in Menu,
             \/ Start(q) \/ build_watch_dirs(q) \/ try_load_cache(q)
             \/ scan_desktop_dir(q) \/ write_cache(q) \/ End(q)
      PROVE  MenuInv(p)'
  <2>1. CASE q = p
    BY <1>3, <2>1, ActorsStep
  <2>2. CASE q # p
    BY <1>3, <2>2, OthersKept
  <2> QED BY <2>1, <2>2
<1> QED BY <1>1, <1>2, <1>3 DEF Next

LEMMA Inductive == IInv /\ [Next]_vars => IInv'
<1> SUFFICES ASSUME IInv, [Next]_vars PROVE IInv'
  OBVIOUS
<1>1. Types'
  BY TypesStep
<1>2. Later
  BY LaterStep
<1> QED BY <1>1, <1>2, MenusStep, FilesStep DEF IInv

LEMMA Invariance == Spec => []IInv
BY InitInv, Inductive, PTL DEF Spec

-----------------------------------------------------------------------------

\* A menu that is ready lists what its directories held at some time after it read
\* their times, also when it takes the cache another menu made (try_load_cache).
\* Nothing is supposed of the changes; the property leaves out the directories that
\* came again to the very time, in seconds, that the menu has of them.
THEOREM MenuListsFreshly == Spec => []ListIsFresh
<1>1. IInv => ListIsFresh
  BY DEF IInv, MenuInv, IsFresh, ListIsFresh
<1> QED BY <1>1, Invariance, PTL

\* A complete apps.cache that is for the times the directories have now is what a
\* scan of them would give now (write_cache), whatever was scanned while the
\* directories changed and whoever wrote it.  Again nothing is supposed of the
\* changes, and the property leaves out the directories whose time was reused.
THEOREM CacheTellsTruth == Spec => []CacheIsTrue
<1>1. ASSUME IInv PROVE CacheIsTrue
  <2> SUFFICES ASSUME NEW f \in cache, ~f.torn,
                      \A i \in DOMAIN f.dirs : f.mtimes[i] = mtime(f.dirs[i])
               PROVE  \E c \in [Dir -> SUBSET App] :
                        /\ \A i \in DOMAIN f.dirs : <<f.dirs[i], f.mtimes[i]>> \notin reused
                             => c[f.dirs[i]] = content[f.dirs[i]]
                        /\ f.apps = Listed(c, f.dirs)
    BY DEF CacheIsTrue
  <2>1. f.dirs \in Seq(Dir) /\ DOMAIN f.dirs = 1..Len(f.dirs)
    BY <1>1, LenProperties DEF IInv, FileInv
  <2>2. PICK c : Agrees(c, f.dirs, f.mtimes, Len(f.dirs))
                 /\ f.apps = ListedTo(c, f.dirs, Len(f.dirs))
    BY <1>1 DEF IInv, FileInv
  <2>3. /\ c \in [Dir -> SUBSET App]
        /\ \A i \in 1..Len(f.dirs) : <<f.dirs[i], f.mtimes[i]>> \notin reused
             => c[f.dirs[i]] = content[f.dirs[i]]
    BY <2>1, <2>2 DEF Agrees
  <2> QED BY <2>1, <2>2, <2>3, ListedIsAll
<1> QED BY <1>1, Invariance, PTL

=============================================================================
