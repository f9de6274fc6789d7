------------------------------ MODULE Launcher ------------------------------
(***************************************************************************)
(* One start menu at a time (maindeck-menu.c, setup_ipc and cleanup_ipc).  *)
(* A process that starts binds a socket in the runtime directory.  If the  *)
(* name is taken it sends a letter to the menu that listens there and      *)
(* exits; if nobody listens it takes the name away and binds it itself.    *)
(* maindeck-wm starts menus with a key and closes them when a window is    *)
(* used (wm-input.c, close_launcher); the bar starts them with --mouse.    *)
(***************************************************************************)
EXTENDS Naturals, Sequences, FiniteSets

CONSTANTS
  Proc,                \* processes; each is started once and pids are not used again
  NONE,                \* no process
  MaxQueue,            \* letters a socket holds; a sender waits for room
  Alone,               \* TRUE: keys, clicks and timers come when the last one is done with
  Kills                \* TRUE: menus may be killed by anyone, and leave their name

ASSUME LauncherAssumption ==
  /\ NONE \notin Proc /\ MaxQueue \in Nat \ {0} /\ {Alone, Kills} \subseteq BOOLEAN

VARIABLES
  menu_pc,             \* where each process is
  mouse,               \* processes started with --mouse
  path,                \* the process whose socket has the name, it may be gone
  inbox,               \* letters in the socket of each process
  close_pending,       \* menus that lost the keyboard and wait FOCUS_DELAY_MS
  menu_pid,            \* g_menu_pid of maindeck-wm
  settled              \* 250 ms have passed since maindeck-wm started a menu

wm == <<menu_pid, settled>>
menu_vars == <<menu_pc, mouse, path, inbox, close_pending, wm>>

Starting == {"bind", "tell", "unlink", "rebind"}
Ending == {"ending", "closed"}

MenuInit ==
  /\ menu_pc = [p \in Proc |-> "off"]
  /\ mouse = {}
  /\ path = NONE
  /\ inbox = [p \in Proc |-> <<>>]
  /\ close_pending = {}
  /\ menu_pid = NONE
  /\ settled = TRUE

Goto(p, to) == menu_pc' = [menu_pc EXCEPT ![p] = to]
Calm == Alone => \A p \in Proc : menu_pc[p] \notin Starting \cup Ending /\ inbox[p] = <<>>
Listens(p) == p # NONE /\ menu_pc[p] \in {"up", "ending"}
HasRoom(p) == Len(inbox[p]) < MaxQueue
Post(p, letter) == inbox' = [inbox EXCEPT ![p] = Append(@, letter)]

-----------------------------------------------------------------------------
(* Starting.                                                               *)

\* The key of maindeck-wm.
spawn_launcher(p) ==
  /\ menu_pc[p] = "off" /\ Calm
  /\ Goto(p, "bind")
  /\ menu_pid' = p
  /\ settled' = FALSE
  /\ UNCHANGED <<mouse, path, inbox, close_pending>>

\* The button of the bar.
bar_quicklaunch_exec(p) ==
  /\ menu_pc[p] = "off" /\ Calm
  /\ Goto(p, "bind")
  /\ mouse' = mouse \cup {p}
  /\ UNCHANGED <<path, inbox, close_pending, wm>>

Bind(p) ==
  /\ menu_pc[p] = "bind"
  /\ IF path = NONE THEN path' = p /\ Goto(p, "up")
     ELSE Goto(p, "tell") /\ UNCHANGED path
  /\ UNCHANGED <<mouse, inbox, close_pending, wm>>

\* (Slip: a name that is taken is always taken away.)
Tell_Never(p) ==
  /\ menu_pc[p] = "tell"
  /\ Goto(p, "unlink")
  /\ UNCHANGED <<mouse, path, inbox, close_pending, wm>>

\* (Slip: it exits whether or not somebody got the letter.)
Tell_Unchecked(p) ==
  /\ menu_pc[p] = "tell"
  /\ Goto(p, "done")
  /\ UNCHANGED <<mouse, path, inbox, close_pending, wm>>

\* (Slip: it cleans up on its way out.)
Tell_Cleans(p) ==
  /\ menu_pc[p] = "tell"
  /\ IF Listens(path)
     THEN /\ HasRoom(path)
          /\ Post(path, IF p \in mouse THEN "M" ELSE "C")
          /\ Goto(p, "done")
          /\ path' = NONE
     ELSE /\ Goto(p, "unlink")
          /\ UNCHANGED <<path, inbox>>
  /\ UNCHANGED <<mouse, close_pending, wm>>

\* (Slip: the letters are mixed up.)
Tell_Swapped(p) ==
  /\ menu_pc[p] = "tell"
  /\ IF Listens(path)
     THEN /\ HasRoom(path)
          /\ Post(path, IF p \in mouse THEN "C" ELSE "M")
          /\ Goto(p, "done")
     ELSE /\ Goto(p, "unlink")
          /\ UNCHANGED inbox
  /\ UNCHANGED <<mouse, path, close_pending, wm>>

\* The letter is delivered if somebody listens, and the process exits.
Tell(p) ==
  /\ menu_pc[p] = "tell"
  /\ IF Listens(path)
     THEN /\ HasRoom(path)
          /\ Post(path, IF p \in mouse THEN "M" ELSE "C")
          /\ Goto(p, "done")
     ELSE /\ Goto(p, "unlink")
          /\ UNCHANGED inbox
  /\ UNCHANGED <<mouse, path, close_pending, wm>>

\* An orphan, it thinks.
Unlink(p) ==
  /\ menu_pc[p] = "unlink"
  /\ path' = NONE
  /\ Goto(p, "rebind")
  /\ UNCHANGED <<mouse, inbox, close_pending, wm>>

Rebind(p) ==
  /\ menu_pc[p] = "rebind"
  /\ IF path = NONE THEN path' = p /\ Goto(p, "up")
     ELSE Goto(p, "done") /\ UNCHANGED path
  /\ UNCHANGED <<mouse, inbox, close_pending, wm>>

-----------------------------------------------------------------------------
(* Running and ending.                                                     *)

\* Escape, an application is started, or the compositor closes the surface.
Leave(p) ==
  /\ menu_pc[p] = "up" /\ Calm
  /\ Goto(p, "ending")
  /\ UNCHANGED <<mouse, path, inbox, close_pending, wm>>

keyboard_leave(p) ==
  /\ menu_pc[p] = "up" /\ p \notin close_pending
  /\ close_pending' = close_pending \cup {p}
  /\ UNCHANGED <<menu_pc, mouse, path, inbox, wm>>

close_deadline(p) ==
  /\ menu_pc[p] = "up" /\ p \in close_pending /\ Calm
  /\ Goto(p, "ending")
  /\ UNCHANGED <<mouse, path, inbox, close_pending, wm>>

Receive(p) ==
  /\ menu_pc[p] = "up" /\ inbox[p] # <<>>
  /\ inbox' = [inbox EXCEPT ![p] = Tail(@)]
  /\ IF Head(inbox[p]) = "M"
     THEN close_pending' = close_pending \ {p} /\ UNCHANGED menu_pc
     ELSE Goto(p, "ending") /\ UNCHANGED close_pending
  /\ UNCHANGED <<mouse, path, wm>>

\* What is still in the socket is lost.
CloseSocket(p) ==
  /\ menu_pc[p] = "ending"
  /\ Goto(p, "closed")
  /\ inbox' = [inbox EXCEPT ![p] = <<>>]
  /\ UNCHANGED <<mouse, path, close_pending, wm>>

\* Whoever has the name loses it.
RemovePath(p) ==
  /\ menu_pc[p] = "closed"
  /\ path' = NONE
  /\ Goto(p, "done")
  /\ UNCHANGED <<mouse, inbox, close_pending, wm>>

\* It dies without cleaning up, and its letters with it.
Killed(p) ==
  /\ Kills /\ menu_pc[p] = "up"
  /\ Goto(p, "killed")
  /\ inbox' = [inbox EXCEPT ![p] = <<>>]
  /\ UNCHANGED <<mouse, path, close_pending, wm>>

-----------------------------------------------------------------------------
(* maindeck-wm closes the menu when a window is used.                      *)

Settle ==
  /\ ~settled
  /\ settled' = TRUE
  /\ UNCHANGED <<menu_pc, mouse, path, inbox, close_pending, menu_pid>>

close_launcher_sent ==
  /\ settled /\ Calm /\ Listens(path)
  /\ HasRoom(path)
  /\ Post(path, "C")
  /\ UNCHANGED <<menu_pc, mouse, path, close_pending, wm>>

\* Nobody listens: SIGTERM to the process started last, if it is there.
close_launcher_kill ==
  /\ settled /\ Calm /\ ~Listens(path)
  /\ menu_pid # NONE
  /\ Goto(menu_pid, "killed")
  /\ inbox' = [inbox EXCEPT ![menu_pid] = <<>>]
  /\ menu_pid' = NONE
  /\ UNCHANGED <<mouse, path, close_pending, settled>>

-----------------------------------------------------------------------------

setup_ipc(p) == Bind(p) \/ Tell(p) \/ Unlink(p) \/ Rebind(p)
cleanup_ipc(p) == CloseSocket(p) \/ RemovePath(p)

MenuNext ==
  \/ \E p \in Proc :
       \/ spawn_launcher(p) \/ bar_quicklaunch_exec(p)
       \/ setup_ipc(p)
       \/ Leave(p) \/ keyboard_leave(p) \/ close_deadline(p) \/ Receive(p)
       \/ cleanup_ipc(p)
       \/ Killed(p)
  \/ Settle \/ close_launcher_sent \/ close_launcher_kill

MenuSpec == MenuInit /\ [][MenuNext]_menu_vars

\* Every process runs on and reads its socket; the user need not do anything.
MenuFairSpec ==
  /\ MenuSpec
  /\ \A p \in Proc : WF_menu_vars(setup_ipc(p) \/ cleanup_ipc(p)) /\ WF_menu_vars(Receive(p))

-----------------------------------------------------------------------------

Up == {p \in Proc : menu_pc[p] = "up"}

\* Types; and a process that is still starting has neither the name nor letters.
MenuTypeOK ==
  /\ menu_pc \in [Proc -> Starting \cup Ending \cup {"off", "up", "done", "killed"}]
  /\ path \in Proc \cup {NONE} /\ menu_pid \in Proc \cup {NONE}
  /\ inbox \in [Proc -> Seq({"C", "M"})]
  /\ mouse \cup close_pending \subseteq Proc
  /\ settled \in BOOLEAN
  /\ \A p \in Proc : /\ Len(inbox[p]) <= MaxQueue
                     /\ menu_pc[p] \in Starting => path # p /\ inbox[p] = <<>>

\* There is one menu at most.
OneMenu == Cardinality(Up) <= 1

\* A menu that is up has the name: the next start and maindeck-wm can reach it.
MenuReachable == \A p \in Up : path = p

\* A process that exits in favour of another leaves a menu that is up: the press
\* was not in vain.
ToldMenuIsUp ==
  [][\A p \in Proc : menu_pc[p] = "tell" /\ menu_pc'[p] = "done" => menu_pc[path] = "up"]_menu_vars

\* SIGTERM goes to a process that still is there.
KillHitsMenu ==
  [][menu_pid' = NONE /\ menu_pid # NONE => menu_pc[menu_pid] \notin {"done", "killed"}]_menu_vars

\* A menu that starts when there is none comes up, whatever names were left.
StartOpens ==
  \A p \in Proc :
    (menu_pc[p] = "bind" /\ \A q \in Proc : ~Listens(q) /\ menu_pc[q] # "closed")
      ~> menu_pc[p] = "up"

\* A press of the key while a menu is up closes it, if it does not die first: it is
\* found under its name, told, and acts on what it was told.
StartCloses ==
  \A p, q \in Proc :
    (menu_pc[p] = "bind" /\ p \notin mouse /\ menu_pc[q] = "up") ~> menu_pc[q] # "up"

=============================================================================
