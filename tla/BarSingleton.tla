---------------------------- MODULE BarSingleton ----------------------------
(***************************************************************************)
(* One maindeck-bar at a time (bar-main.c, singleton_acquire): a new bar   *)
(* locks the lock file, or reads from it who has the lock, sends that      *)
(* process SIGTERM and tries for a while; then it writes its own pid.      *)
(***************************************************************************)
EXTENDS Naturals

CONSTANTS
  Bar,                 \* pids of maindeck-bar processes; they are used again
  NOBODY,              \* nobody
  Tries                \* attempts to lock the file, 40 in the code

ASSUME BarSingletonAssumption == NOBODY \notin Bar /\ Tries \in Nat \ {0}

VARIABLES
  bar_pc,              \* where each bar is
  tries,               \* attempts it has made
  lock,                \* who has the lock
  file,                \* the pid in the file
  told,                \* bars with a SIGTERM to obey
  together,            \* history: a bar was started while another was starting
  late                 \* history: a bar that was told to end outlasted the attempts

history == <<together, late>>
bar_vars == <<bar_pc, tries, lock, file, told, together, late>>

BarStarting == {"lock", "peek", "wait", "own"}

BarInit ==
  /\ bar_pc = [p \in Bar |-> "off"]
  /\ tries = [p \in Bar |-> 0]
  /\ lock = NOBODY /\ file = NOBODY
  /\ told = {}
  /\ together = FALSE /\ late = FALSE

StartBar(p) ==
  /\ bar_pc[p] = "off"
  /\ bar_pc' = [bar_pc EXCEPT ![p] = "lock"]
  /\ together' = (together \/ \E q \in Bar : bar_pc[q] \in BarStarting)
  /\ UNCHANGED <<tries, lock, file, told, late>>

\* flock without waiting.
TryLock(p) ==
  /\ bar_pc[p] = "lock"
  /\ IF lock = NOBODY
     THEN lock' = p /\ bar_pc' = [bar_pc EXCEPT ![p] = "own"]
     ELSE lock' = lock /\ bar_pc' = [bar_pc EXCEPT ![p] = "peek"]
  /\ UNCHANGED <<tries, file, told, history>>

\* (Slip: only one that is still starting is told.)
TellHolder_Starting(p) ==
  /\ bar_pc[p] = "peek"
  /\ told' = told \cup {q \in Bar : q = file /\ bar_pc[q] \in BarStarting}
  /\ bar_pc' = [bar_pc EXCEPT ![p] = "wait"]
  /\ UNCHANGED <<tries, lock, file, history>>

\* Who is named in the file is told, if there is such a process and it is a bar.
TellHolder(p) ==
  /\ bar_pc[p] = "peek"
  /\ told' = told \cup {q \in Bar : q = file /\ bar_pc[q] # "off"}
  /\ bar_pc' = [bar_pc EXCEPT ![p] = "wait"]
  /\ UNCHANGED <<tries, lock, file, history>>

\* One more attempt.
Wait(p) ==
  /\ bar_pc[p] = "wait" /\ tries[p] < Tries
  /\ IF lock = NOBODY
     THEN lock' = p /\ bar_pc' = [bar_pc EXCEPT ![p] = "own"]
     ELSE lock' = lock /\ bar_pc' = bar_pc
  /\ tries' = [tries EXCEPT ![p] = @ + 1]
  /\ late' = (late \/ (tries[p] + 1 = Tries /\ lock \in told))
  /\ UNCHANGED <<file, told, together>>

\* (Slip: it waits for the lock to be free.)
GiveUp_Waits(p) ==
  /\ bar_pc[p] = "wait" /\ tries[p] = Tries
  /\ lock = NOBODY
  /\ bar_pc' = [bar_pc EXCEPT ![p] = "own"]
  /\ UNCHANGED <<tries, lock, file, told, history>>

\* After the last attempt the bar goes on without the lock.
GiveUp(p) ==
  /\ bar_pc[p] = "wait" /\ tries[p] = Tries
  /\ bar_pc' = [bar_pc EXCEPT ![p] = "own"]
  /\ UNCHANGED <<tries, lock, file, told, history>>

\* (Slip: the file keeps the pid it has.)
WritePid_Once(p) ==
  /\ bar_pc[p] = "own"
  /\ file' = IF file = NOBODY THEN p ELSE file
  /\ bar_pc' = [bar_pc EXCEPT ![p] = "running"]
  /\ UNCHANGED <<tries, lock, told, history>>

WritePid(p) ==
  /\ bar_pc[p] = "own"
  /\ file' = p
  /\ bar_pc' = [bar_pc EXCEPT ![p] = "running"]
  /\ UNCHANGED <<tries, lock, told, history>>

\* It is told to end and does, or it dies; the lock goes with it, the file stays.
EndBar(p) ==
  /\ bar_pc[p] # "off"
  /\ bar_pc' = [bar_pc EXCEPT ![p] = "off"]
  /\ tries' = [tries EXCEPT ![p] = 0]
  /\ lock' = IF lock = p THEN NOBODY ELSE lock
  /\ told' = told \ {p}
  /\ UNCHANGED <<file, history>>

BarNext ==
  \E p \in Bar : \/ StartBar(p) \/ TryLock(p) \/ TellHolder(p) \/ Wait(p) \/ GiveUp(p)
                \/ WritePid(p) \/ EndBar(p)

BarSpec == BarInit /\ [][BarNext]_bar_vars

\* A bar that starts is not stopped; nobody has to end.
BarFairSpec ==
  /\ BarSpec
  /\ \A p \in Bar : WF_bar_vars(TryLock(p) \/ TellHolder(p) \/ Wait(p) \/ GiveUp(p) \/ WritePid(p))

-----------------------------------------------------------------------------
(* What must hold.                                                         *)

BarTypeOK ==
  /\ bar_pc \in [Bar -> BarStarting \cup {"off", "running"}]
  /\ tries \in [Bar -> 0..Tries]
  /\ lock \in Bar \cup {NOBODY} /\ file \in Bar \cup {NOBODY}
  /\ told \subseteq Bar
  /\ together \in BOOLEAN /\ late \in BOOLEAN

\* No two bars are up at once, as long as bars are started one after the other
\* and obey in the two seconds that singleton_acquire gives them, whatever ends
\* or dies meanwhile and whoever has the pid in the file by then.
OneBar ==
  \A p, q \in Bar : bar_pc[p] = "running" /\ bar_pc[q] = "running" /\ p # q => together \/ late

\* The bar that is up can be found by the next: it has the lock and the file
\* has its pid.
HolderIsNamed ==
  \A p \in Bar : bar_pc[p] = "running" => (file = p /\ lock = p) \/ together \/ late

\* A bar that is started comes up, unless it is ended itself: a bar that hangs
\* does not keep the next one from coming up, nor do bars that start together.
StartRuns == \A p \in Bar : bar_pc[p] = "lock" ~> bar_pc[p] \in {"running", "off"}

\* A lock is said to "prevent multiple concurrent instances" (bar-main.c:329);
\* with bars started together it does not.
OneBarAtOnce == \A p, q \in Bar : bar_pc[p] = "running" /\ bar_pc[q] = "running" => p = q

=============================================================================
