------------------------------ MODULE KeyInput ------------------------------
(***************************************************************************)
(* Tap, hold and double tap: the bindings of a seat, the poll loop whose   *)
(* timeout is the hold timer, and the events of the server that reach it   *)
(* late (wm-input.c 69-225, wm-ipc.c 163-211).                             *)
(*                                                                         *)
(* Time is counted in ticks, and every clock of the program is kept as an  *)
(* age that stops at the largest value it is compared with.  Handlers read *)
(* the clock when they run, not when the key moved: the program may be     *)
(* late by MaxLag ticks, which is what makes taps and holds hard to tell   *)
(* apart.  What the actions do to the deck is in MainDeck.                 *)
(***************************************************************************)
EXTENDS Integers, Sequences

CONSTANTS
  Binding,             \* the bindings of the seat
  tap_action,          \* [Binding -> action]
  hold_action,         \* [Binding -> action], "NONE" for a binding without hold
  HOLD_THRESHOLD_MS,   \* in ticks
  DOUBLE_TAP_MS,       \* in ticks
  MaxLag,              \* ticks the program may leave work undone
  MaxWire              \* events under way at once (a bound of the model)

ASSUME TimeAssumption ==
  /\ HOLD_THRESHOLD_MS \in Nat \ {0} /\ DOUBLE_TAP_MS \in Nat
  /\ MaxLag \in Nat /\ MaxWire \in Nat \ {0}

VARIABLES
  held, hold_fired,    \* the flags of struct XkbBinding, as sets of bindings
  press_age,           \* time since press_time, up to HOLD_THRESHOLD_MS
  toggle_age,          \* time since last_toggle_tap, -1 when it is not valid
  pending_action,      \* of the seat
  wire,                \* events sent by the server and not handled yet
  late,                \* how long work has been waiting for the loop
  down,                \* the keys that are physically down
  down_age,            \* how long they have been, up to Long
  toggled_ago,         \* time since a tap last led to TOGGLE_TARGET, however it did
  acts                 \* actions this press of the key has led to

vars == <<held, hold_fired, press_age, toggle_age, pending_action, wire, late,
          down, down_age, toggled_ago, acts>>

Long == HOLD_THRESHOLD_MS + 2 * MaxLag + 1
Action == {tap_action[b] : b \in Binding} \cup {hold_action[b] : b \in Binding}
Least(m, n) == IF m < n THEN m ELSE n

Init ==
  /\ held = {} /\ hold_fired = {}
  /\ press_age = [b \in Binding |-> 0]
  /\ toggle_age = -1
  /\ pending_action = "NONE"
  /\ wire = <<>> /\ late = 0
  /\ down = {} /\ down_age = [b \in Binding |-> 0]
  /\ toggled_ago = DOUBLE_TAP_MS + 1
  /\ acts = [b \in Binding |-> 0]

-----------------------------------------------------------------------------
(* The keyboard and the server.                                            *)

\* The server sends a manage sequence after the events of keys, not
\* necessarily one after each; `render' stands for any other event.
KeyDown(b) ==
  /\ Len(wire) < MaxWire /\ b \notin down
  /\ \A n \in DOMAIN wire : wire[n].key # b
  /\ down' = down \cup {b} /\ down_age' = [down_age EXCEPT ![b] = 0]
  /\ wire' = Append(wire, [type |-> "pressed", key |-> b])
  /\ UNCHANGED <<held, hold_fired, press_age, toggle_age, pending_action, late, toggled_ago, acts>>

KeyUp(b) ==
  /\ Len(wire) < MaxWire /\ b \in down
  /\ down' = down \ {b}
  /\ wire' = Append(wire, [type |-> "released", key |-> b])
  /\ UNCHANGED <<held, hold_fired, press_age, toggle_age, pending_action, late,
                 down_age, toggled_ago, acts>>

ServerSends(type) ==
  /\ Len(wire) < MaxWire
  /\ wire' = Append(wire, [type |-> type, key |-> "NONE"])
  /\ UNCHANGED <<held, hold_fired, press_age, toggle_age, pending_action, late, down,
                 down_age, toggled_ago, acts>>

-----------------------------------------------------------------------------
(* The window manager.                                                     *)

Due == {b \in held \ hold_fired : press_age[b] >= HOLD_THRESHOLD_MS}

\* (Slip: a hold that is due already is passed over.)
compute_poll_timeout_FutureOnly ==
  LET left == {HOLD_THRESHOLD_MS - press_age[b] : b \in (held \ hold_fired) \ Due}
  IN  IF left = {} THEN -1 ELSE CHOOSE n \in left : \A m \in left : n <= m

\* Milliseconds the loop may sleep, -1 for no limit.
compute_poll_timeout ==
  LET left == {HOLD_THRESHOLD_MS - press_age[b] : b \in held \ hold_fired}
  IN  IF left = {} THEN -1 ELSE CHOOSE n \in left : \A m \in left : n <= m

\* Bookkeeping of toggled_ago when a tap leads to the action.
Toggled(action) ==
  CASE action = "TOGGLE_TARGET" -> 0
    [] action = "DECK_NEXT" -> DOUBLE_TAP_MS + 1
    [] OTHER -> toggled_ago

\* (Slip: the time of the press is only taken when the last one has fired.)
xkb_binding_handle_pressed_KeepsTime(b) ==
  /\ IF hold_action[b] = "NONE" THEN UNCHANGED <<held, hold_fired, press_age>>
     ELSE /\ held' = held \cup {b}
          /\ hold_fired' = hold_fired \ {b}
          /\ press_age' = [press_age EXCEPT ![b] = IF b \in hold_fired THEN 0 ELSE @]
  /\ acts' = [acts EXCEPT ![b] = 0]
  /\ UNCHANGED <<toggle_age, pending_action, toggled_ago>>

xkb_binding_handle_pressed(b) ==
  IF hold_action[b] # "NONE"
  THEN /\ held' = held \cup {b}
       /\ hold_fired' = hold_fired \ {b}
       /\ press_age' = [press_age EXCEPT ![b] = 0]
       /\ acts' = [acts EXCEPT ![b] = 0]
       /\ UNCHANGED <<toggle_age, pending_action, toggled_ago>>
  ELSE /\ acts' = [acts EXCEPT ![b] = 1]
       /\ UNCHANGED <<held, hold_fired, press_age>>
       /\ IF tap_action[b] # "TOGGLE_TARGET"
          THEN pending_action' = tap_action[b] /\ UNCHANGED toggle_age
          ELSE IF toggle_age >= 0
          THEN pending_action' = "DECK_NEXT" /\ toggle_age' = -1
          ELSE pending_action' = "TOGGLE_TARGET" /\ toggle_age' = 0
       /\ toggled_ago' = Toggled(pending_action')

xkb_binding_handle_released(b) ==
  /\ held' = held \ {b}
  /\ IF b \in held \ hold_fired
     THEN /\ pending_action' = tap_action[b]
          /\ acts' = [acts EXCEPT ![b] = @ + 1]
          /\ toggled_ago' = Toggled(tap_action[b])
     ELSE UNCHANGED <<pending_action, acts, toggled_ago>>
  /\ UNCHANGED <<hold_fired, press_age, toggle_age>>

\* (Slip: the hold is not marked as fired.)
process_hold_timers_Repeats ==
  /\ UNCHANGED hold_fired
  /\ acts' = [b \in Binding |-> IF b \in Due THEN acts[b] + 1 ELSE acts[b]]

\* Fires every hold that is due; its action runs at once.
process_hold_timers ==
  /\ hold_fired' = hold_fired \cup Due
  /\ acts' = [b \in Binding |-> IF b \in Due THEN acts[b] + 1 ELSE acts[b]]

\* Part of wm_handle_manage_start: the timers, then seat_manage takes the
\* pending action.
manage_start ==
  /\ process_hold_timers
  /\ pending_action' = "NONE"
  /\ UNCHANGED <<held, press_age, toggle_age, toggled_ago>>

\* One event of wl_display_dispatch_pending.
Dispatch ==
  /\ wire # <<>>
  /\ wire' = Tail(wire)
  /\ late' = IF Len(wire) = 1 /\ Due = {} THEN 0 ELSE late
  /\ \/ Head(wire).type = "pressed" /\ xkb_binding_handle_pressed(Head(wire).key)
     \/ Head(wire).type = "released" /\ xkb_binding_handle_released(Head(wire).key)
     \/ Head(wire).type = "manage_start" /\ manage_start
     \/ /\ Head(wire).type = "render"
        /\ UNCHANGED <<held, hold_fired, press_age, toggle_age, pending_action, toggled_ago, acts>>
  /\ UNCHANGED <<down, down_age>>

\* poll found nothing to read before a hold was due.
Timeout ==
  /\ wire = <<>> /\ compute_poll_timeout = 0
  /\ process_hold_timers
  /\ late' = 0
  /\ UNCHANGED <<held, press_age, toggle_age, pending_action, wire, down, down_age, toggled_ago>>

\* A tick passes.  The loop is never behind by more than MaxLag.
Tick ==
  /\ LET busy == wire # <<>> \/ Due # {}
     IN  /\ busy => late < MaxLag
         /\ late' = IF busy THEN late + 1 ELSE 0
  /\ press_age' = [b \in Binding |-> IF b \in held
                                     THEN Least(press_age[b] + 1, HOLD_THRESHOLD_MS)
                                     ELSE press_age[b]]
  /\ toggle_age' = IF toggle_age \in {-1, DOUBLE_TAP_MS} THEN -1
                   ELSE toggle_age + 1
  /\ down_age' = [b \in Binding |-> IF b \in down THEN Least(down_age[b] + 1, Long)
                                    ELSE down_age[b]]
  /\ toggled_ago' = Least(toggled_ago + 1, DOUBLE_TAP_MS + 1)
  /\ UNCHANGED <<held, hold_fired, pending_action, wire, down, acts>>

Next ==
  \/ \E b \in Binding : KeyDown(b) \/ KeyUp(b)
  \/ \E type \in {"manage_start", "render"} : ServerSends(type)
  \/ Dispatch
  \/ Timeout
  \/ Tick

Spec == Init /\ [][Next]_vars

\* The loop goes on and time passes; the server does not have an event waiting
\* each and every time that poll is called.
FairSpec ==
  Spec /\ WF_vars(Dispatch) /\ SF_vars(Timeout) /\ SF_vars(Tick) /\ []<>(wire = <<>>)

-----------------------------------------------------------------------------

TypeOK ==
  /\ held \subseteq Binding /\ hold_fired \subseteq Binding /\ down \subseteq Binding
  /\ press_age \in [Binding -> 0..HOLD_THRESHOLD_MS]
  /\ toggle_age \in -1..DOUBLE_TAP_MS
  /\ pending_action \in Action \cup {"NONE", "DECK_NEXT"}
  /\ Len(wire) <= MaxWire /\ late \in 0..MaxLag
  /\ down_age \in [Binding -> 0..Long]
  /\ toggled_ago \in 0..DOUBLE_TAP_MS + 1

\* A press of a key leads to its tap action or to its hold action, never to
\* both, however the release races with the timer and the manage sequence.
OneActionPerPress == \A b \in Binding : acts[b] <= 1

\* A hold only fires for a key that has been down for the threshold, less the
\* time by which the program was late to see it released.
HoldWasHeld ==
  [][\A b \in Binding :
       acts'[b] > acts[b] /\ b \in hold_fired' \ hold_fired =>
         down_age[b] >= HOLD_THRESHOLD_MS - MaxLag]_vars

\* A tap only acts for a key released before the threshold, or later by no more
\* than the program was late, to see the press and then to run the timer.
TapWasShort ==
  [][\A b \in Binding :
       (acts'[b] > acts[b] /\ b \in held \ held') =>
         down_age[b] <= HOLD_THRESHOLD_MS + 2 * MaxLag]_vars

\* A key that is kept down gets its hold action: no flow of other events keeps
\* the timer from firing for ever.
HoldFires ==
  \A b \in Binding : b \in held ~> (b \in hold_fired \/ b \notin held)

\* The second of two quick taps on a toggle key that can also be held shows the
\* next DECK card ("Super+Tab double tap: next DECK card", README.md).
DoubleTapCycles ==
  [][\A b \in Binding :
       (tap_action[b] = "TOGGLE_TARGET" /\ acts'[b] > acts[b] /\ b \in held \ held'
          /\ toggled_ago <= DOUBLE_TAP_MS)
         => pending_action' = "DECK_NEXT"]_vars

=============================================================================
