--------------------------- MODULE KeyInputProofs ---------------------------
(***************************************************************************)
(* A press acts once, and a hold fires only for a key that was held, for   *)
(* any bindings, threshold, lag and number of events under way.            *)
(***************************************************************************)
EXTENDS KeyInput, SequenceTheorems, TLAPS

Event == [type : {"pressed", "released"}, key : Binding]
           \cup [type : {"manage_start", "render"}, key : {"NONE"}]

Typed ==
  /\ held \subseteq Binding /\ down \subseteq Binding
  /\ press_age \in [Binding -> Nat] /\ down_age \in [Binding -> Nat]
  /\ acts \in [Binding -> Nat]
  /\ late \in 0..MaxLag
  /\ wire \in Seq(Event)

\* Only a binding with a hold action is held, and one whose hold has not fired
\* has not acted.
ActsOnce ==
  \A b \in Binding :
    /\ acts[b] <= 1
    /\ b \in held => hold_action[b] # "NONE"
    /\ b \in held \ hold_fired => acts[b] = 0

IsPress(e, b) == e.type = "pressed" /\ e.key = b
IsRelease(e, b) == e.type = "released" /\ e.key = b

\* A press that is under way is of a key that is down, or is followed by its
\* release, ...
PressesEnd ==
  \A b \in Binding : \A n \in 1..Len(wire) :
    IsPress(wire[n], b) =>
      b \in down \/ \E m \in 1..Len(wire) : m > n /\ IsRelease(wire[m], b)
\* ... and so is a press that has been handled, until its release has.
HeldEnds ==
  \A b \in held : b \in down \/ \E m \in 1..Len(wire) : IsRelease(wire[m], b)

\* The clock of a held key is not ahead of the key by more than its release has
\* been waiting.
ClockIsBehind ==
  \A b \in held : press_age[b] <= down_age[b] + IF b \in down THEN 0 ELSE late

IInv == Typed /\ ActsOnce /\ PressesEnd /\ HeldEnds /\ ClockIsBehind

USE TimeAssumption DEF TimeAssumption

LEMMA InitInv == Init => IInv
<1> SUFFICES ASSUME Init PROVE IInv
  OBVIOUS
<1> USE DEF Init
<1>1. Typed
  <2>1. [b \in Binding |-> 0] \in [Binding -> Nat]
    OBVIOUS
  <2>2. wire \in Seq(Event)
    OBVIOUS
  <2>3. late \in 0..MaxLag
    OBVIOUS
  <2> QED BY <2>1, <2>2, <2>3 DEF Typed
<1>2. ActsOnce
  <2> SUFFICES ASSUME NEW b \in Binding PROVE acts[b] <= 1 /\ b \notin held
    BY DEF ActsOnce
  <2>1. acts[b] = 0
    OBVIOUS
  <2> QED BY <2>1
<1>3. PressesEnd /\ HeldEnds /\ ClockIsBehind
  <2>1. Len(wire) = 0
    OBVIOUS
  <2> QED BY <2>1 DEF PressesEnd, HeldEnds, ClockIsBehind
<1> QED BY <1>1, <1>2, <1>3 DEF IInv

\* What sending an event does to the wire.
LEMMA Sent ==
  ASSUME wire \in Seq(Event), NEW e \in Event, wire' = Append(wire, e)
  PROVE  /\ wire' \in Seq(Event)
         /\ Len(wire) \in Nat /\ Len(wire') = Len(wire) + 1
         /\ \A n \in 1..Len(wire) : wire'[n] = wire[n]
         /\ wire'[Len(wire) + 1] = e
BY AppendProperties

\* What handling one does.
LEMMA Handled ==
  ASSUME wire \in Seq(Event), wire # <<>>, wire' = Tail(wire)
  PROVE  /\ wire' \in Seq(Event)
         /\ Head(wire) = wire[1] /\ wire[1] \in Event
         /\ Len(wire) \in Nat /\ Len(wire) > 0 /\ Len(wire') = Len(wire) - 1
         /\ \A n \in 1..Len(wire') : wire'[n] = wire[n + 1]
BY HeadTailProperties

\* The part of the invariant about the wire, for an event that is sent while
\* nothing of the program changes.
LEMMA SentKeeps ==
  ASSUME IInv, NEW e \in Event, wire' = Append(wire, e),
         UNCHANGED <<held, press_age, late, acts, hold_fired>>,
         down' \subseteq Binding, down_age' \in [Binding -> Nat],
         \A b \in down \ down' : IsRelease(e, b),
         \A b \in down' \ down : \A n \in 1..Len(wire) : ~IsRelease(wire[n], b),
         \A b \in Binding : down_age'[b] = down_age[b] \/ b \in down' \ down,
         \A b \in Binding : IsPress(e, b) => b \in down'
  PROVE  IInv'
<1> USE DEF IInv
<1>0. /\ Len(wire) \in Nat /\ Len(wire') = Len(wire) + 1
      /\ \A n \in 1..Len(wire) : wire'[n] = wire[n]
      /\ wire'[Len(wire) + 1] = e
  BY Sent DEF Typed
<1>1. Typed'
  BY Sent DEF Typed
<1>2. ActsOnce'
  BY DEF ActsOnce
<1>3. PressesEnd'
  <2> SUFFICES ASSUME NEW b \in Binding, NEW n \in 1..Len(wire'), IsPress(wire'[n], b),
                      b \notin down'
               PROVE  \E m \in 1..Len(wire') : m > n /\ IsRelease(wire'[m], b)
    BY DEF PressesEnd
  <2>1. n \in 1..Len(wire) /\ wire'[n] = wire[n]
    BY <1>0
  <2>2. CASE b \in down
    <3>1. IsRelease(wire'[Len(wire) + 1], b)
      BY <2>2, <1>0
    <3>2. Len(wire) + 1 \in 1..Len(wire') /\ Len(wire) + 1 > n
      BY <2>1, <1>0
    <3> QED BY <3>1, <3>2
  <2>3. CASE b \notin down
    <3>1. PICK m \in 1..Len(wire) : m > n /\ IsRelease(wire[m], b)
      BY <2>1, <2>3 DEF PressesEnd
    <3>2. m \in 1..Len(wire') /\ wire'[m] = wire[m]
      BY <1>0
    <3> QED BY <3>1, <3>2
  <2> QED BY <2>2, <2>3
<1>4. HeldEnds'
  <2> SUFFICES ASSUME NEW b \in held, b \notin down'
               PROVE  \E m \in 1..Len(wire') : IsRelease(wire'[m], b)
    BY DEF HeldEnds
  <2>1. CASE b \in down
    <3>1. IsRelease(wire'[Len(wire) + 1], b)
      BY <2>1, <1>0
    <3>2. Len(wire) + 1 \in 1..Len(wire')
      BY <1>0
    <3> QED BY <3>1, <3>2
  <2>2. CASE b \notin down
    <3>1. PICK m \in 1..Len(wire) : IsRelease(wire[m], b)
      BY <2>2 DEF HeldEnds
    <3>2. m \in 1..Len(wire') /\ wire'[m] = wire[m]
      BY <1>0
    <3> QED BY <3>1, <3>2
  <2> QED BY <2>1, <2>2
<1>5. ClockIsBehind'
  <2> SUFFICES ASSUME NEW b \in held
               PROVE  press_age[b] <= down_age'[b] + IF b \in down' THEN 0 ELSE late
    BY DEF ClockIsBehind
  <2>1. b \in down' => b \in down
    BY DEF HeldEnds
  <2>2. b \in Binding /\ down_age'[b] = down_age[b]
    BY <2>1 DEF Typed
  <2> QED BY <2>1, <2>2 DEF Typed, ClockIsBehind
<1> QED BY <1>1, <1>2, <1>3, <1>4, <1>5

LEMMA KeyDownStep == ASSUME IInv, NEW b \in Binding, KeyDown(b) PROVE IInv'
<1> DEFINE e == [type |-> "pressed", key |-> b]
<1>1. e \in Event /\ wire' = Append(wire, e) /\ down' = down \cup {b} /\ b \notin down
  BY DEF KeyDown, Event
<1>2. \A n \in 1..Len(wire) : ~IsRelease(wire[n], b)
  BY DEF KeyDown, IsRelease, IInv, Typed
<1>3. /\ down_age' \in [Binding -> Nat]
      /\ \A c \in Binding : c # b => down_age'[c] = down_age[c]
  BY DEF KeyDown, IInv, Typed
<1>4. \A c \in Binding : IsPress(e, c) => c \in down'
  BY <1>1 DEF IsPress
<1>5. down' \subseteq Binding
  BY <1>1 DEF IInv, Typed
<1>6. UNCHANGED <<held, press_age, late, acts, hold_fired>>
  BY DEF KeyDown
<1> HIDE DEF e
<1> QED BY <1>1, <1>2, <1>3, <1>4, <1>5, <1>6, SentKeeps

LEMMA KeyUpStep == ASSUME IInv, NEW b \in Binding, KeyUp(b) PROVE IInv'
<1> DEFINE e == [type |-> "released", key |-> b]
<1>1. e \in Event /\ wire' = Append(wire, e) /\ down' = down \ {b} /\ b \in down
  BY DEF KeyUp, Event
<1>2. IsRelease(e, b) /\ \A c \in Binding : ~IsPress(e, c)
  BY DEF IsRelease, IsPress
<1>3. UNCHANGED <<held, press_age, late, acts, hold_fired, down_age>>
  BY DEF KeyUp
<1>4. down' \subseteq Binding /\ down_age' \in [Binding -> Nat]
  BY <1>1, <1>3 DEF IInv, Typed
<1> HIDE DEF e
<1> QED BY <1>1, <1>2, <1>3, <1>4, SentKeeps

LEMMA ServerSendsStep ==
  ASSUME IInv, NEW type \in {"manage_start", "render"}, ServerSends(type) PROVE IInv'
<1> DEFINE e == [type |-> type, key |-> "NONE"]
<1>1. e \in Event /\ wire' = Append(wire, e)
  BY DEF ServerSends, Event
<1>2. \A c \in Binding : ~IsPress(e, c)
  BY DEF IsPress
<1>3. UNCHANGED <<held, press_age, late, acts, hold_fired, down_age, down>>
  BY DEF ServerSends
<1>4. down' \subseteq Binding /\ down_age' \in [Binding -> Nat]
  BY <1>3 DEF IInv, Typed
<1> HIDE DEF e
<1> QED BY <1>1, <1>2, <1>3, <1>4, SentKeeps

\* The timers: who fires was held and had not fired.
LEMMA TimersFire ==
  ASSUME IInv, process_hold_timers, held' = held
  PROVE  ActsOnce' /\ acts' \in [Binding -> Nat]
<1>1. acts' \in [Binding -> Nat]
  BY DEF process_hold_timers, IInv, Typed
<1>2. ASSUME NEW b \in Binding
      PROVE  /\ acts'[b] <= 1
             /\ b \in held' => hold_action[b] # "NONE"
             /\ b \in held' \ hold_fired' => acts'[b] = 0
  <2>1. acts[b] \in Nat /\ acts[b] <= 1 /\ (b \in held \ hold_fired => acts[b] = 0)
    BY DEF IInv, Typed, ActsOnce
  <2>2. acts'[b] = IF b \in Due THEN acts[b] + 1 ELSE acts[b]
    BY DEF process_hold_timers
  <2>3. b \in Due => b \in held \ hold_fired
    BY DEF Due
  <2>4. b \in held' => hold_action[b] # "NONE"
    BY DEF IInv, ActsOnce
  <2>5. hold_fired' = hold_fired \cup Due
    BY DEF process_hold_timers
  <2> QED BY <2>1, <2>2, <2>3, <2>4, <2>5
<1> QED BY <1>1, <1>2 DEF ActsOnce

LEMMA TimeoutStep == ASSUME IInv, Timeout PROVE IInv'
<1> USE DEF IInv, Timeout
<1>1. Typed' /\ ActsOnce'
  BY TimersFire DEF Typed
<1>2. Len(wire) = 0
  OBVIOUS
<1>3. PressesEnd' /\ HeldEnds'
  BY <1>2 DEF PressesEnd, HeldEnds
<1>4. ClockIsBehind'
  BY <1>2 DEF ClockIsBehind, HeldEnds
<1> QED BY <1>1, <1>3, <1>4

LEMMA TickStep == ASSUME IInv, Tick PROVE IInv'
<1> USE DEF IInv, Tick
<1>1. Typed'
  <2>1. press_age' \in [Binding -> Nat] /\ down_age' \in [Binding -> Nat]
    BY DEF Typed, Least, Long
  <2>2. late' \in 0..MaxLag
    BY DEF Typed
  <2> QED BY <2>1, <2>2 DEF Typed
<1>2. ActsOnce'
  BY DEF ActsOnce
<1>3. PressesEnd' /\ HeldEnds'
  BY DEF PressesEnd, HeldEnds
<1>4. ClockIsBehind'
  <2> SUFFICES ASSUME NEW b \in held
               PROVE  press_age'[b] <= down_age'[b] + IF b \in down THEN 0 ELSE late'
    BY DEF ClockIsBehind
  <2>1. /\ b \in Binding /\ press_age[b] \in Nat /\ down_age[b] \in Nat /\ late \in Nat
        /\ press_age[b] <= down_age[b] + IF b \in down THEN 0 ELSE late
    BY DEF Typed, ClockIsBehind
  <2>2. press_age'[b] = Least(press_age[b] + 1, HOLD_THRESHOLD_MS)
    BY <2>1
  <2>3. CASE b \in down
    <3>1. down_age'[b] = Least(down_age[b] + 1, Long)
      BY <2>1, <2>3
    <3> QED BY <2>1, <2>2, <2>3, <3>1 DEF Least, Long
  <2>4. CASE b \notin down
    <3>1. down_age'[b] = down_age[b]
      BY <2>1, <2>4
    <3>2. wire # <<>>
      BY <2>4 DEF HeldEnds
    <3>3. late' = late + 1
      BY <3>2
    <3> QED BY <2>1, <2>2, <2>4, <3>1, <3>3 DEF Least
  <2> QED BY <2>3, <2>4
<1> QED BY <1>1, <1>2, <1>3, <1>4

\* The part of the invariant about the wire, for an event that is handled: who is
\* held after it was held before, and it is not the release, or it is the press.
LEMMA HandledKeeps ==
  ASSUME IInv, wire # <<>>, wire' = Tail(wire),
         UNCHANGED <<down, down_age>>,
         late' = late \/ (late' = 0 /\ Len(wire) = 1),
         held' \subseteq Binding, press_age' \in [Binding -> Nat],
         acts' \in [Binding -> Nat], ActsOnce',
         \A b \in held' :
           \/ b \in held /\ press_age'[b] = press_age[b] /\ ~IsRelease(wire[1], b)
           \/ IsPress(wire[1], b) /\ press_age'[b] = 0
  PROVE  IInv'
<1> USE DEF IInv
<1>0. /\ Len(wire) \in Nat /\ Len(wire) > 0 /\ Len(wire') = Len(wire) - 1
      /\ \A n \in 1..Len(wire') : wire'[n] = wire[n + 1]
  BY Handled DEF Typed
<1>1. Typed'
  BY Handled DEF Typed
<1>2. ASSUME NEW b, NEW m \in 1..Len(wire), m > 1, IsRelease(wire[m], b)
      PROVE  m - 1 \in 1..Len(wire') /\ IsRelease(wire'[m - 1], b)
  BY <1>0, <1>2
<1>3. PressesEnd'
  <2> SUFFICES ASSUME NEW b \in Binding, NEW n \in 1..Len(wire'), IsPress(wire'[n], b),
                      b \notin down
               PROVE  \E m \in 1..Len(wire') : m > n /\ IsRelease(wire'[m], b)
    BY DEF PressesEnd
  <2>1. n + 1 \in 1..Len(wire) /\ wire'[n] = wire[n + 1]
    BY <1>0
  <2>2. PICK m \in 1..Len(wire) : m > n + 1 /\ IsRelease(wire[m], b)
    BY <2>1 DEF PressesEnd
  <2>3. m - 1 \in 1..Len(wire') /\ IsRelease(wire'[m - 1], b) /\ m - 1 > n
    BY <1>2, <2>2
  <2> QED BY <2>3
<1>4. HeldEnds'
  <2> SUFFICES ASSUME NEW b \in held', b \notin down
               PROVE  \E m \in 1..Len(wire') : IsRelease(wire'[m], b)
    BY DEF HeldEnds
  <2>1. PICK m \in 1..Len(wire) : m > 1 /\ IsRelease(wire[m], b)
    <3>1. CASE IsPress(wire[1], b)
      <4>1. 1 \in 1..Len(wire) /\ b \in Binding
        BY <1>0
      <4> QED BY <3>1, <4>1 DEF PressesEnd
    <3>2. CASE b \in held /\ ~IsRelease(wire[1], b)
      <4>1. PICK m \in 1..Len(wire) : IsRelease(wire[m], b)
        BY <3>2 DEF HeldEnds
      <4>2. m > 1
        BY <3>2, <4>1
      <4> QED BY <4>1, <4>2
    <3> QED BY <3>1, <3>2
  <2> QED BY <1>2, <2>1
<1>5. ClockIsBehind'
  <2> SUFFICES ASSUME NEW b \in held'
               PROVE  press_age'[b] <= down_age[b] + IF b \in down THEN 0 ELSE late'
    BY DEF ClockIsBehind
  <2>1. /\ b \in Binding /\ down_age[b] \in Nat /\ late \in Nat /\ late' \in Nat
        /\ press_age'[b] \in Nat
    BY <1>1 DEF Typed
  <2>2. b \in down \/ late' = late
    \* The wire is not empty after it, since the release is still to come.
    BY <1>0, <1>4 DEF HeldEnds
  <2>3. CASE press_age'[b] = 0
    BY <2>1, <2>3
  <2>4. CASE b \in held /\ press_age'[b] = press_age[b]
    <3>1. press_age[b] <= down_age[b] + IF b \in down THEN 0 ELSE late
      BY <2>4 DEF ClockIsBehind
    <3> QED BY <2>1, <2>2, <2>4, <3>1
  <2> QED BY <2>3, <2>4
<1> QED BY <1>1, <1>3, <1>4, <1>5

\* A press starts anew, with no action; or acts at once and is not held.
LEMMA PressedActs ==
  ASSUME IInv, NEW k \in Binding, xkb_binding_handle_pressed(k)
  PROVE  /\ held' \subseteq Binding /\ press_age' \in [Binding -> Nat]
         /\ acts' \in [Binding -> Nat] /\ ActsOnce'
         /\ \A b \in held' : \/ b \in held /\ b # k /\ press_age'[b] = press_age[b]
                             \/ b = k /\ press_age'[b] = 0
<1> USE DEF xkb_binding_handle_pressed
<1>1. CASE hold_action[k] # "NONE"
  <2>1. /\ held' = held \cup {k} /\ hold_fired' = hold_fired \ {k}
        /\ press_age' = [press_age EXCEPT ![k] = 0]
        /\ acts' = [acts EXCEPT ![k] = 0]
    BY <1>1
  <2>2. /\ held' \subseteq Binding /\ press_age' \in [Binding -> Nat]
        /\ acts' \in [Binding -> Nat]
    BY <2>1 DEF IInv, Typed
  <2>3. ActsOnce'
    BY <1>1, <2>1 DEF IInv, Typed, ActsOnce
  <2>4. \A b \in held' : \/ b \in held /\ b # k /\ press_age'[b] = press_age[b]
                         \/ b = k /\ press_age'[b] = 0
    BY <2>1 DEF IInv, Typed
  <2> QED BY <2>2, <2>3, <2>4
<1>2. CASE hold_action[k] = "NONE"
  <2>1. /\ UNCHANGED <<held, hold_fired, press_age>>
        /\ acts' = [acts EXCEPT ![k] = 1]
    BY <1>2
  <2>2. /\ held' \subseteq Binding /\ press_age' \in [Binding -> Nat]
        /\ acts' \in [Binding -> Nat]
    BY <2>1 DEF IInv, Typed
  <2>3. k \notin held
    BY <1>2 DEF IInv, ActsOnce
  <2>4. ActsOnce'
    BY <2>1, <2>3 DEF IInv, Typed, ActsOnce
  <2> QED BY <2>1, <2>2, <2>3, <2>4
<1> QED BY <1>1, <1>2

\* A release acts if the hold has not, and then nothing is held.
LEMMA ReleasedActs ==
  ASSUME IInv, NEW k \in Binding, xkb_binding_handle_released(k)
  PROVE  /\ held' = held \ {k} /\ press_age' = press_age
         /\ acts' \in [Binding -> Nat] /\ ActsOnce'
<1>1. held' = held \ {k} /\ UNCHANGED <<hold_fired, press_age>>
  BY DEF xkb_binding_handle_released
<1>2. CASE k \in held \ hold_fired
  <2>1. acts' = [acts EXCEPT ![k] = @ + 1]
    BY <1>2 DEF xkb_binding_handle_released
  <2>2. acts[k] = 0
    BY <1>2 DEF IInv, ActsOnce
  <2> QED BY <1>1, <2>1, <2>2 DEF IInv, Typed, ActsOnce
<1>3. CASE k \notin held \ hold_fired
  <2>1. acts' = acts
    BY <1>3 DEF xkb_binding_handle_released
  <2> QED BY <1>1, <2>1 DEF IInv, Typed, ActsOnce
<1> QED BY <1>2, <1>3

LEMMA DispatchStep == ASSUME IInv, Dispatch PROVE IInv'
<1> USE DEF IInv
<1>1. /\ wire # <<>> /\ wire' = Tail(wire) /\ UNCHANGED <<down, down_age>>
      /\ late' = late \/ (late' = 0 /\ Len(wire) = 1)
  BY DEF Dispatch
<1>2. Head(wire) = wire[1] /\ wire[1] \in Event
  BY <1>1, Handled DEF Typed
<1>3. CASE Head(wire).type = "pressed" /\ xkb_binding_handle_pressed(Head(wire).key)
  <2>1. PICK k \in Binding : IsPress(wire[1], k) /\ xkb_binding_handle_pressed(k)
    BY <1>2, <1>3 DEF Event, IsPress
  <2>2. \A b \in held' : \/ b \in held /\ press_age'[b] = press_age[b] /\ ~IsRelease(wire[1], b)
                         \/ IsPress(wire[1], b) /\ press_age'[b] = 0
    BY <2>1, PressedActs DEF IsPress, IsRelease
  <2> QED BY <1>1, <2>1, <2>2, PressedActs, HandledKeeps
<1>4. CASE Head(wire).type = "released" /\ xkb_binding_handle_released(Head(wire).key)
  <2>1. PICK k \in Binding : IsRelease(wire[1], k) /\ xkb_binding_handle_released(k)
    BY <1>2, <1>4 DEF Event, IsRelease
  <2>2. /\ held' = held \ {k} /\ press_age' = press_age
        /\ acts' \in [Binding -> Nat] /\ ActsOnce'
    BY <2>1, ReleasedActs
  <2>3. held' \subseteq Binding /\ press_age' \in [Binding -> Nat]
    BY <2>2 DEF Typed
  <2>4. \A b \in held' : b \in held /\ press_age'[b] = press_age[b] /\ ~IsRelease(wire[1], b)
    BY <2>1, <2>2 DEF IsRelease
  <2> QED BY <1>1, <2>2, <2>3, <2>4, HandledKeeps
<1>5. CASE Head(wire).type \in {"manage_start", "render"} /\ UNCHANGED <<held, press_age>>
           /\ ActsOnce' /\ acts' \in [Binding -> Nat]
  <2>1. held' \subseteq Binding /\ press_age' \in [Binding -> Nat]
    BY <1>5 DEF Typed
  <2>2. \A b \in held' : b \in held /\ press_age'[b] = press_age[b] /\ ~IsRelease(wire[1], b)
    BY <1>2, <1>5 DEF IsRelease
  <2> QED BY <1>1, <1>5, <2>1, <2>2, HandledKeeps
<1>6. CASE Head(wire).type = "manage_start" /\ manage_start
  BY <1>5, <1>6, TimersFire DEF manage_start
<1>7. CASE Head(wire).type = "render" /\ UNCHANGED <<held, hold_fired, press_age, acts>>
  BY <1>5, <1>7 DEF Typed, ActsOnce
<1> QED BY <1>3, <1>4, <1>6, <1>7 DEF Dispatch

\* Types, actions, wire and clocks, in every reachable state.
THEOREM Invariance == Spec => []IInv
<1>1. ASSUME IInv, [Next]_vars PROVE IInv'
  <2>1. CASE UNCHANGED vars
    <3>1. Typed' /\ ActsOnce' /\ PressesEnd' /\ HeldEnds' /\ ClockIsBehind'
      BY <1>1, <2>1 DEF vars, IInv, Typed, ActsOnce, PressesEnd, HeldEnds, ClockIsBehind
    <3> QED BY <3>1 DEF IInv
  <2> QED BY <1>1, <2>1, KeyDownStep, KeyUpStep, ServerSendsStep, DispatchStep, TimeoutStep,
             TickStep DEF Next
<1> QED BY InitInv, <1>1, PTL DEF Spec

\* No press of a key leads to two actions.
THEOREM ActsAtMostOnce == Spec => []OneActionPerPress
<1>1. IInv => OneActionPerPress
  BY DEF IInv, ActsOnce, OneActionPerPress
<1> QED BY Invariance, <1>1, PTL

\* A hold that fires has a clock at the threshold, and the key's own is behind it
\* by no more than the program is late.
THEOREM HoldsAreLong == Spec => HoldWasHeld
<1> DEFINE LongEnough ==
      \A b \in Binding :
        acts'[b] > acts[b] /\ b \in hold_fired' \ hold_fired =>
          down_age[b] >= HOLD_THRESHOLD_MS - MaxLag
<1>1. ASSUME IInv, Next PROVE LongEnough
  <2> SUFFICES ASSUME NEW b \in Binding, b \in hold_fired' \ hold_fired
               PROVE  down_age[b] >= HOLD_THRESHOLD_MS - MaxLag
    OBVIOUS
  <2>1. hold_fired' = hold_fired \cup Due
    BY <1>1 DEF Next, KeyDown, KeyUp, ServerSends, Dispatch, Timeout, Tick, manage_start,
                process_hold_timers, xkb_binding_handle_pressed, xkb_binding_handle_released
  <2>2. b \in held /\ press_age[b] >= HOLD_THRESHOLD_MS
    BY <2>1 DEF Due
  <2>3. /\ press_age[b] \in Nat /\ down_age[b] \in Nat /\ late \in 0..MaxLag
        /\ press_age[b] <= down_age[b] + IF b \in down THEN 0 ELSE late
    BY <1>1, <2>2 DEF IInv, Typed, ClockIsBehind
  <2> QED BY <2>2, <2>3
<1>2. IInv /\ [Next]_vars => [LongEnough]_vars
  BY <1>1
<1> QED BY Invariance, <1>2, PTL DEF Spec, HoldWasHeld

=============================================================================
