# MainDeck in TLA+

A verification development of MainDeck, a window management for the river
compositor: a window manager that shows two cards of a deck (`maindeck-wm`), a
bar (`maindeck-bar`) and a start menu (`maindeck-menu`), three C programs that
talk Wayland to the compositor, D-Bus to the tray, and small datagrams to each
other.  The modules translate the C source; `PROJECT.json` names the lines of
every definition.

## The system

Each program is one thread around a poll loop.  Nothing is shared in memory;
what makes the programs hard to get right is the order in which events of
several senders are handled, how work is put off from a handler to a later one,
and what is lost on the way.

| part | state it keeps | operations | hard about it |
|---|---|---|---|
| wm: list and layout (`wm-layout.c`, `types.h`) | ordered list of windows, ALVO (`target_index`), maximised | toggle, swap, rotate, send to bottom, promote, activate, insert | every operation unlinks and relinks with early returns; positions are counted among different subsets of the list |
| wm: handlers (`wm-handlers.c`) | per window: parent, floating, minimised, fullscreen, size; layout signature; focus | events of the compositor between manage sequences, the manage sequence | work is left in slots for the next sequence; layout and focus are recomputed only when a signature changed |
| wm: input (`wm-input.c`) | pressed bindings, hold timers, the pending action, pid of the menu | tap, hold, double tap, click, closing the menu | clocks are read when an event is handled; a release races with the timer |
| wm: loop and IPC (`wm-ipc.c`) | sockets, poll timeout | `activate` from the bar | not an event of the compositor: somebody has to ask for a manage sequence |
| bar: game mode (`bar-main.c`, `bar-surface.c`, `bar-game-mode.c`) | suppression flags, layer surface, redraw | datagrams on/off, toplevel states, configure | two sources tell of fullscreen, in any order, one of them loses messages |
| bar: taskbar (`bar-taskbar.c`) | entries, ext handles, the set of live windows | announce, pair, close, reap | pairing by position; reaping by a set that is cut, lost and stamped when read |
| bar: tray (`bar-tray.c`) | items, the open menu, popups | register, lose, click, answer, activate | answers come late; indices shift |
| wm: outputs and drawing (`wm-handlers.c`, `wm-layout.c`) | what was applied: fullscreen, visible, node placed last, presentation; signature drawn last | outputs come, change and go; the fullscreen edge; the render sequence | requests are only sent where something changed since the last one: memory and server must agree |
| bar: frame (`bar-render.c`, `bar-surface.c`, `bar-input.c`) | two buffers, dirty flags, section boxes, hit areas, hover | layout, paint, damage, resize, click, hover | only dirty sections are damaged; clicks and hover use the frame before |
| bar: singleton (`bar-main.c`) | lock file with a pid | lock, tell, wait, give up | locking and naming are two steps |
| menu: instance (`maindeck-menu.c`) | socket name, letters | bind, tell, take over, close | check and act on a name that others use |
| menu: applications (`maindeck-menu.c`) | list, cache file | stat, load, scan, write | the directories change meanwhile; seconds |
| menu: view (`maindeck-menu.c`) | query, filtered list, selection, scroll, two buffers | keys, pointer, configure, release, render | a search letter by letter, selection and scroll in a list that changes; both buffers may be away; mappings change |

How they interact: the bar sends `activate <identifier>` to the window manager;
the window manager sends `fullscreen_on`, `fullscreen_off` and the set of live
windows to the bar, never waiting; a menu that is started while another is up
sends it a letter and exits; the window manager starts the menu, sends it the
letter that closes it, or SIGTERM.

## Modules

| module | lines of code it models | what it is |
|---|---|---|
| `WlList`, `WlListProofs` | `wl_list` (libwayland, external) | lists without repetition as sequences: unlink, link after; what that does to ranges, lengths and injectivity, and the least-number principle, proved |
| `MainDeck`, `MainDeckProofs` | `wm-layout.c`, `wm-handlers.c`, `wm-input.c`, `wm-ipc.c`, `types.h` | the window manager, with the parents it guesses |
| `Deck`, `DeckRefinement` (proved in `MainDeckProofs`) | `README.md`, `STATUS.md` (what is promised); `MainDeck` | the abstract deck of cards, and the mapping under which `MainDeck` implements it |
| `Screen` (proved in `MainDeckProofs`) | `wm-handlers.c` 98-162, 641-731, 818-861, the drawing of `wm-layout.c` | `MainDeck` with its outputs and its render sequence, against what the server then shows |
| `KeyInput`, `KeyInputProofs` | `wm-input.c` 69-225, `wm-ipc.c` 163-211 | tap, hold, double tap and the poll timeout |
| `BarSingleton` | `bar-main.c` 188-308 | one bar at a time, a step for each system call |
| `BarGameMode`, `BarGameModeProofs` | `bar-main.c`, `bar-surface.c`, `bar-taskbar.c`, `bar-state.h` | the bar giving way to a game |
| `BarTaskbar`, `BarTaskbarProofs` | `bar-taskbar.c` | entries, pairing, ghosts |
| `BarFrame` | `bar-render.c`, `bar-surface.c`, `bar-input.c` | what is drawn, damaged, hovered and clicked |
| `TrayMenu`, `TrayMenuProofs` | `bar-tray.c`, `bar-input.c` | items and their menu |
| `Launcher` | `maindeck-menu.c`, `wm-input.c` 31-64, `bar-quicklaunch.c` | one menu at a time |
| `AppsCache` | `maindeck-menu.c` 338-716 | the list of applications |
| `StartProofs` | | what is proved of `BarSingleton`, `Launcher` and `AppsCache`: the three ways a program starts; it extends all three, so the specifications of the first two are called `BarSpec` and `MenuSpec` |
| `FuzzyMatch` | `maindeck-menu.c` | which applications a query finds, and in which order |
| `MenuView`, `MenuViewProofs` | `maindeck-menu.c` 800-1117, 1293-1616 | what the menu shows; extends `FuzzyMatch` |

Every `MC` module holds the model values of the module it extends; every
property has its definition at the end of its module, with the code behaviour it
is about.  A definition whose comment starts with "Slip" is not part of a
specification: it is the definition after it with a plausible mistake, and shows
that a property notices.

### MainDeck

`wm` is the `struct WindowManager` of the code as a record, with the fields of
its one seat; addresses of windows are members of `Window`.  A C function that
updates the struct is an operator from records to records with the name it has
in C, so a handler that calls three of them is their composition.  Actions are
the handlers: one for each event of the compositor (`wm_handle_window`,
`window_handle_closed`, ...), `ipc_handle_message` for a datagram of the bar,
`seat_action` and the hold timers for keys, and `wm_handle_manage_start`, which
applies in the order of the code: floats by rule and hint, destruction of closed
windows, the taskbar activation, the key action, the clicked window, layout,
signature, focus.  `manage_dirty` says that a manage sequence was asked for.
Several keys may have been held long enough when the timers are looked at: they all fire,
in the order of their bindings (`process_hold_timers`).
`MaxBatch` bounds the events between two sequences, `MaxDepth` is the 32 of the
code's walks up a parent chain; a dialog is placed over the window one link before that
(`root_window`).  The server only sends events that it can send:
a window is closed once, a minimised window is not clicked.  `implicit_parent`
holds the windows whose parent was guessed from application and title
(`maybe_apply_implicit_parenting`); `Titles` says which titles a window can take.

### Deck, DeckRefinement

`Deck` has what the documents promise and no list in which cards, icons and
dialogs share positions: a sequence of cards, a set of icons, a target that is MAIN
or DECK, a zoom.  `DeckRefinement` maps `wm` to it, the cards being the visible
cards of the list; `ImplementsDeck` is `Deck`'s specification under that mapping.
It holds without dialogs and floats, for which `Deck` has no place.

### Screen

`screen` is what the code remembers of its requests, `server` what
river-window-management-v1.xml makes of them, `phase` where the server is between
two sequences.  The order of events is that of the protocol: windows, seats and
outputs before `manage_start`, dimensions before `render_start`.  A position is
the box a window has and the output's area, not pixels.  Every action is one of
`MainDeck`'s, with what it does to these; `server.stack` puts a new node at either
end, of which the protocol says nothing.

### KeyInput

Time passes in ticks.  Clocks of the code are ages that stop at the largest
value anything compares them with.  `wire` holds the key events the server has
sent and the program has not read; `late` is how long there has been something to
do, and `MaxLag` bounds it: that is what the guarantee of `HoldWasHeld` depends on, and it
says by how much.

### BarGameMode, BarTaskbar, TrayMenu

The bar is a record in `BarGameMode` and every turn of its loop ends with the
drawing.  `Lossy` chooses whether a full socket loses a datagram, as it does in
the code; the runs with `Lossy = FALSE` show that without loss the two sources
agree in the end, the configs with `TRUE` that the code depends on that.
`BarTaskbar` follows windows through `unborn`, `alive` and leaked handles;
`owed` says that the window manager has a set to publish.  Its `stream` holds the
announcements of the compositor that the bar has not read: a window and the events that
are left of its announcement, so that datagrams and the minute tick come between any two of
them.  `TrayMenu` counts
GetLayout calls under way per service, and popups, to see what late answers do.  Its
items are a list without repetition, taken from with `WlList`'s `Without`.

### BarFrame

Every frame is painted whole, into one of two buffers in turn, and the sections
that are dirty or have moved are damaged.  Horizontal positions are the pixels of
the source, the screen is looked at in the columns of `Column`: one in the middle
of each button, and one where buttons give way to one another.  `Place` is where
`mmap` may put a mapping.  `screen` is what the compositor shows: elsewhere than in
the damage it keeps what it had.  Any events may share a turn of the loop, up to
`MaxBatch`, whichever descriptor they come from.

### BarSingleton

A step for each system call; `together` and `late` remember whether a bar was
started while another was starting, and whether one that was told to end took longer than
all attempts: what the lock cannot promise then, `OneBar` does not claim.

### Launcher

Processes with a program counter, one step for each system call that others can
come between.  A letter in a socket is gone when the socket is closed or its
process is killed.  `Alone` is an assumption about users and timers, not of the code:
keys, clicks and timers come when the last one is done with.  `launcher` needs it;
without it, `OneMenu`, `MenuReachable` and `ToldMenuIsUp` do not hold (see below), and
with it `ToldMenuIsUp` says no more than the guard of `Tell`: no run has it.

### AppsCache, MenuView

`AppsCache` keeps in `seen` what each directory has held since a menu read its
modification time, which is what its list is compared with.  Directories change, come
and go at any time, as often as they may in one second: the code compares `st_mtime` in
whole seconds (`maindeck-menu.c:479, 556`), and -1 for a directory that is missing, so a directory
can hold something else under the time that was noted for it, by a menu or in the cache.
`reused` remembers the directories and times of which that is true.  `ListIsFresh` and
`CacheIsTrue` promise nothing of those directories and everything of the others, in the
same list too; without the exemption (`ListIsAlwaysFresh`, `CacheIsAlwaysTrue`) they are
violated, see below.  An application is its id, a directory the set of ids in it.  `MenuView` numbers the mappings of the shared
memory, and notes for each buffer which mapping its cairo surface draws into.
Names, commands and queries are sequences of a few letters.  `filtered` is the list
`filter_apps` makes for each query; `FuzzyMatch` finds letters one after the other as
`fuzzy_match` does (`Matching`, a recursive function over the places of the text) and
ranks as `compare_apps_fuzzy` does, and `ListIsFiltered`
compares with a definition that knows neither: `IsSubsequence`.
Input reaches a menu that is on screen only; no handler looks at `running`, so
neither does the model.

## Runs

All constants are in the `.cfg` named; five seconds to three minutes each with two workers.

| run | config | properties | what they say | bounds |
|---|---|---|---|---|
| `cards` | `MCMainDeckCards` | `TargetIsShown`, `ActivationLands`, `ListIsSound`, `ImplementsDeck` | the list implements the abstract deck (so DECK_NEXT visits every card and DECK_PREV takes it back), target on screen, a taskbar click lands, no window lost or linked twice | 4 interchangeable cards, each may be minimised, all ten key actions, 2 events per sequence and every hold that is due in it: 4 cards are MAIN, DECK and two hidden, the least for a rotation |
| `windows` | `MCMainDeckWindows` | `TypeOK`, `NoDangling`, `FocusFollowsTarget`, `NoLostWakeup`, `BarHiddenOnlyForFullscreen` | no pointer outlives its window, focus follows the target, no work without a manage sequence to do it, the bar hides only for a fullscreen window | a card, a card with the title of an implicit parent, and a game that minimises, floats for its size hint, gains and loses parents and may become the implicit child; no keys: targets change by clicks and the taskbar; 2 events per sequence; one child at a time, chains of children being in the proofs of all five |
| `screen` | `MCScreen` | `LayoutIsShown`, `StackMatches`, `FullscreenMatches`, `ActivationTaken`, `ClosedWindowGoes` | what the server shows is the layout: visibility, place, stack and fullscreen, although unchanged drawings are skipped; a taskbar click is taken up, a closed window is destroyed | a card that may be fullscreen or minimised, one that may be a dialog or float for its size hint, an output that comes and gets its area; 1 event per sequence |
| `keys` | `MCKeyInput` | `OneActionPerPress`, `HoldWasHeld`, `HoldFires` | one action for a press; holds within the lag; a hold fires | three bindings (two with tap and hold, one with tap only), one event on the wire, hold after 2 ticks, a lag of 1 |
| `game_mode` | `MCBarGameMode` | `BarBackAfterGame` | with nothing under way, the bar is on screen unless a window is fullscreen | two windows, one a child, 3 datagrams |
| `taskbar` | `MCBarTaskbar` | `PairedRight`, `LiveEntriesStay`, `GhostsGo` | pairing is right, live entries stay, ghosts go | two windows and a ghost, 2 datagrams |
| `frame` | `MCBarFrame` | `ShownIsDrawn`, `ClickHitsShown` | all of the screen is what the bar would paint now; a click hits what is seen | two windows, one a dialog at times, one tray item, a clock whose width changes, two launchers, five columns, 2 events per turn |
| `tray` | `MCTrayMenu` | `TrayShowsServices`, `OnePopup`, `MenuOpensOnItsItem` | tray shows the services there are, one popup, the menu is its item's | three services, two calls each |
| `launcher` | `MCLauncher` | `OneMenu`, `MenuReachable`, `StartOpens`, `StartCloses` | one menu, reachable; a start over any name that was left behind opens one, a start over a menu closes it | four processes, deaths included |
| `menu_view` | `MCMenuView` | `FrameIsCurrent`, `ListIsFiltered`, `SelectionIsDrawn`, `DrawsIntoMapping`, `DirtyIsDrawn` | the list is what the query finds, selection in sight, frame up to date, buffers | three applications over two letters, queries of up to two, two rows, two mappings |
| `apps_cache` | `MCAppsCache` | `ListIsFresh`, `CacheIsTrue` | the list is what the directories held; the cache is true; but for directories that came again to a time that was noted | two interchangeable menus over the same two directories, one application, two seconds, at most one directory with a time that is reused (`FewReused`) |
| `bar_singleton` | `MCBarSingleton` | `OneBar`, `HolderIsNamed`, `StartRuns` | one bar, named and holding the lock; a start always ends | three bars, three attempts (40 in the code; the proof is for any number) |

Why the bounds are enough, where it is not plain: `keys` has one event
on the wire so that `HoldFires` can be checked with three bindings; the other
two properties are proved for any number.
`screen` has one event per sequence and two windows, for the properties that say "in
the end"; every event can fall in each phase.  With the invariants alone
`MCScreenThree` (three windows, one of them hidden behind the DECK card) and
`MCScreenIconic` (two events per sequence) pass too.  `frame` needs a
section on either side of one that changes its width, which the clock does for the
tray and the taskbar; `MCBarFrameResize` passes with two widths.
`apps_cache` needs two seconds because a second is the grain of the times it
compares: one to write in, one to be later than; any number of changes fit in
each.  Menus that look in different directories are covered by the proof.  In `taskbar` a set of windows
that is under way while another is read is the least for an old one to arrive
last.  `launcher` needs a menu, one that replaces it, one that closes that and
one that finds the name orphaned.

Deadlock is turned off in the `MCLauncher` and `MCMenuView` configs only, where
the bounded resources (processes started once, mappings) end: a behaviour that
has used them up is over.

`TypeOK` is checked in `windows`, where it is proved too.  That of the other
modules documents their state; a config takes it as one more INVARIANT.

### Where the code does not do what it says

The instances below are not in the list of runs.  TLC finds the property named
violated under the constants of the config named, with those changed that are
given, and the property in the place of the config's own.  Where a passing run
excludes the case by a constant or a premise, it is named last: those runs say
that nothing else breaks the property.

| property | config | what happens | excluded by |
|---|---|---|---|
| `TargetIsShown` | `MCMainDeckOrphan` | `README.md:12`: "`ALVO` is always `MAIN` or the visible DECK card".  `target_window` bounds `target_index` by the visible cards and looks it up among all of them: it lands on a minimised window when a dialog, or a minimised dialog whose parent is cleared, becomes a card in front | no dialog in `cards` |
| `DeckNextRotates` | `MCMainDeckNextFloat` | a float at the head of the list makes DECK_NEXT take the DECK card to MAIN | no float in `cards` |
| `NewWindowKeepsDeck` | `MCMainDeckInsert` | a new window hides the visible DECK card; STATUS.md says it stays | |
| `Rooted` | `MCMainDeckWindows`, `Key = {"SWAP_MAIN_DECK"}`, `Capped = {}`, `Dialog = {w1}` | a guessed parent, unknown to the server, and one the server announces make a circle; the walks up the chain end at 32 links, the windows of the circle are never shown | |
| `HiddenIsHidden` | `MCScreenIconic` | a dialog of a hidden card that was never shown gets no hide request: `applied_visible` starts FALSE and the server shows new windows | |
| `FloatsCentred` | `MCScreenIconic`, `Capped = {w2}` | a floating window is centred for the size it had at the last drawing | floats in `LayoutIsShown` |
| `LayoutIsShown` | `MCScreenIconic`, `Key = {"SWAP_MAIN_DECK"}` | a held key or a datagram between `manage_finish` and `render_start` changes the windows under the signature the manage sequence left: the drawing is skipped | no hold binding in `screen`; `Undisturbed` in the proof |
| `LayoutIsShown` | `MCScreen`, `Size = {1, 2}`, `MaxBatch = 2`, `Key`, `Iconic`, `Game` and `Capped` empty | a dialog that takes another size between `manage_finish` and `render_start`, and has its old one back at the next, is left centred for the other: the signature is that of the manage sequence, and the same as the one drawn last | one size in `screen`; `NewSizes` in the proof |
| `FullscreenMatches` | `MCScreen`, `MaxBatch = 4`, `Game = {w2}`, `Key`, `Iconic`, `Capped` and `Async` empty | a fullscreen window that became a dialog is destroyed as soon as it is closed; a new window gets its address and asks for fullscreen in the same batch: the signature, made of addresses, is the same, and the request is never sent | one event in `screen`; `NewAddresses` in the proof |
| `FullscreenMatches`, `FullscreenOnLiveOutput` | `MCScreenRemoved` | the output of a fullscreen window is removed: `applied_fullscreen` and `fs_output` stay, and it is never fullscreen again | `Removable = {}`; `UsedOutputsStay` in the proof |
| `AsyncOnlyUnderFullscreen` | `MCScreenRemoved`, `Removable = {}` | a second request moves `fs_output` to the other output and not the window, and that output is presented without vsync | one output |
| `DoubleTapCycles` | `MCKeyInputDoubleTap` | `README.md:66`: the documented double tap of Super+Tab is unreachable, because Tab has a hold action | |
| `OneBarAtOnce` | `MCBarSingleton` | bars started together: the second finds the lock taken and no pid yet | `together` in `OneBar` |
| `PaintsIntoMapping` | `MCBarFrame`, `Place = {0, 1}` | after a game the surface comes back at the same size: `bar-render.c:55` keeps the cairo surfaces over memory that was unmapped | `Place` has one element |
| `HoverFollows` | `MCBarFrame` | the highlight compares numbers of hit areas of two frames (`bar-input.c:130`): after an item has appeared it does not move | |
| `ClickAlwaysHitsShown` | `MCBarFrame` | an entry goes in the turn of the click: the hit area's index is another window's (`bar-input.c:185`) | `Fresh` in `ClickHitsShown` |
| `ShownIsDrawn`, `ClickHitsShown` | `MCBarFrameFull` | with more buttons than fit at 32 pixels, the taskbar is painted over the tray and outside its section, which damage does not know; a click goes to the button below | `Width` in `frame` |
| `BarBackAfterGame` | `MCBarGameMode`, `Lossy = TRUE` | a lost `fullscreen_off` is not sent again: the bar stays away | `Lossy = FALSE` |
| `BarAwayDuringGame` | `MCBarGameMode` | a late `fullscreen_off` brings the bar back over another game | |
| `PairedRight` | `MCBarTaskbar`, `BAR_MAX_TOPLEVELS = 1` | at the limit the zwlr handle of a new window is turned away, a ghost is reaped from both arrays, and then its ext handle finds room: the next window's entry gets its identifier | `BAR_MAX_TOPLEVELS`; `Room` in the proof |
| `LiveEntriesStay` | `MCBarTaskbar`, `Lossy = TRUE` | an old set of windows is stamped with the time it is read at, and reaps a live window | `Lossy = FALSE` |
| `LiveEntriesStay` | `MCBarTaskbar`, `Window = {w1, w2, w3}`, `Leaked = {}`, `BAR_MAX_TOPLEVELS = 2` | a set cut at the limit reaps live windows | `BAR_MAX_TOPLEVELS` |
| `OnePopup` | `MCTrayMenu`, `Patient = FALSE` | two answers open two popups, one is never destroyed | `Patient` |
| `ClickGoesToOwner` | `MCTrayMenu` | a click on a row goes to the item that moved into the index | |
| `MenuOpensOnBar` | `MCTrayMenu` | a menu opens on a bar without surface | |
| `OneMenu`, `MenuReachable` | `MCLauncher`, `Alone = FALSE` | two starts over an orphaned name: two menus, and the first has lost its name to the second | `Alone` |
| `ToldMenuIsUp` | `MCLauncher`, `Alone = FALSE` | the letter reaches a menu that is already closing: no menu | no run |
| `KillHitsMenu` | `MCLauncher` | SIGTERM goes to the number of a menu that has ended | |
| `ListIsAlwaysFresh`, `CacheIsAlwaysTrue` | `MCAppsCache` | a directory changes again in the second that was read, after it was scanned, or is made and removed around the scan: its time, in whole seconds or -1, is the one in the cache (`maindeck-menu.c:479, 556`), and menus take a list that was never right in their lifetime, as long as the time stands | `reused` in `ListIsFresh` and `CacheIsTrue` |
| `DirtyIsDrawn` | `MCMenuView`, `Calm = FALSE`, `MaxMaps = 3` | a resize with both buffers away: the menu never draws again | `Calm` |
| `DrawsIntoMapping` | `MCMenuView`, `Calm = FALSE`, `MaxMaps = 3` | two resizes back to the old size: drawing into unmapped memory | `Calm` |

Passing configs beside the runs: `MCMainDeckFair` (taskbar clicks and closings with
windows that float by rule, by size hint and by disobedience), `MCBarGameModeFair`
(one window: the bar is back in the end after a game, and no redraw is lost while
its surface is away), `MCScreenThree`, `MCScreenIconic`, `MCBarFrameResize`.

Two things the models show that are no error here: `bar-surface.c:474` never looks
at `wl_buffer.release` and takes the buffers in turn, which is right only as long
as the compositor has given back the one before the last; and `fuzzy_match`
compares bytes, so an upper-case letter outside ASCII is not found by its
lower-case one.

## Fairness

- `MainDeck`, `Screen`: the compositor does not leave a manage sequence owing for
  ever (`ServesOwedSequences`).  The protocol promises a sequence after
  `manage_dirty`; nothing is assumed of keys, clients or the bar.
- `KeyInput`: the loop dispatches what it has, the timer and time go on, and the
  wire is empty again and again.
- `BarTaskbar`: the loop reads its sockets, the window manager publishes a set it
  owes, minutes pass: each weakly fair, since nothing disables them but being done.
- `BarGameMode` (`MCBarGameModeFair`): the compositor tells of each state and
  closing, sequences keep coming, the loop reads its socket.  Strong where other
  events can disable a step for a while; nothing on what clients or users decide.
- `BarSingleton`: a bar that starts is not stopped; nobody has to end, least of
  all the one that hangs.
- `Launcher`: a process that runs goes on; no process has to
  end, and no user has to do anything.
- `MenuView`: the loop draws, and the compositor gives back a buffer that has been
  replaced.  It may keep the last one for ever.

## Proofs

Every theorem is proved for every value of the constants that its module's named
assumptions allow.  What a theorem supposes besides is written in it, before the
arrow.  Most of it is a choice of the constants that a run makes too: `~Lossy`, `Alone`,
`OnlyCards`, `Patient`, `Stays`, `Calm`, `Fits`.  Some theorems suppose something of the
behaviour instead: `Room` (of the taskbar, and of the tray) and `Few` that a limit of the bar
is not hit, which follows where no more can come than fit (`SafeIfAllFit`,
`ShowsServicesThatFit`); `NewAddresses` and `UsedOutputsStay` that the two
cases in which `FullscreenMatches` is violated above do not happen, and `NewSizes` and `Undisturbed`
the same of the two of `LayoutIsShown`.

| theorem | says |
|---|---|
| `MainDeckProofs` `TypeCorrect`, `NoDanglingPointers` | `Spec => []TypeOK`, `Spec => []NoDangling` |
| `ListSoundness` | `Spec => ListIsSound` |
| `FocusIsOnTarget`, `WakeupsKept`, `BarComesBack` | `[]FocusFollowsTarget`, `[]NoLostWakeup`, `[]BarHiddenOnlyForFullscreen` |
| `DeckIsImplemented` | `OnlyCards => (Spec => ImplementsDeck)` |
| `TargetOnScreen`, `ActivationSticks` | `OnlyCards => (Spec => []TargetIsShown)`, `OnlyCards => (Spec => ActivationLands)` |
| `KeyInputProofs` `ActsAtMostOnce`, `HoldsAreLong` | `Spec => []OneActionPerPress`, `Spec => HoldWasHeld` |
| `ScreenManagesWindows` | `ScreenSpec => Spec`: all of the above holds with outputs and drawing |
| `FullscreenIsApplied` | `ScreenSpec /\ [][NewAddresses /\ UsedOutputsStay]_svars => []FullscreenMatches` |
| `LayoutIsDrawn` | `ScreenSpec /\ [][NewAddresses /\ UsedOutputsStay /\ NewSizes /\ Undisturbed]_svars => []LayoutIsShown` |
| `StartProofs` `OneBarUp`, `HolderNamed` | `BarSpec => []OneBar`, `BarSpec => []HolderIsNamed` |
| `BarGameModeProofs` `BarReturnsAfterGame`, `RedrawsKept` | `~Lossy => (Spec => []BarBackAfterGame)`, `Spec => []NoRedrawLost` |
| `BarTaskbarProofs` `PairsAreRight`, `LiveEntriesAreSafe` | `Spec /\ []Room => []PairedRight`, `~Lossy => (Spec /\ []Room /\ []Few => LiveEntriesStay)` |
| `SafeIfAllFit` | both of `Spec` alone, given `Fits` |
| `OneMenuAlone`, `MenuReachableAlone` | `Alone => (MenuSpec => []OneMenu)`, `... []MenuReachable` |
| `MenuListsFreshly`, `CacheTellsTruth` | `Spec => []ListIsFresh`, `Spec => []CacheIsTrue` (of `AppsCache`): nothing is supposed of the changes, and the properties leave out the directories in `reused` |
| `TrayMenuProofs` `TypeCorrect`, `OpensWhereItsItemIs` | `Spec => []TypeOK`, `Spec => MenuOpensOnItsItem` |
| `OnePopupIfPatient` | `Patient => (Spec => []OnePopup)` |
| `ShowsServices`, `ShowsServicesThatFit` | `Stays => (Spec /\ []Room => []TrayShowsServices)`, and `Spec` alone if there are at most `TRAY_MAX` services |
| `MenuViewProofs` `ListsWhatMatches` | `Spec => []ListIsFiltered` |
| `DrawsTheSelection`, `FrameStaysCurrent` | `Spec => []SelectionIsDrawn`, `Spec => []FrameIsCurrent` |
| `DrawsIntoMappingIfCalm` | `Calm => (Spec => DrawsIntoMapping)` |

### The window manager

The assumptions are the two of `MainDeck` (`WindowAssumption`,
`BoundAssumption`) and nothing else.

`TypeOK` is not inductive: the operations index the list by positions they
computed from it, so their results are only well typed when the list holds no
window twice and every window with an attribute is in it.  `IInv` is
`Sound(wm)`: well typed, injective list, attributes and pointers within the
list, guessed parents among them (`Invariance`: `Spec => []IInv`).  The proof
goes by operation: each operator from records to records is
shown to keep `Sound`, and a relation between the record before and after (the
same windows, or one more, or only closed ones and dialogs less).  A handler is then
the composition of these lemmas, and a step lemma for each action does the rest.
The manage sequence is proved for either value of `moved`, whether the outputs
changed: `Screen`'s use of it is covered.
The lemmas about `wl_list` are in `WlListProofs`, by the theorems of sequences
and finite sets.

Focus, work that is owed and the hidden bar need one more invariant, `FInv`.  The
focus is recomputed when `focus_dirty` is set or the layout signature has
changed; in between, windows come and go, so focus and signature must be
related: while `focus_dirty` is not set, the focus is what the layout in the last
signature calls for, and whatever changed since has asked for a manage sequence
(`FocusMatches`).  That a signature is enough to tell the focus from is a lemma
about `FocusOf`: it depends on nothing that `LayoutOf` leaves out.  A handler
either owes a sequence for what it changed or changes none of it (`Handles`, one
lemma for each handler).

### The refinement

`OnlyCards` says that no window is a dialog, floats, is a game or
takes titles that would give it a parent: the constants of `cards`.  `Deck` has no
place for such windows, and `TargetIsShown` is violated with them (below
"Where the code does not do what it says").  Keys, minimising and the number of
windows and of events are left open.

No code says so, but then the list is at any time some cards followed by the
icons (`Cut`, `Dealt`), and that is the invariant.  With it, what the
code finds by counting (`visible_region_end`, `window_at`, `window_index`) is
found in the cards, and every operation on the list has a lemma that says which move of the deck it makes
(`Plays`): three ways to relink a card (`ToFront` and its like), then the
operations, then `seat_action`, the clicked window, the taskbar and the
destruction of closed windows.  One situation is neither: a window minimised after it was clicked, in the same batch.
The click makes `target_index` the index of a window that is no card, next to
the cards that are left; `Deck` says so in `Clicked`, and `clamp_target` puts it right at the end of the
sequence.  A handler is an event of the deck (`DeckEvent`), a manage sequence the
moves it was asked for, in the order of the deck (`DeckSequence`);
`TargetOnScreen` and `ActivationSticks` then follow from what the deck does.

The focus is on the window itself because `top_window` of a window without
parent is that window.  `Lineage` is a recursive function, and this is proved by
induction over the links: not with the theorems of `NaturalsInduction`, whose
operator parameter the provers do not instantiate, but by looking at
the least number of links for which it fails (`LeastNat`, from `WFMin`).

### Outputs and drawing

`ScreenManagesWindows` needs no invariant: each action of `Screen` has an action of
`MainDeck` as a conjunct, or leaves `vars` alone, and so everything above holds with outputs and drawing.

`FullscreenMatches` compares what the server has with what the window manager wants, and
the program has neither: requests are only sent where `applied_fullscreen` differs from
what is wanted, and only in a manage sequence whose signature is new.
So `SInv` goes by way of these: the server has fullscreen what is in the
memory (`MemoryIsTrue`); the memory has what the layout signed last called for
(`SignedIsApplied`), whatever has become of the windows since, and without an output to go to, nothing more
than that; and the outputs are the ones in the signature (`OutputsAreSigned`).  `NoLostWakeup`, from `FInv`,
adds that when no work is owed the layout is the one that was signed.  `SignedIsApplied` is stated of the windows that
are in the signature and still there.  A signature is made of addresses, so this is where
`NewAddresses` comes in: the first version of the proof did not have it, and TLC shows that it is needed.

`LayoutIsShown` is about a program that draws only when the signature differs from the
one drawn last, and the signature is not that of what it draws: the manage sequence computes it, and the
windows are read again at `render_start`.  `LInv`, on top of `SInv` and `FInv`, says why that
is right nevertheless.  What is to be drawn next is the layout that the manage sequence
signed, with the outputs there were (`FreshIsCurrent`); between two
manage sequences no window comes, goes or changes its role, and so what was drawn last has the
windows of the signature (`InStep`, `DrawnInStep`), and is the layout as it is unless
work is owed (`DrawnIsCurrent`).  What the server shows is what was drawn last: the
windows hidden and shown (`ShownAsDrawn`), and their places (`PlacedAsDrawn`), of dialogs as long as they
have the size that was signed (`SizesAreSigned`).  That drawing depends on
the signed fields only is `LayoutDepends`; that everything else leaves a drawing
alone is `DrawingKept`, used once for each handler.

Two hypotheses are the cases of the table above.  `NewSizes`: a
window that is shown does not take back the size that it had in the
signature drawn last.  `Undisturbed`: the layout does not change between a manage sequence and
its drawing.  This excludes more than the held key that does harm there: a
window that floats because it refused its size (`handle_dimensions`) changes the layout in the
same place, and TLC finds nothing wrong with that (`MCScreen` with `Unruly = {w2}`,
`MaxBatch = 2` and `Key` empty, the two windows otherwise free).  That it is harmless for
any windows is not proved.

### Keys

`KeyInputProofs` needs `TimeAssumption` only.  A held key whose hold has not fired
has not acted, which gives `OneActionPerPress`.  `HoldWasHeld` needs to know that the clock
of a held key, started when the press was handled, is ahead of the key by no more
than its release has waited (`ClockIsBehind`).  That is only inductive with two facts
about the wire: a press under way is of a key that is down, or is followed by its
release (`PressesEnd`), and so is one that has been handled (`HeldEnds`); hence
there is work as long as a key that is up is held, and `late` counts.

### The bar

`StartProofs`, for any number of bars and of attempts (at least one): the
invariant is either disorder, which is remembered, or `Orderly`: one bar starts, the
lock is with the bar that is up or about to be, which the file names; so a bar
that waits has told the holder, and has attempts left: `GiveUp` is not reached.

`BarGameModeProofs`, for any windows, children and queue: what the window manager
and the toplevel handles have said need never agree.  What counts is that the last
word of the window manager, read or still in the socket, is "on" only while a
window is fullscreen (`WordInv`), and that a bar that is suppressed without that word
is so for a handle that says so (`HasReason`).  A loss breaks the first, and
only that: the theorem about redraws does not suppose `~Lossy`.

`BarTaskbarProofs`, for any windows and ghosts, which may come and go for ever: the
two arrays are filled by one event each, and the identifier goes to a position.
Between two announcements both are the same list `L`, each window with its own
identifier; while one is dispatched they differ from `L` by the events that were,
and there are eight such situations (`Lock`).  Each event takes one to the next, or to a new `L`
(`DispatchPairs`, with `Sound` for what is still on its way: no window is opened
twice).  The reaper may come in any of them.  It names entries in one array and
identifiers in the other, and takes the same windows from both, because an entry
that is being made has no identifier yet or no handle (`ReapKeepsLock`; that two
removals commute is `DropTwice`).  The argument needs that no handle is turned away
(`Room`), and without it `PairedRight` does not hold.  `LiveEntriesStay` needs `NewsInv`
besides: every set under way has the live windows whose entries are old, and so
has the last one received when none is; an entry becomes old only when what is
under way is new.  A lost datagram breaks that, and so does a set that is cut (`Few`).

`TrayMenuProofs`, for any services: the list has no service twice, since the
code looks before it adds (`Types`), and so removing one moves the others by one place, which the index of
an open menu follows (`Closed`, `Taken`).  `OnePopup` is inductive with two facts about answers: no service is asked
twice at a time (`OneCall`, from `Patient`), and the item an open menu is of has no
call under way (`Answerless`), so that no answer finds its menu open; an answer that comes late, after
another item was clicked, is ignored.  For
`TrayShowsServices` the invariant says at any time what the tray shows (`Shows`): those
that have registered and those whose end is not yet known; a service is in one stage of its life (`Life`).

### The menu

In `StartProofs`, for any number of processes, killed ones included: with `Alone`
there is a turn, which a process that starts or ends has, or a letter under
way, and whoever has it is alone (`OneTurn`); names are taken away while no menu is
up (`NobodyUp`).  Without `Alone` both are violated.

There too, for any menus, directories and applications: the directories are read
one after the other, so a list may be that of no single moment.  What makes it right is
that some contents account for it, one for each directory, and that these
are tied to the modification times read before: a directory that has the time
that was read, and has not come to it again, holds what was read, and every menu that has
read the same time has seen it hold that (`Agrees`).  The cache keeps that for menus that
read it later.  That a time was noted is part of it (`AllNoted`): it is what puts the directory in
`reused` as soon as a change leaves it the same time, and with that lemma (`Later`) the
changes need no hypothesis.

`MenuViewProofs`, for any applications, names, commands and queries: `fuzzy_match` takes for
each letter the first place after the one before, and `ListIsFiltered` asks for any
places.  That the first ones do if any do is `Greedy`: after `k`
letters the place the code is at is no later than where the `k`-th letter stands in any
way of placing them (`GreedyAt`, `Placed`).  `Matching` is a recursive function of the number of letters; that
it exists and what it is at each place is proved from the shortest prefix that would be
without one.  Sorting is by rank, the number of matches that come before: the order is total
(`Order`), so ranks are `1..n` and each is taken once (`RankIs`, `FilteredIs`).  Then `Filters` is the invariant, and `Selects` adds
where the selection and the scroll may be.  `FrameIsCurrent` is inductive: every handler that changes
what is drawn sets `dirty`.  `DrawsIntoMapping` needs `CairoInv`: a surface
made for the size the menu has is over the memory that is mapped.

### What is only model-checked

- `StackMatches`, and `ShownIsDrawn` and `ClickHitsShown` of `BarFrame`: they are about
  `SelectSeq`, `FoldLeft` and sums over sections, which are recursive operators to the provers,
  of which nothing can be proved.
- The deck with dialogs and floats, where the promises do not hold as they stand.
- Everything that says "in the end" (`ActivationTaken`, `ClosedWindowGoes`,
  `HoldFires`, `GhostsGo`, `StartOpens`, `StartCloses`, `StartRuns`, `DirtyIsDrawn`), since
  the proof system has neither fairness nor ENABLED.

## Not modelled

Glyphs, gradients, icons and their cache, status texts, configuration, logging, libinput settings: they
read and write and keep nothing that a later step depends on.  Of the window
manager: sizes in pixels, borders and decorations, more than one seat, the pointer's
shape, start-up and exit.  Of the bar: the background surface, properties and icons
of tray items, the parsing of menu layouts, the start beside another tray watcher; a bar
without `XDG_RUNTIME_DIR`, or whose `flock` fails for another reason than a holder, which runs
without a lock (`bar-main.c:246-253, 293`), and the moment between `ftruncate` and `pwrite` of its
pid, in which a bar that is started meanwhile finds no pid instead of an old one (`OneBar` exempts
bars that start together).
Of the menu: reading a `.desktop` file, compose keys, icons.  Scripts, harness and
documents are not code of the system; `json.h`-like readers are third-party.

## Plan

Done: the core with its proofs; the abstract deck, the refinement and its
proof; implicit parents; outputs and the render sequence, with the proofs about
fullscreen and about what is shown; the bar's lock, game mode, taskbar and tray, the menu's instance, its list, its
search and its view, with their proofs; frames, damage and clicks; the proofs about keys.  Left:

1. Proofs: `LayoutIsShown` where a window floats before it is drawn; `StackMatches`, `ShownIsDrawn` and `ClickHitsShown`, for which
   the folds must be restated as recursive functions first.
2. `BarAndWM`: the window manager's notifications composed with `BarGameMode`
   and `BarTaskbar`, with restarts of either.
3. `Desktop`: which `.desktop` files are listed, and in which order of directories
   they hide one another.
