----------------------------- MODULE AppsCache -----------------------------
(***************************************************************************)
(* How a menu gets its list of applications (maindeck-menu.c): from the    *)
(* directories of .desktop files, or from the file apps.cache if that was  *)
(* written for the same directories with the same modification times, in   *)
(* seconds.  Menus may overlap and die, directories come, go and change    *)
(* meanwhile, and the end of the cache may be lost when it is written.     *)
(*                                                                         *)
(* A time in seconds does not tell apart what a directory held before and  *)
(* after a change in the same second, nor does the -1 of one that is       *)
(* missing.  Nothing keeps that from happening here: reused remembers the  *)
(* times that a directory took when somebody had noted them for it, and    *)
(* the properties say what then remains true.                              *)
(***************************************************************************)
EXTENDS Integers, Sequences, FiniteSets, Functions

CONSTANTS
  Menu,                \* menu processes, each started once
  App,                 \* ids of applications, the names of their .desktop files
  Dir,                 \* directories
  Dirs,                \* the directories each menu looks in, in order
  MaxSeconds           \* how long the clock runs

ASSUME AppsCacheAssumption ==
  /\ Dirs \in [Menu -> Seq(Dir)]
  /\ \A p \in Menu : IsInjective(Dirs[p])
  /\ MaxSeconds \in Nat

VARIABLES
  now,                 \* the clock, in seconds
  exists, content,     \* the directories: is it there, whose entries are in it
  changed,             \* the second of its last change
  cache,               \* apps.cache, at most one file: the directories and times it
                       \* is for, the entries that can be read from it, and
                       \* whether these are fewer than it says
  pc,                  \* where each menu is
  mtimes,              \* watch_mtimes, as far as they were read
  scanned,             \* how many directories were scanned
  list,                \* g_app.apps: ids, with the directory they come from
  seen,                \* what each directory held since a menu read its time, until
                       \* the list was made
  reused               \* directories, with the times that came to be theirs after
                       \* a change although they were noted for them before it

disk == <<exists, content, changed>>
menus == <<pc, mtimes, scanned, list>>
vars == <<now, disk, cache, menus, seen, reused>>

Loading == {"stat", "load", "scan", "write"}

\* A directory that cannot be opened counts as -1.
mtime(d) == IF exists[d] THEN changed[d] ELSE -1

\* Of several entries of one id the first directory's counts.
Listed(c, dirs) ==
  {e \in App \X Dir :
     \E i \in DOMAIN dirs : /\ dirs[i] = e[2] /\ e[1] \in c[e[2]]
                            /\ \A j \in 1..(i - 1) : e[1] \notin c[dirs[j]]}

Init ==
  /\ now = 0
  /\ exists \in [Dir -> BOOLEAN]
  /\ content = [d \in Dir |-> {}]
  /\ changed = [d \in Dir |-> 0]
  /\ cache = {}
  /\ pc = [p \in Menu |-> "idle"]
  /\ mtimes = [p \in Menu |-> <<>>]
  /\ scanned = [p \in Menu |-> 0]
  /\ list = [p \in Menu |-> {}]
  /\ seen = [p \in Menu |-> [d \in Dir |-> {}]]
  /\ reused = {}

-----------------------------------------------------------------------------
(* The directories.                                                        *)

\* A menu that makes its list has read the time t of d, or it is in the cache.
Noted(d, t) ==
  \/ \E p \in Menu : pc[p] \in Loading /\ \E i \in DOMAIN mtimes[p] :
       Dirs[p][i] = d /\ mtimes[p][i] = t
  \/ \E f \in cache : \E i \in DOMAIN f.dirs : f.dirs[i] = d /\ f.mtimes[i] = t

\* d changes, to hold what content' says.
Touched(d) ==
  /\ seen' = [p \in Menu |-> IF pc[p] \in Loading /\ seen[p][d] # {}
                             THEN [seen[p] EXCEPT ![d] = @ \cup {content'[d]}]
                             ELSE seen[p]]
  /\ reused' = IF Noted(d, mtime(d)') THEN reused \cup {<<d, mtime(d)'>>} ELSE reused
  /\ UNCHANGED <<now, cache, menus>>

\* Packages are installed and removed, and a missing directory is made, at any
\* time and as often as it may be.
Change(d) ==
  /\ exists' = [exists EXCEPT ![d] = TRUE]
  /\ \E as \in SUBSET App : content' = [content EXCEPT ![d] = as]
  /\ changed' = [changed EXCEPT ![d] = now]
  /\ Touched(d)

Delete(d) ==
  /\ exists[d]
  /\ exists' = [exists EXCEPT ![d] = FALSE]
  /\ content' = [content EXCEPT ![d] = {}]
  /\ changed' = [changed EXCEPT ![d] = 0]
  /\ Touched(d)

Tick ==
  /\ now < MaxSeconds
  /\ now' = now + 1
  /\ UNCHANGED <<disk, cache, menus, seen, reused>>

-----------------------------------------------------------------------------
(* A menu.                                                                 *)

Start(p) ==
  /\ pc[p] = "idle"
  /\ pc' = [pc EXCEPT ![p] = "stat"]
  /\ UNCHANGED <<now, disk, cache, mtimes, scanned, list, seen, reused>>

\* The modification times are read before anything else is, one by one.
build_watch_dirs(p) ==
  /\ pc[p] = "stat"
  /\ IF Len(mtimes[p]) < Len(Dirs[p])
     THEN LET d == Dirs[p][Len(mtimes[p]) + 1]
          IN  /\ mtimes' = [mtimes EXCEPT ![p] = Append(@, mtime(d))]
              /\ seen' = [seen EXCEPT ![p][d] = {content[d]}]
              /\ pc' = pc
     ELSE /\ pc' = [pc EXCEPT ![p] = "load"]
          /\ UNCHANGED <<mtimes, seen>>
  /\ UNCHANGED <<now, disk, cache, scanned, list, reused>>

\* (Slip: a file cut short is taken as far as it goes.)
try_load_cache_TakesTorn(p) ==
  /\ pc[p] = "load"
  /\ LET Valid(f) == f.dirs = Dirs[p] /\ f.mtimes = mtimes[p]
     IN  \/ /\ \E f \in cache : Valid(f) /\ list' = [list EXCEPT ![p] = f.apps]
            /\ pc' = [pc EXCEPT ![p] = "ready"]
         \/ /\ ~\E f \in cache : Valid(f)
            /\ pc' = [pc EXCEPT ![p] = "scan"]
            /\ list' = list
  /\ UNCHANGED <<now, disk, cache, mtimes, scanned, seen, reused>>

\* The file is taken if it is for the same directories and times, and complete;
\* what was read before it turned out not to be is forgotten.
try_load_cache(p) ==
  /\ pc[p] = "load"
  /\ LET Valid(f) == f.dirs = Dirs[p] /\ f.mtimes = mtimes[p] /\ ~f.torn
     IN  \/ /\ \E f \in cache : Valid(f) /\ list' = [list EXCEPT ![p] = f.apps]
            /\ pc' = [pc EXCEPT ![p] = "ready"]
         \/ /\ ~\E f \in cache : Valid(f)
            /\ pc' = [pc EXCEPT ![p] = "scan"]
            /\ list' = list
  /\ UNCHANGED <<now, disk, cache, mtimes, scanned, seen, reused>>

\* One directory after the other; an id that is in the list is not taken again.
scan_desktop_dir(p) ==
  /\ pc[p] = "scan"
  /\ IF scanned[p] < Len(Dirs[p])
     THEN LET d == Dirs[p][scanned[p] + 1]
          IN  /\ list' = [list EXCEPT ![p] =
                            @ \cup ((content[d] \ {e[1] : e \in @}) \X {d})]
              /\ scanned' = [scanned EXCEPT ![p] = @ + 1]
              /\ pc' = pc
     ELSE /\ pc' = [pc EXCEPT ![p] = "write"]
          /\ UNCHANGED <<list, scanned>>
  /\ UNCHANGED <<now, disk, cache, mtimes, seen, reused>>

\* (Slip: the times are those of when the file is written.)
write_cache_Late(p) ==
  /\ pc[p] = "write"
  /\ cache' = {[dirs |-> Dirs[p], mtimes |-> [i \in DOMAIN Dirs[p] |-> mtime(Dirs[p][i])],
                apps |-> list[p], torn |-> FALSE]}
  /\ pc' = [pc EXCEPT ![p] = "ready"]
  /\ UNCHANGED <<now, disk, mtimes, scanned, list, seen, reused>>

\* The file is written under another name and renamed; if writing fails nothing
\* is.  That fclose may fail is not looked at: then the end is missing.
write_cache(p) ==
  /\ pc[p] = "write"
  /\ \/ cache' = cache
     \/ \E as \in SUBSET list[p] :
          cache' = {[dirs |-> Dirs[p], mtimes |-> mtimes[p],
                     apps |-> as, torn |-> as # list[p]]}
  /\ pc' = [pc EXCEPT ![p] = "ready"]
  /\ UNCHANGED <<now, disk, mtimes, scanned, list, seen, reused>>

\* It ends, or it dies at any point; a file not renamed yet is lost.
End(p) ==
  /\ pc[p] \notin {"idle", "done"}
  /\ pc' = [pc EXCEPT ![p] = "done"]
  /\ mtimes' = [mtimes EXCEPT ![p] = <<>>]
  /\ scanned' = [scanned EXCEPT ![p] = 0]
  /\ list' = [list EXCEPT ![p] = {}]
  /\ seen' = [seen EXCEPT ![p] = [d \in Dir |-> {}]]
  /\ UNCHANGED <<now, disk, cache, reused>>

-----------------------------------------------------------------------------

Next ==
  \/ Tick
  \/ \E d \in Dir : Change(d) \/ Delete(d)
  \/ \E p \in Menu : \/ Start(p) \/ build_watch_dirs(p) \/ try_load_cache(p)
                     \/ scan_desktop_dir(p) \/ write_cache(p) \/ End(p)

Spec == Init /\ [][Next]_vars

-----------------------------------------------------------------------------

\* Types; and a menu only lists what is in its own directories.
TypeOK ==
  /\ now \in 0..MaxSeconds
  /\ exists \in [Dir -> BOOLEAN] /\ content \in [Dir -> SUBSET App]
  /\ changed \in [Dir -> 0..MaxSeconds]
  /\ Cardinality(cache) <= 1
  /\ \A f \in cache : /\ f.dirs \in {Dirs[p] : p \in Menu}
                      /\ DOMAIN f.mtimes = DOMAIN f.dirs
                      /\ f.apps \subseteq App \X Range(f.dirs)
  /\ pc \in [Menu -> {"idle", "ready", "done"} \cup Loading]
  /\ \A p \in Menu : /\ Len(mtimes[p]) <= Len(Dirs[p]) /\ scanned[p] <= Len(Dirs[p])
                     /\ list[p] \subseteq App \X Range(Dirs[p])
  /\ reused \subseteq Dir \X (-1..MaxSeconds)

\* A menu that is ready, whether it scanned or took the cache of another, lists
\* what its directories held at some time after it had read their times, the first
\* directory's entry of each application.  It may only be wrong about a directory
\* that changed without leaving the time the menu has read of it.
ListIsFresh ==
  \A p \in Menu : pc[p] = "ready" =>
    \E c \in [Dir -> SUBSET App] :
      /\ \A i \in DOMAIN Dirs[p] :
           <<Dirs[p][i], mtimes[p][i]>> \notin reused => c[Dirs[p][i]] \in seen[p][Dirs[p][i]]
      /\ list[p] = Listed(c, Dirs[p])

\* A complete cache that would be taken now says what is in its directories now,
\* although they may have changed while it was made and since; all but those that
\* took the time the cache has of them when it was noted already.
CacheIsTrue ==
  \A f \in cache :
    /\ ~f.torn
    /\ \A i \in DOMAIN f.dirs : f.mtimes[i] = mtime(f.dirs[i])
    => \E c \in [Dir -> SUBSET App] :
         /\ \A i \in DOMAIN f.dirs :
              <<f.dirs[i], f.mtimes[i]>> \notin reused => c[f.dirs[i]] = content[f.dirs[i]]
         /\ f.apps = Listed(c, f.dirs)

\* The same of every directory: a cache that is taken, in any second, is what a
\* scan would give, and a menu lists what its directories held in its lifetime.
ListIsAlwaysFresh ==
  \A p \in Menu : pc[p] = "ready" =>
    \E c \in [Dir -> SUBSET App] :
      /\ \A i \in DOMAIN Dirs[p] : c[Dirs[p][i]] \in seen[p][Dirs[p][i]]
      /\ list[p] = Listed(c, Dirs[p])

CacheIsAlwaysTrue ==
  \A f \in cache :
    /\ ~f.torn
    /\ \A i \in DOMAIN f.dirs : f.mtimes[i] = mtime(f.dirs[i])
    => f.apps = Listed(content, f.dirs)

=============================================================================
