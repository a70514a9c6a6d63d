------------------------------ MODULE WatchTree ------------------------------
(***************************************************************************)
(* exercises/19-monitoring-file-events/watch-directory-tree.c: a program   *)
(* that keeps an inotify watch on every directory under a root.  Users     *)
(* create and remove directories meanwhile.                                *)
(*                                                                         *)
(* An inode stands for its directory and for the watch descriptor it gets. *)
(* Of the events only IN_CREATE of a directory makes the program act; the  *)
(* others are printed and left out, and so are renames.                    *)
(***************************************************************************)
EXTENDS Naturals, Sequences, FiniteSets

CONSTANTS Inodes,       \* directories that can be created
          Names,        \* names they can be given
          Root,         \* the directory to watch, not in Inodes
          UserKinds     \* see user

VARIABLES user,         \* what users do: "any", "patient" (they wait until the program has
                        \* handled all events), or "creating" (they remove no directory)
          dirs,         \* directories that exist
          path,         \* the path each was created with, from Root
          watches,      \* kernel: inodes with a watch
          queue,        \* kernel: events [wd, name] not yet read
          pc,           \* the program; "exit": stopped by an event, "failed": at once
          todo,         \* paths nftw() has still to visit
          paths         \* program: the path recorded for each watch descriptor

vars == <<user, dirs, path, watches, queue, pc, todo, paths>>
tree == <<user, dirs, path>>

Dirs == Inodes \cup {Root}

TypeOK == /\ user \in UserKinds /\ Root \in dirs /\ dirs \subseteq Dirs
          /\ dirs \subseteq DOMAIN path /\ \A i \in DOMAIN path : path[i] \in Seq(Names)
          /\ watches \subseteq dirs
          /\ \A k \in 1..Len(queue) : queue[k].wd \in DOMAIN paths /\ queue[k].name \in Names
          /\ pc \in {"start", "scan", "readdir", "read", "exit", "failed"}
          /\ \A k \in 1..Len(todo) : todo[k] \in Seq(Names)
          /\ watches \subseteq DOMAIN paths

Init == /\ user \in UserKinds
        /\ dirs = {Root} /\ path = [i \in {Root} |-> <<>>]
        /\ watches = {} /\ queue = <<>>
        /\ pc = "start" /\ todo = <<>>
        /\ paths = [i \in {} |-> <<>>]

----------------------------------------------------------------------------
Idle == pc \in {"start", "read", "exit"} /\ queue = <<>>
Child(i, p) == path[i] # <<>> /\ SubSeq(path[i], 1, Len(path[i]) - 1) = path[p]
With(f, i, v) == [j \in DOMAIN f \cup {i} |-> IF j = i THEN v ELSE f[j]]

\* A user creates a directory; the kernel queues an event if the parent is watched.
Mkdir == \E i \in Inodes \ DOMAIN path, p \in dirs, n \in Names :
            /\ user = "patient" => Idle
            /\ \A j \in dirs : path[j] # Append(path[p], n)
            /\ dirs' = dirs \cup {i} /\ path' = With(path, i, Append(path[p], n))
            /\ queue' = IF p \in watches THEN Append(queue, [wd |-> p, name |-> n]) ELSE queue
            /\ UNCHANGED <<user, watches, pc, todo, paths>>

\* A user removes an empty directory; the kernel drops its watch (IN_IGNORED).
Rmdir == \E i \in dirs \ {Root} :
            /\ user # "creating" /\ (user = "patient" => Idle)
            /\ \A j \in dirs : ~Child(j, i)
            /\ dirs' = dirs \ {i} /\ watches' = watches \ {i}
            /\ UNCHANGED <<user, path, queue, pc, todo, paths>>

----------------------------------------------------------------------------
\* BUG: only the last component of the path is recorded.
MutName(pth, i) == /\ watches' = watches \cup {i}
                   /\ paths' = With(paths, i, IF pth = <<>> THEN pth ELSE <<pth[Len(pth)]>>)

\* watchDir(pth) succeeds: inotify_add_watch() finds directory i under this path.
watchDir(pth, i) == /\ watches' = watches \cup {i}
                    /\ paths' = With(paths, i, pth)

\* inotify_init() and the call of nftw(), on the tree there is by now.
Start == /\ pc = "start"
         /\ \/ pc' = "scan" /\ todo' = <<path[Root]>>
            \/ pc' = "failed" /\ UNCHANGED todo
         /\ UNCHANGED <<tree, watches, queue, paths>>

\* nftw() visits a directory: addWatch() is called before its entries are read.
\* A directory removed meanwhile is passed over, ends the walk (nftw() returns
\* -1, which is ignored) or, in inotify_add_watch(), ends the program.
Visit == /\ pc = "scan" /\ todo # <<>>
         /\ IF \E i \in dirs : path[i] = Head(todo)
            THEN /\ \E i \in dirs : path[i] = Head(todo) /\ watchDir(Head(todo), i)
                 /\ pc' = "readdir" /\ UNCHANGED todo
            ELSE /\ \/ todo' = Tail(todo) /\ UNCHANGED pc
                    \/ todo' = <<>> /\ pc' = "read"
                    \/ pc' = "exit" /\ UNCHANGED todo
                 /\ UNCHANGED <<watches, paths>>
         /\ UNCHANGED <<tree, queue>>

\* It then reads the entries: the subdirectories that exist now are visited,
\* in any order.
ReadDir == /\ pc = "readdir"
           /\ LET sub == {path[i] : i \in {j \in dirs : \E p \in dirs :
                                               path[p] = Head(todo) /\ Child(j, p)}}
              IN  \E s \in [1..Cardinality(sub) -> sub] :
                    /\ \A k, l \in DOMAIN s : k # l => s[k] # s[l]
                    /\ todo' = s \o Tail(todo)
           /\ pc' = "scan"
           /\ UNCHANGED <<tree, watches, queue, paths>>

ScanDone == /\ pc = "scan" /\ todo = <<>>
            /\ pc' = "read"
            /\ UNCHANGED <<tree, watches, queue, todo, paths>>

\* BUG: directories created later are not watched.
MuthandleEvent == /\ pc = "read" /\ queue # <<>>
                  /\ queue' = Tail(queue)
                  /\ UNCHANGED <<tree, pc, watches, todo, paths>>

\* read() and handleEvent() of one IN_CREATE|IN_ISDIR event: the new directory
\* is watched; a failing inotify_add_watch() ends the program.
handleEvent == /\ pc = "read" /\ queue # <<>>
               /\ queue' = Tail(queue)
               /\ LET pth == Append(paths[Head(queue).wd], Head(queue).name)
                  IN  IF \E i \in dirs : path[i] = pth
                      THEN \E i \in dirs : path[i] = pth /\ watchDir(pth, i) /\ UNCHANGED pc
                      ELSE pc' = "exit" /\ UNCHANGED <<watches, paths>>
               /\ UNCHANGED <<tree, todo>>

Program == Start \/ Visit \/ ReadDir \/ ScanDone \/ handleEvent
Next == Mkdir \/ Rmdir \/ Program

Spec == Init /\ [][Next]_vars

----------------------------------------------------------------------------
\* "When a new subdirectory is added under the tree or a directory is deleted,
\* the set of monitored subdirectories should be updated accordingly"
\* (19-monitoring-file-events/README.md:12-14): when the program runs and has
\* no event left to handle, it watches every directory.
AllWatched == pc = "read" /\ queue = <<>> => watches = dirs

\* If users wait for the program between their operations, it does so, and none
\* of their operations ends it.
PatientWatched == user = "patient" => AllWatched /\ pc # "exit"

\* The path recorded for a watched directory is its path, so the events the
\* program prints and the paths it builds from it are right.
PathsRight == \A i \in watches : paths[i] = path[i]
=============================================================================
