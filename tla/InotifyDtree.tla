---------------------------- MODULE InotifyDtree ----------------------------
(***************************************************************************)
(* inotify/inotify_dtree.c: a cache of the directories under the roots     *)
(* named on the command line, kept up to date from inotify events, and the *)
(* programs that change the tree meanwhile: inotify/rand_dtree.c, and      *)
(* users that move directories out of and into the trees.                  *)
(*                                                                         *)
(* A directory is an inode with a pathname, a sequence of names.  nftw()   *)
(* visits one directory per step, so the tree changes under it.  Logging,  *)
(* the cache dump and check, and the length of pathnames are left out.     *)
(***************************************************************************)
EXTENDS Integers, Sequences, SequencesExt, FiniteSets

CONSTANTS Inodes,       \* directories that can be created
          RootInodes,   \* directories that can be named on the command line
          Tree,         \* the pathnames of the directories that exist at the start
          Arguments,    \* command lines: sequences of them
          Names,        \* names directories can be given
          MaxOps,       \* bound on the changes of the tree (rand_dtree's -m) and commands
          QueueMax,     \* /proc/sys/fs/inotify/max_queued_events
          AbortOptions  \* settings of abortOnCacheProblem (option -a)

Outside == "out"        \* the parent of the roots, outside every monitored tree

VARIABLES
    path,       \* the pathname of every directory that exists
    ops,        \* changes of the tree so far, which also number rename()s
    watch,      \* kernel: the watch descriptor of every watched inode
    moveSelf,   \* kernel: inodes watched for IN_MOVE_SELF as well
    nextWd,     \* kernel: the next watch descriptor of this instance
    queue,      \* kernel: events not yet read
    late,       \* kernel: what rename()s have still to report after IN_MOVED_FROM
    abortOnCacheProblem,
    stopFile,   \* does the stop file exist?
    rootDirPaths,   \* pathnames still monitored, in the order of the arguments
    wlCache,    \* the slots: [wd, path], wd = -1 if the slot is empty
    pc, buf, firstTry,
    todo,       \* pathnames nftw() has still to visit
    roots,      \* roots that reinitialize() has still to walk
    then,       \* where the program goes on after the walk
    commands,   \* how many the user has typed
    calm        \* history: see Disturb

tree == <<path, ops>>
kernel == <<watch, moveSelf, nextWd, queue, late>>
dtVars == <<path, ops, watch, moveSelf, nextWd, queue, late, abortOnCacheProblem, stopFile, rootDirPaths,
          wlCache, pc, buf, firstTry, todo, roots, then, commands, calm>>

RootPath(r) == <<r>>
Exists(p) == \E i \in DOMAIN path : path[i] = p
Inode(p) == CHOOSE i \in DOMAIN path : path[i] = p
Under(p, q) == IsPrefix(p, q)           \* q is p or lies below it
Parent(p) == Front(p)
Monitored(p) == \E r \in ToSet(rootDirPaths) : Under(r, p)

Init == /\ path = Tree /\ ops = 0
        /\ watch = <<>> /\ moveSelf = {} /\ nextWd = 1 /\ queue = <<>> /\ late = {}
        /\ abortOnCacheProblem = FALSE /\ stopFile = FALSE
        /\ rootDirPaths = <<>> /\ wlCache = <<>>
        /\ pc = "start" /\ buf = <<>> /\ firstTry = TRUE
        /\ todo = <<>> /\ roots = <<>> /\ then = "select"
        /\ commands = 0 /\ calm = TRUE

Quiescent == pc = "select" /\ queue = <<>> /\ late = {}

----------------------------------------------------------------------------
\* The kernel.  An event that does not fit is lost; one IN_Q_OVERFLOW says so.
Overflow == [wd |-> -1, mask |-> "overflow", name |-> "", cookie |-> 0]
Event(i, m, n, c) == IF i \in DOMAIN watch
                     THEN <<[wd |-> watch[i], mask |-> m, name |-> n, cookie |-> c]>> ELSE <<>>
Enqueue(q, e) == IF Len(q) < QueueMax THEN Append(q, e)
                 ELSE IF Last(q) = Overflow THEN q ELSE Append(q, Overflow)
Queue(events) == queue' = FoldLeft(Enqueue, queue, events)
Unwatch(I) == /\ watch' = [i \in DOMAIN watch \ I |-> watch[i]]
              /\ moveSelf' = moveSelf \ I

\* A change while the program is not idle may race with it; nothing is claimed
\* of the cache from then on until the next reinitialize().
Disturb == /\ calm' = (calm /\ Quiescent) /\ ops + commands < MaxOps /\ ops' = ops + 1 /\ ~stopFile
           /\ pc # "start"
           /\ UNCHANGED <<abortOnCacheProblem, stopFile, rootDirPaths, wlCache, pc, buf, firstTry,
                          todo, roots, then, commands>>

\* rand_dtree c: mkdir() in a listed directory, then perhaps inside the new one.
Mkdir == \E i \in Inodes \ DOMAIN path, d \in DOMAIN path, n \in Names :
    /\ Disturb
    /\ ~Exists(Append(path[d], n))
    /\ path' = [j \in DOMAIN path \cup {i} |-> IF j = i THEN Append(path[d], n) ELSE path[j]]
    /\ Queue(Event(d, "create", n, 0))
    /\ UNCHANGED <<watch, moveSelf, nextWd, late>>

\* rand_dtree d: rmdir() of a listed directory, then perhaps of its parent;
\* users may remove a root as well.
Rmdir == \E i \in DOMAIN path :
    /\ Disturb
    /\ \A j \in DOMAIN path \ {i} : ~Under(path[i], path[j])
    /\ path' = [j \in DOMAIN path \ {i} |-> path[j]]
    /\ Queue(Event(i, "delete_self", "", 0) \o Event(i, "ignored", "", 0))
    /\ Unwatch({i}) /\ UNCHANGED <<nextWd, late>>

\* rename(): IN_MOVED_FROM at once; IN_MOVED_TO and IN_MOVE_SELF follow in steps of
\* their own, so that other events and read()s may come between.
RenameTo(i, d, target) ==
    /\ Disturb
    /\ ~Exists(target) /\ ~Under(path[i], target)
    /\ path' = [j \in DOMAIN path |-> IF Under(path[i], path[j])
                                      THEN target \o SubSeq(path[j], Len(path[i]) + 1, Len(path[j]))
                                      ELSE path[j]]
    /\ Queue(IF Exists(Parent(path[i]))
             THEN Event(Inode(Parent(path[i])), "moved_from", Last(path[i]), ops') ELSE <<>>)
    /\ late' = late \cup {[inode |-> d, mask |-> "moved_to", name |-> Last(target), op |-> ops'],
                          [inode |-> i, mask |-> "move_self", name |-> "", op |-> ops']}
    /\ UNCHANGED <<watch, moveSelf, nextWd>>

Deliver == \E l \in late :
    /\ l.mask = "move_self" => \A m \in late : m.op = l.op => m = l
    /\ Queue(IF l.mask = "moved_to" THEN Event(l.inode, l.mask, l.name, l.op)
             ELSE IF l.inode \in moveSelf THEN Event(l.inode, l.mask, l.name, 0) ELSE <<>>)
    /\ late' = late \ {l}
    /\ UNCHANGED <<tree, watch, moveSelf, nextWd, abortOnCacheProblem, stopFile, rootDirPaths,
                   wlCache, pc, buf, firstTry, todo, roots, then, commands, calm>>

\* rand_dtree m: rename() of a listed directory into a listed directory.
Rename == \E i \in DOMAIN path \cap Inodes, d \in DOMAIN path, n \in Names :
    RenameTo(i, d, Append(path[d], n))

\* A user moves a directory, a root perhaps, out of all the trees.
MoveOut == \E i \in DOMAIN path, n \in Names :
    path[i][1] # Outside /\ RenameTo(i, Outside, <<Outside, n>>)

\* The file system mounted on a root is unmounted: the mount point shows.
Unmount == \E r \in RootInodes \cap DOMAIN path :
    /\ Disturb /\ path[r] = RootPath(r) /\ "mnt" \notin DOMAIN path
    /\ LET gone == {i \in DOMAIN path : Under(path[r], path[i])}
           left == (DOMAIN path \ gone) \cup {"mnt"}
           order == SetToSeq(gone)
       IN  /\ path' = [i \in left |-> IF i = "mnt" THEN RootPath(r) ELSE path[i]]
           /\ Queue(FlattenSeq([k \in 1..Len(order) |-> Event(order[k], "unmount", "", 0)
                                                       \o Event(order[k], "ignored", "", 0)]))
           /\ Unwatch(gone)
    /\ UNCHANGED <<nextWd, late>>

----------------------------------------------------------------------------
\* The cache.
Slots == DOMAIN wlCache
Used == {j \in Slots : wlCache[j].wd >= 0}
findWatch(wd) == {j \in Slots : wlCache[j].wd = wd}
SlotOf(wd) == CHOOSE j \in findWatch(wd) : TRUE
PathOf(wd) == wlCache[SlotOf(wd)].path
pathnameInCache(p) == \E j \in Used : wlCache[j].path = p
EmptySlot == [wd |-> -1, path |-> <<>>]
markCacheSlotEmpty(c, j) == [c EXCEPT ![j] = EmptySlot]

\* addWatchToCache() with findEmptyCacheSlot(), which grows the array by one here.
addWatchToCache(wd, p) ==
    LET free == {j \in Slots : wlCache[j].wd = -1}
        e == [wd |-> wd, path |-> p]
    IN  IF free = {} THEN Append(wlCache, e)
        ELSE [wlCache EXCEPT ![CHOOSE j \in free : \A k \in free : j <= k] = e]

\* BUG: subdirectories keep their old pathnames.
MutrewriteCachedPaths(old, new) ==
    [j \in Slots |-> IF wlCache[j].path = old THEN [wlCache[j] EXCEPT !.path = new] ELSE wlCache[j]]

\* The cached pathnames of a renamed directory and all below it.
rewriteCachedPaths(old, new) ==
    [j \in Slots |->
        IF j \in Used /\ Under(old, wlCache[j].path)
        THEN [wlCache[j] EXCEPT !.path =
                 new \o SubSeq(wlCache[j].path, Len(old) + 1, Len(wlCache[j].path))]
        ELSE wlCache[j]]

\* zapSubtree(): slot by slot, inotify_rm_watch() and markCacheSlotEmpty(); the
\* first watch that the kernel has dropped already stops it, result -1.  One step:
\* a directory that goes meanwhile is as good as gone before or after the loop.
ZapSlots(p) == {j \in Used : Under(p, wlCache[j].path)}
ZapFails(p) == {j \in ZapSlots(p) : \A i \in DOMAIN watch : watch[i] # wlCache[j].wd}
Zapped(p) == {j \in ZapSlots(p) : \A k \in ZapFails(p) : j < k}

\* BUG: the cache entries go, the watches stay.
MutzapSubtree(p) ==
    /\ wlCache' = [j \in Slots |-> IF j \in Zapped(p) THEN EmptySlot ELSE wlCache[j]]
    /\ UNCHANGED <<watch, moveSelf, queue>>

zapSubtree(p) ==
    /\ wlCache' = [j \in Slots |-> IF j \in Zapped(p) THEN EmptySlot ELSE wlCache[j]]
    /\ LET I == {i \in DOMAIN watch : \E j \in Zapped(p) : wlCache[j].wd = watch[i]}
           order == SetToSeq(I)
       IN  /\ Unwatch(I)
           /\ Queue(FlattenSeq([k \in 1..Len(order) |-> Event(order[k], "ignored", "", 0)]))

isRootDirPath(p) == p \in ToSet(rootDirPaths)
zapRootDirPath(p) == rootDirPaths' = SelectSeq(rootDirPaths, LAMBDA r : r # p)

\* reinitialize(): close() drops watches and events; a new instance, an empty
\* cache, a walk of every root.  The caller discards the rest of its buffer.
reinitialize(rs, cont) ==
    /\ watch' = <<>> /\ moveSelf' = {} /\ nextWd' = 1 /\ queue' = <<>>
    /\ wlCache' = <<>> /\ buf' = <<>> /\ firstTry' = TRUE
    /\ todo' = <<>> /\ roots' = rs /\ then' = cont
    /\ pc' = "walk" /\ calm' = TRUE /\ UNCHANGED late

----------------------------------------------------------------------------
Options == <<abortOnCacheProblem, stopFile>>

\* copyRootDirPaths(): the same directory given twice ends the program.
copyRootDirPaths(args) ==
    IF \E j, k \in DOMAIN args : j # k /\ args[j] = args[k] THEN <<>>
    ELSE [k \in DOMAIN args |-> RootPath(args[k])]

\* main() and copyRootDirPaths(): the option -a; the arguments must be directories, all
\* different; then the first reinitialize().
Start == \E args \in Arguments :
    /\ pc = "start"
    /\ IF copyRootDirPaths(args) = <<>>
       THEN pc' = "exit" /\ UNCHANGED <<kernel, wlCache, buf, firstTry, todo, roots, then, calm,
                                       rootDirPaths>>
       ELSE /\ rootDirPaths' = copyRootDirPaths(args)
            /\ reinitialize(rootDirPaths', "select")
    /\ abortOnCacheProblem' \in AbortOptions
    /\ UNCHANGED <<tree, stopFile, commands>>

\* traverseTree(): inotify_add_watch() by pathname, then the cache, unless it
\* holds the descriptor already.
TraverseTree ==
    /\ pc = "walk" /\ todo # <<>> /\ Exists(Head(todo))
    /\ LET i == Inode(Head(todo))
           wd == IF i \in DOMAIN watch THEN watch[i] ELSE nextWd
       IN  /\ watch' = [j \in DOMAIN watch \cup {i} |-> IF j = i THEN wd ELSE watch[j]]
           /\ moveSelf' = (IF isRootDirPath(Head(todo)) THEN moveSelf \cup {i} ELSE moveSelf \ {i})
           /\ nextWd' = IF wd = nextWd THEN nextWd + 1 ELSE nextWd
           /\ wlCache' = IF findWatch(wd) # {} THEN wlCache ELSE addWatchToCache(wd, Head(todo))
    /\ pc' = "readdir"
    /\ UNCHANGED <<tree, queue, late, Options, rootDirPaths, buf, firstTry, todo, roots, then,
                   commands, calm>>

\* inotify_add_watch() fails otherwise than with ENOENT, for want of watches say:
\* the program gives up.
TraverseFails == /\ pc = "walk" /\ todo # <<>> /\ Exists(Head(todo))
                 /\ pc' = "exit"
                 /\ UNCHANGED <<tree, kernel, Options, rootDirPaths, wlCache, buf, firstTry, todo,
                                roots, then, commands, calm>>

\* nftw() then reads the entries there are by now, in whatever order.
ReadDir ==
    /\ pc = "readdir"
    /\ \E s \in SetToSeqs({path[j] : j \in {k \in DOMAIN path : Parent(path[k]) = Head(todo)}}) :
          todo' = s \o Tail(todo)
    /\ pc' = "walk"
    /\ UNCHANGED <<tree, kernel, Options, rootDirPaths, wlCache, buf, firstTry, roots, then,
                   commands, calm>>

\* A directory that is gone is passed over, or, if it went while nftw() opened
\* it, ends this nftw(); watchDir() only logs that.
WalkGone == /\ pc = "walk" /\ todo # <<>> /\ ~Exists(Head(todo))
            /\ todo' \in {Tail(todo), <<>>}
            /\ UNCHANGED <<tree, kernel, Options, rootDirPaths, wlCache, pc, buf, firstTry, roots,
                           then, commands, calm>>

\* reinitialize() goes on to the next root, or the walk is over.
WalkNext == /\ pc = "walk" /\ todo = <<>>
            /\ IF roots # <<>>
               THEN todo' = <<Head(roots)>> /\ roots' = Tail(roots) /\ UNCHANGED pc
               ELSE pc' = then /\ UNCHANGED <<todo, roots>>
            /\ UNCHANGED <<tree, kernel, Options, rootDirPaths, wlCache, buf, firstTry, then,
                           commands, calm>>

----------------------------------------------------------------------------
\* select(): the descriptor is readable, and no command is typed.
SelectEvents == /\ pc = "select" /\ queue # <<>>
                /\ pc' = "read"
                /\ UNCHANGED <<tree, kernel, Options, rootDirPaths, wlCache, buf, firstTry, todo,
                               roots, then, commands, calm>>

AfterCommand == IF queue # <<>> THEN "read" ELSE "select"

Typed == /\ pc = "select" /\ ops + commands < MaxOps /\ commands' = commands + 1
         /\ UNCHANGED <<tree, Options, rootDirPaths>>

\* executeCommand(), with events waiting or not; they are read afterwards.
\* 'a path': zapSubtree(), whose result is not used, and watchSubtree(), of any
\* pathname; one outside the trees is watched as well from then on.
Argument == {path[i] : i \in DOMAIN path} \cup {wlCache[j].path : j \in Used}

CommandAdd == \E p \in Argument :
    /\ Typed
    /\ zapSubtree(p)
    /\ todo' = <<p>> /\ then' = AfterCommand /\ pc' = "walk"
    /\ calm' = (calm /\ Quiescent /\ Monitored(p))
    /\ UNCHANGED <<nextWd, late, buf, firstTry, roots>>

\* 'z path': the subtree is no longer watched.
CommandZap == \E p \in Argument :
    /\ Typed
    /\ zapSubtree(p) /\ calm' = FALSE
    /\ pc' = AfterCommand
    /\ UNCHANGED <<nextWd, late, buf, firstTry, todo, roots, then>>

\* '0': the cache is rebuilt.  If events were waiting, read() is called on the
\* new descriptor, which has the number of the old one, and may have nothing.
CommandRebuild == Typed /\ reinitialize(rootDirPaths, AfterCommand)

\* 'q', or end of file.
CommandQuit == /\ Typed /\ pc' = "exit"
               /\ UNCHANGED <<kernel, wlCache, buf, firstTry, todo, roots, then, calm>>

----------------------------------------------------------------------------
\* processInotifyEvents(): read() gets what there is, or what fits.
Read == /\ pc = "read" /\ queue # <<>>
        /\ \E k \in {1, Len(queue)} : /\ buf' = SubSeq(queue, 1, k)
                                      /\ queue' = SubSeq(queue, k + 1, Len(queue))
        /\ firstTry' = TRUE /\ pc' = "event"
        /\ UNCHANGED <<tree, watch, moveSelf, nextWd, late, Options, rootDirPaths, wlCache, todo, roots,
                       then, commands, calm>>

\* An IN_MOVED_FROM at the end of the buffer: one more read(), with a timeout
\* (ualarm()), which gets what there is or nothing.
SecondRead == /\ pc = "hang"
              /\ buf' = buf \o queue /\ queue' = <<>>
              /\ firstTry' = FALSE /\ pc' = "event"
              /\ UNCHANGED <<tree, watch, moveSelf, nextWd, late, Options, rootDirPaths, wlCache, todo,
                             roots, then, commands, calm>>

ev == Head(buf)
evPath == PathOf(ev.wd)
Known(e) == findWatch(e.wd) # {}
After(b) == IF b = <<>> THEN "select" ELSE "event"
EventOf(masks) == pc = "event" /\ ev.mask \in masks /\ (ev.wd # -1 /\ ev.mask # "ignored" => Known(ev))

\* n events are consumed and nothing else is to be done.
Consume(n) == /\ buf' = SubSeq(buf, n + 1, Len(buf)) /\ firstTry' = TRUE /\ pc' = After(buf')
              /\ UNCHANGED <<todo, roots, then>>
Same == UNCHANGED <<tree, abortOnCacheProblem, commands>>

\* findWatchChecked() fails: createStopFileAndAbort(), or the cache is rebuilt.
CacheProblem == IF abortOnCacheProblem
                THEN /\ stopFile' = TRUE /\ pc' = "abort"
                     /\ UNCHANGED <<kernel, wlCache, buf, firstTry, todo, roots, then, calm>>
                ELSE reinitialize(rootDirPaths, "select") /\ UNCHANGED stopFile

EvUnknown == /\ pc = "event" /\ ev.wd # -1 /\ ev.mask # "ignored" /\ ~Known(ev)
             /\ CacheProblem
             /\ Same /\ UNCHANGED rootDirPaths

\* IN_CREATE or IN_MOVED_TO of a directory: watchSubtree(), unless it is cached.
EvCreate == /\ EventOf({"create", "moved_to"})
            /\ LET full == Append(evPath, ev.name)
               IN  IF pathnameInCache(full) THEN Consume(1)
                   ELSE /\ buf' = Tail(buf) /\ firstTry' = TRUE
                        /\ todo' = <<full>> /\ then' = After(buf') /\ pc' = "walk"
                        /\ UNCHANGED roots
            /\ Same /\ UNCHANGED <<kernel, stopFile, rootDirPaths, wlCache, calm>>

\* zapRootDirPath() of a root; the program ends with the last one.
ForgetRoot(p) == IF isRootDirPath(p) THEN zapRootDirPath(p) ELSE UNCHANGED rootDirPaths
LastRoot(p) == isRootDirPath(p) /\ Len(rootDirPaths) = 1

EvDeleteSelf ==
    /\ EventOf({"delete_self"})
    /\ ForgetRoot(evPath)
    /\ IF LastRoot(evPath) THEN pc' = "exit" /\ UNCHANGED <<wlCache, buf, firstTry, todo, roots, then>>
       ELSE wlCache' = markCacheSlotEmpty(wlCache, SlotOf(ev.wd)) /\ Consume(1)
    /\ Same /\ UNCHANGED <<kernel, stopFile, calm>>

Pair == Len(buf) > 1 /\ buf[2].mask = "moved_to" /\ buf[2].cookie = ev.cookie

\* IN_MOVED_FROM followed by its IN_MOVED_TO: a rename() within the trees.
EvRenamed == /\ EventOf({"moved_from"}) /\ Pair
             /\ IF Known(buf[2])
                THEN /\ wlCache' = rewriteCachedPaths(Append(evPath, ev.name),
                                                      Append(PathOf(buf[2].wd), buf[2].name))
                     /\ Consume(2) /\ UNCHANGED <<kernel, stopFile, calm>>
                ELSE CacheProblem
             /\ Same /\ UNCHANGED rootDirPaths

\* IN_MOVED_FROM without one: moved out of the trees.
EvMovedOut == /\ EventOf({"moved_from"}) /\ ~Pair /\ (Len(buf) > 1 \/ ~firstTry)
              /\ LET full == Append(evPath, ev.name)
                 IN  IF ZapFails(full) = {}
                     THEN zapSubtree(full) /\ Consume(1) /\ UNCHANGED <<nextWd, late, calm>>
                     ELSE reinitialize(rootDirPaths, "select")
              /\ Same /\ UNCHANGED <<stopFile, rootDirPaths>>

\* Last in the buffer, first time: another read().
EvHanging == /\ EventOf({"moved_from"}) /\ Len(buf) = 1 /\ firstTry
             /\ pc' = "hang"
             /\ Same /\ UNCHANGED <<kernel, stopFile, rootDirPaths, wlCache, buf, firstTry, todo,
                                    roots, then, calm>>

EvOverflow == /\ EventOf({"overflow"})
              /\ reinitialize(rootDirPaths, "select")
              /\ Same /\ UNCHANGED <<stopFile, rootDirPaths>>

EvUnmount == /\ EventOf({"unmount"})
             /\ wlCache' = markCacheSlotEmpty(wlCache, SlotOf(ev.wd)) /\ Consume(1)
             /\ Same /\ UNCHANGED <<kernel, stopFile, rootDirPaths, calm>>

\* A root was moved: it is no longer monitored.
EvMoveSelf ==
    /\ EventOf({"move_self"}) /\ isRootDirPath(evPath)
    /\ ForgetRoot(evPath)
    /\ IF LastRoot(evPath)
       THEN pc' = "exit" /\ UNCHANGED <<kernel, wlCache, buf, firstTry, todo, roots, then, calm>>
       ELSE IF ZapFails(evPath) = {}
            THEN zapSubtree(evPath) /\ Consume(1) /\ UNCHANGED <<nextWd, late, calm>>
            ELSE reinitialize(rootDirPaths', "select")
    /\ Same /\ UNCHANGED stopFile

\* IN_IGNORED, and IN_MOVE_SELF of a directory whose cached path is no root.
EvNothing == /\ \/ EventOf({"ignored"})
                \/ EventOf({"move_self"}) /\ ~isRootDirPath(evPath)
             /\ Consume(1)
             /\ Same /\ UNCHANGED <<kernel, stopFile, rootDirPaths, wlCache, calm>>

UserSteps == Mkdir \/ Rmdir \/ Rename \/ MoveOut \/ Unmount \/ Deliver
Commands == CommandAdd \/ CommandZap \/ CommandRebuild \/ CommandQuit
Step == \/ Start \/ TraverseTree \/ TraverseFails \/ ReadDir \/ WalkGone \/ WalkNext
           \/ SelectEvents \/ Read \/ SecondRead
           \/ EvUnknown \/ EvCreate \/ EvDeleteSelf \/ EvRenamed \/ EvMovedOut \/ EvHanging
           \/ EvOverflow \/ EvUnmount \/ EvMoveSelf \/ EvNothing
Next == UserSteps \/ Commands \/ Step

----------------------------------------------------------------------------
\* The directories that should be cached, those of unmounted trees excepted.
Present == {path[i] : i \in {j \in DOMAIN path : Monitored(path[j])}}
Cached == {wlCache[j].path : j \in Used}
Unmounted == {i \in DOMAIN path : i = "mnt"}

\* "an internal representation of the directory trees that remains consistent
\* with the filesystem" (inotify_dtree.c:23-25): when all events are processed,
\* the cache holds the directories of the trees and nothing else.
Consistent == Quiescent /\ Unmounted = {} /\ commands = 0 => Cached = Present

\* It is consistent, and every entry has the descriptor of the directory its
\* pathname names, if nothing changed while the program was working, also after
\* an overflow or another cache problem has made it rebuild everything.
CalmConsistent ==
    Quiescent /\ calm /\ Unmounted = {} =>
        /\ Cached = Present
        /\ \A j \in Used : Inode(wlCache[j].path) \in DOMAIN watch
                           /\ watch[Inode(wlCache[j].path)] = wlCache[j].wd

\* Whatever happens when, no descriptor is cached twice, every watch is in the
\* cache, and an entry whose watch the kernel dropped will be cleared: the event
\* that says so, or an overflow, is still to be processed.
NoLeak ==
    /\ \A j, k \in Used : wlCache[j].wd = wlCache[k].wd => j = k
    /\ \A i \in DOMAIN watch : findWatch(watch[i]) # {}
    /\ \A j \in Used : \/ \E i \in DOMAIN watch : watch[i] = wlCache[j].wd
                       \/ \E e \in ToSet(buf \o queue) :
                             \/ e.mask = "overflow"
                             \/ e.wd = wlCache[j].wd /\ e.mask \in {"delete_self", "unmount"}
                       \/ pc \in {"exit", "abort"}
=============================================================================
