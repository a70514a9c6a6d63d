------------------------------- MODULE MCFiles -------------------------------
(***************************************************************************)
(* The programs that share files, directories and IPC objects with other   *)
(* processes, one at a time: the variable program says which one runs, and *)
(* the variables of the others keep their initial values.                  *)
(***************************************************************************)
EXTENDS FileSharing

CONSTANTS Programs, Inodes, RootInodes, Populated, Names, MaxOps, QueueMax, AbortOptions,
          WatchInodes, UserKinds, IpcUsers, Kinds, MaxRuns, MaxObjects, SemLines

VARIABLES program,
          path, ops, watch, moveSelf, nextWd, queue, late, abortOnCacheProblem, stopFile, rootDirPaths,
          wlCache, pc, buf, firstTry, todo, roots, then, commands, calm,
          user, dirs, wPath, watches, wQueue, wPc, wTodo, paths,
          kind, name, objs, tool, ran, log

dtVars == <<path, ops, watch, moveSelf, nextWd, queue, late, abortOnCacheProblem, stopFile, rootDirPaths,
            wlCache, pc, buf, firstTry, todo, roots, then, commands, calm>>
wVars == <<user, dirs, wPath, watches, wQueue, wPc, wTodo, paths>>
ipcVars == <<kind, name, objs, tool, ran, log>>
vars == <<program, dtVars, wVars, pidVars, lockVars, appendVars, ipcVars>>

\* One root, two, and the same one twice.
Arguments == {<<"r">>, <<"s", "r">>, <<"r", "r">>}

Tree == IF ~Populated THEN [r |-> <<"r">>, s |-> <<"s">>]
        ELSE [r |-> <<"r">>, s |-> <<"s">>, i1 |-> <<"r", "a">>]

\* Command lines of svsem_op.c: several operations performed at once, several
\* groups, with IPC_NOWAIT (n) and SEM_UNDO (u), and one that waits for zero and
\* has a value, an error, after a group that has none.
Op(n, s, v, f) == [num |-> n, sign |-> s, value |-> v, flags |-> f]
MCSemLines ==
    {<<<<Op(1, "+", 1, {"u"})>>, <<Op(1, "-", 1, {}), Op(2, "+", 1, {"n", "u"})>>>>,
     <<<<Op(1, "-", 1, {"n", "u"}), Op(2, "=", 0, {})>>>>,
     <<<<Op(1, "+", 1, {})>>, <<Op(2, "=", 1, {})>>>>}

D == INSTANCE InotifyDtree
W == INSTANCE WatchTree WITH Inodes <- WatchInodes, Root <- 0, path <- wPath, queue <- wQueue,
                             pc <- wPc, todo <- wTodo
I == INSTANCE IpcTools WITH Users <- IpcUsers

Init == /\ program \in Programs /\ D!Init /\ W!Init /\ SharingInit /\ I!Init
        /\ program # "watch-directory-tree" => user = "patient"

Dtree == /\ program = "inotify_dtree" /\ D!Next
         /\ UNCHANGED <<program, wVars, pidVars, lockVars, appendVars, ipcVars>>
Watch == /\ program = "watch-directory-tree" /\ W!Next
         /\ UNCHANGED <<program, dtVars, pidVars, lockVars, appendVars, ipcVars>>
Pid == /\ program = "create_pid_file" /\ PidNext
       /\ UNCHANGED <<program, dtVars, wVars, lockVars, appendVars, ipcVars>>
Locking == /\ program = "i_fcntl_locking" /\ LockingNext
           /\ UNCHANGED <<program, dtVars, wVars, pidVars, appendVars, ipcVars>>
Flocking == /\ program = "t_flock" /\ FlockNext
            /\ UNCHANGED <<program, dtVars, wVars, pidVars, appendVars, ipcVars>>
Appending == /\ program = "atomic_append" /\ AppendNext
             /\ UNCHANGED <<program, dtVars, wVars, pidVars, lockVars, ipcVars>>
Tools == /\ program = "ipc_tools" /\ I!Next
         /\ UNCHANGED <<program, dtVars, wVars, pidVars, lockVars, appendVars>>

Next == Dtree \/ Watch \/ Pid \/ Locking \/ Flocking \/ Appending \/ Tools

Spec == Init /\ [][Next]_vars

----------------------------------------------------------------------------
\* Both directory watchers hold exactly the directories that exist, each under
\* its name, if nothing changes while they work; inotify_dtree also after an
\* overflow or a cache problem made it rebuild its cache.
TreesFollowed == D!CalmConsistent /\ W!PatientWatched

\* Whatever changes when, no watch and no cache entry is left behind, and the
\* paths watch-directory-tree.c records for its watches are right.
NoLeak == D!NoLeak /\ W!PathsRight

\* inotify_dtree.c:23-25, of the cache whenever all events are processed.
Consistent == D!Consistent

\* The tools of pmsg/, psem/, pshm/, svmsg/ and svsem/, run by several users in
\* any order, do to the objects what their usage texts say.
IpcRight == I!IpcRight
=============================================================================
