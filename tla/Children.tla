------------------------------- MODULE Children -------------------------------
(***************************************************************************)
(* Parents that wait for their children: procexec/multi_SIGCHLD.c (a       *)
(* SIGCHLD handler that reaps in a loop), procexec/multi_wait.c,           *)
(* procexec/system.c and simple_system.c, and namespaces/simple_init.c     *)
(* (the init process of a PID namespace, which adopts orphans, see         *)
(* namespaces/orphan.c).  A SIGCHLD that is pending already is not queued  *)
(* again.                                                                  *)
(***************************************************************************)
EXTENDS Integers, FiniteSets

CONSTANTS Kids,             \* the children a parent creates, 1..N
          Orphan,           \* a process that loses its parent and is adopted
          childPrograms     \* a subset of {"multi_SIGCHLD", "multi_wait", "system", "simple_system", "simple_init"}

VARIABLES
    cprog, cpc,             \* the parent and where its main() is
    kid,                    \* every child: "unborn", "running", "zombie" or "reaped"
    created,                \* how many children main() has forked
    pendingChld, blockedChld,
    hpc,                    \* the SIGCHLD handler: "out", "in"
    numLiveChildren,
    numDead,                \* multi_wait: how many wait() has returned
    callerIgnores,          \* did the caller of system() ignore SIGINT and SIGQUIT (saOrigInt)?
    ignoring,               \* does the parent ignore them now?
    commandIgnores,         \* the disposition of SIGINT with which the command was executed
    sysStatus,              \* what system() will return: "none", "exit", "killed", -1 as "error"
    interrupted             \* has SIGINT been sent to the foreground process group?

chVars == <<cprog, cpc, kid, created, pendingChld, blockedChld, hpc, numLiveChildren, numDead,
            callerIgnores, ignoring, commandIgnores, sysStatus, interrupted>>

All == Kids \cup {Orphan}
N == Cardinality(Kids)
\* The children are numbered; system() has one, and its caller another.
ASSUME KidsAssumption == /\ N \in Nat /\ Kids = 1..N /\ Orphan \notin Kids
                         /\ childPrograms \cap {"system", "simple_system"} # {} => N >= 2

Sys == 1                    \* the child of system() is kid 1; kid 2 is another child of the caller
sysVars == <<callerIgnores, ignoring, commandIgnores, sysStatus, interrupted>>

ChildrenInit == /\ cprog = "" /\ cpc = "start" /\ kid = [k \in All |-> "unborn"] /\ created = 0
        /\ pendingChld = FALSE /\ blockedChld = FALSE /\ hpc = "out" /\ numLiveChildren = 0
        /\ numDead = 0 /\ callerIgnores = FALSE /\ ignoring = FALSE /\ commandIgnores = "none"
        /\ sysStatus = "none" /\ interrupted = FALSE

(* multi_SIGCHLD blocks the signal before it forks; the caller of system() has a
   child of its own, a handler that reaps whatever it finds, and may ignore SIGINT. *)
Start ==
    /\ cpc = "start" /\ cprog' \in childPrograms
    /\ numLiveChildren' = N
    /\ blockedChld' = (cprog' = "multi_SIGCHLD")
    /\ kid' = IF cprog' = "system" THEN [kid EXCEPT ![2] = "running"] ELSE kid
    /\ cpc' = CASE cprog' \in {"multi_SIGCHLD", "multi_wait"} -> "fork"
                [] cprog' = "simple_init" -> "prompt" [] OTHER -> "call"
    /\ callerIgnores' \in (IF cprog' \in {"system", "simple_system"} THEN BOOLEAN ELSE {FALSE})
    /\ ignoring' = callerIgnores'
    /\ UNCHANGED <<created, pendingChld, hpc, numDead, commandIgnores, sysStatus, interrupted>>

HasHandler == cprog \in {"multi_SIGCHLD", "system", "simple_init"}
Main == hpc = "out"                          \* the parent is not in its handler
Born == {k \in All : kid[k] # "unborn"}
Zombies == {k \in All : kid[k] = "zombie"}
Running == {k \in All : kid[k] = "running"}

---------------------------------------------------------------------------
(* The children: they end at any time; SIGCHLD becomes pending if it is caught. *)
Exit(k) ==
    /\ kid[k] = "running" /\ cpc \notin {"exited", "failed"}
    /\ \/ kid' = [kid EXCEPT ![k] = "zombie"]
       \/ /\ cprog = "simple_init" /\ k # Orphan /\ kid[Orphan] = "unborn"      \* it leaves an orphan behind
          /\ kid' = [kid EXCEPT ![k] = "zombie", ![Orphan] = "running"]
    /\ pendingChld' = (pendingChld \/ HasHandler)
    /\ UNCHANGED <<cprog, cpc, created, blockedChld, hpc, numLiveChildren, numDead, sysVars>>

ForkChild ==
    /\ Main /\ cpc = "fork" /\ created < N
    /\ created' = created + 1 /\ kid' = [kid EXCEPT ![created'] = "running"]
    /\ cpc' = IF created' < N THEN "fork" ELSE "loop"
    /\ UNCHANGED <<cprog, pendingChld, blockedChld, hpc, numLiveChildren, numDead, sysVars>>

ForkFails ==                                \* errExit()
    /\ Main /\ cpc = "fork" /\ cpc' = "failed"
    /\ UNCHANGED <<cprog, kid, created, pendingChld, blockedChld, hpc, numLiveChildren, numDead, sysVars>>

(* A caught SIGCHLD that is not blocked interrupts main(); the handler runs with it blocked. *)
MutHandler ==                               \* one waitpid() per signal
    /\ hpc = "in" /\ hpc' = "out" /\ cprog # "simple_init"
    /\ IF Zombies = {} THEN UNCHANGED <<kid, numLiveChildren>>
       ELSE \E k \in Zombies : kid' = [kid EXCEPT ![k] = "reaped"] /\ numLiveChildren' = numLiveChildren - 1
    /\ UNCHANGED <<cprog, cpc, created, pendingChld, blockedChld, numDead, sysVars>>

Handler ==
    /\ hpc = "in" /\ cprog # "simple_init"
    /\ \/ \E k \in Zombies : /\ kid' = [kid EXCEPT ![k] = "reaped"]
                             /\ numLiveChildren' = numLiveChildren - 1 /\ UNCHANGED hpc
       \/ Zombies = {} /\ hpc' = "out" /\ UNCHANGED <<kid, numLiveChildren>>
    /\ UNCHANGED <<cprog, cpc, created, pendingChld, blockedChld, numDead, sysVars>>

child_handler ==                            \* the handler of simple_init
    /\ hpc = "in" /\ cprog = "simple_init"
    /\ \/ \E k \in Zombies : kid' = [kid EXCEPT ![k] = "reaped"] /\ UNCHANGED hpc
       \/ Zombies = {} /\ hpc' = "out" /\ UNCHANGED kid
    /\ UNCHANGED <<cprog, cpc, created, pendingChld, blockedChld, numLiveChildren, numDead, sysVars>>

Deliver ==
    /\ HasHandler /\ Main /\ pendingChld /\ ~blockedChld /\ cpc \notin {"start", "exited", "failed"}
    /\ hpc' = "in" /\ pendingChld' = FALSE
    /\ cpc' = IF cpc = "pause" THEN "paused" ELSE cpc                   \* pause() returns
    /\ UNCHANGED <<cprog, kid, created, blockedChld, numLiveChildren, numDead, sysVars>>

---------------------------------------------------------------------------
(* multi_SIGCHLD.c:109: sigsuspend() unblocks and waits in one step. *)
Suspend ==
    /\ cprog = "multi_SIGCHLD" /\ Main /\ cpc = "loop"
    /\ \/ /\ numLiveChildren > 0 /\ pendingChld /\ pendingChld' = FALSE /\ hpc' = "in" /\ UNCHANGED cpc
       \/ /\ numLiveChildren = 0 /\ cpc' = "exited" /\ UNCHANGED <<pendingChld, hpc>>
    /\ UNCHANGED <<cprog, kid, created, blockedChld, numLiveChildren, numDead, sysVars>>

(* multi_wait.c:60. *)
Wait ==
    /\ cprog = "multi_wait" /\ cpc = "loop"
    /\ \/ \E k \in Zombies : /\ kid' = [kid EXCEPT ![k] = "reaped"] /\ numDead' = numDead + 1
                             /\ UNCHANGED cpc
       \/ Zombies \cup Running = {} /\ cpc' = "exited" /\ UNCHANGED <<kid, numDead>>    \* ECHILD
    /\ UNCHANGED <<cprog, created, pendingChld, blockedChld, hpc, numLiveChildren, sysVars>>

---------------------------------------------------------------------------
(* system(): block SIGCHLD, ignore SIGINT and SIGQUIT, fork. *)
SystemCall ==
    /\ cprog = "system" /\ Main /\ cpc = "call" /\ blockedChld' = TRUE /\ cpc' = "ignore"
    /\ UNCHANGED <<cprog, kid, created, pendingChld, hpc, numLiveChildren, numDead, sysVars>>

Ignore == /\ cpc = "ignore" /\ cpc' = "sysfork" /\ ignoring' = TRUE
          /\ UNCHANGED <<cprog, kid, created, pendingChld, blockedChld, hpc, numLiveChildren, numDead,
                         callerIgnores, commandIgnores, sysStatus, interrupted>>

SysFork ==
    /\ Main /\ cpc = IF cprog = "system" THEN "sysfork" ELSE "call"
    /\ cprog \in {"system", "simple_system"}
    /\ \/ /\ kid' = [kid EXCEPT ![Sys] = "running"] /\ cpc' = "waitpid"
          /\ commandIgnores' = (IF ignoring THEN "inherited" ELSE "default") /\ UNCHANGED sysStatus
       \/ /\ cpc' = "restore" /\ sysStatus' = "error" /\ UNCHANGED <<kid, commandIgnores>>     \* fork() failed
    /\ UNCHANGED <<cprog, created, pendingChld, blockedChld, hpc, numLiveChildren, numDead, callerIgnores,
                   ignoring, interrupted>>

(* The child takes the caller's dispositions, the default for a caught signal, and its
   mask before it executes the shell. *)
SysChild ==
    /\ cprog = "system" /\ kid[Sys] = "running" /\ commandIgnores = "inherited"
    /\ commandIgnores' = IF callerIgnores THEN "ignored" ELSE "default"
    /\ UNCHANGED <<cprog, cpc, kid, created, pendingChld, blockedChld, hpc, numLiveChildren, numDead,
                   callerIgnores, ignoring, sysStatus, interrupted>>

(* Control-C: SIGINT for the parent and for the command. *)
Interrupt ==
    /\ cprog \in {"system", "simple_system"} /\ kid[Sys] = "running" /\ ~interrupted
    /\ interrupted' = TRUE
    /\ IF commandIgnores = "default"
       THEN kid' = [kid EXCEPT ![Sys] = "zombie"] /\ pendingChld' = (pendingChld \/ HasHandler)
       ELSE UNCHANGED <<kid, pendingChld>>
    /\ cpc' = IF ignoring THEN cpc ELSE "killed"
    /\ UNCHANGED <<cprog, created, blockedChld, hpc, numLiveChildren, numDead, callerIgnores, ignoring,
                   commandIgnores, sysStatus>>

Waitpid ==                                  \* in system(), EINTR starts it again
    /\ Main /\ cpc = "waitpid"
    /\ \/ kid[Sys] = "zombie" /\ kid' = [kid EXCEPT ![Sys] = "reaped"] /\ sysStatus' = "exit"
       \/ kid[Sys] = "reaped" /\ sysStatus' = "error" /\ UNCHANGED kid             \* ECHILD
    /\ cpc' = "restore"
    /\ UNCHANGED <<cprog, created, pendingChld, blockedChld, hpc, numLiveChildren, numDead, callerIgnores,
                   ignoring, commandIgnores, interrupted>>

(* procexec/simple_system.c: neither SIGCHLD nor the keyboard's signals are looked after,
   and a waitpid() that a handler of the caller interrupts is given up. *)
WaitInterrupted ==
    /\ Main /\ cpc = "waitpid" /\ cpc' = "restore" /\ sysStatus' = "error"
    /\ UNCHANGED <<cprog, kid, created, pendingChld, blockedChld, hpc, numLiveChildren, numDead,
                   callerIgnores, ignoring, commandIgnores, interrupted>>
simple_system == cprog = "simple_system" /\ (SysFork \/ Waitpid \/ WaitInterrupted)

MutRestoreSignals == /\ Main /\ cpc = "restore" /\ cpc' = "returned" /\ blockedChld' = FALSE
              /\ UNCHANGED <<cprog, kid, created, pendingChld, hpc, numLiveChildren, numDead, sysVars>>

RestoreSignals == /\ Main /\ cpc = "restore" /\ cpc' = "returned" /\ blockedChld' = FALSE
           /\ ignoring' = callerIgnores
           /\ UNCHANGED <<cprog, kid, created, pendingChld, hpc, numLiveChildren, numDead, callerIgnores,
                          commandIgnores, sysStatus, interrupted>>

---------------------------------------------------------------------------
(* simple_init.c: read a command, fork, pause() until a signal comes. *)
Command ==
    /\ cprog = "simple_init" /\ Main /\ cpc = "prompt"
    /\ \/ /\ created < N /\ created' = created + 1 /\ kid' = [kid EXCEPT ![created'] = "running"]
          /\ cpc' = "forked"
       \/ cpc' = "exited" /\ UNCHANGED <<created, kid>>         \* end of file, or fork() failed
    /\ UNCHANGED <<cprog, pendingChld, blockedChld, hpc, numLiveChildren, numDead, sysVars>>

Pause == /\ cprog = "simple_init" /\ Main /\ cpc = "forked" /\ cpc' = "pause"
         /\ UNCHANGED <<cprog, kid, created, pendingChld, blockedChld, hpc, numLiveChildren, numDead, sysVars>>

Paused == /\ Main /\ cpc = "paused" /\ cpc' = "prompt"
          /\ UNCHANGED <<cprog, kid, created, pendingChld, blockedChld, hpc, numLiveChildren, numDead, sysVars>>

ChildrenNext == \/ Start \/ (\E k \in All : Exit(k)) \/ ForkChild \/ ForkFails \/ Handler \/ child_handler \/ Deliver
        \/ Suspend \/ Wait \/ SystemCall \/ Ignore \/ (cprog = "system" /\ (SysFork \/ Waitpid)) \/ simple_system \/ SysChild
        \/ Interrupt \/ RestoreSignals
        \/ Command \/ Pause \/ Paused

ChildrenSpec == ChildrenInit /\ [][ChildrenNext]_chVars

---------------------------------------------------------------------------
Left == {k \in Kids : kid[k] # "reaped"}
Gone == {k \in Kids : kid[k] = "reaped"}

(* No zombie is forgotten: while SIGCHLD is neither pending nor being handled every
   child that has ended has been reaped, although several may share one signal;
   numLiveChildren counts exactly the others, and a parent that has ended normally
   has waited for all of them (multi_SIGCHLD.c:43, multi_wait.c:61). *)
NoForgottenZombie ==
    /\ cprog \in {"multi_SIGCHLD", "simple_init"} /\ ~pendingChld /\ hpc = "out" => Zombies = {}
    /\ cprog = "multi_SIGCHLD" => numLiveChildren = Cardinality(Left)
    /\ cprog \in {"multi_SIGCHLD", "multi_wait"} /\ cpc = "exited" => \A k \in Kids : kid[k] = "reaped"
    /\ cprog = "multi_wait" => numDead = Cardinality(Gone)

(* system() always gets the status of its own child, even though the caller's SIGCHLD
   handler reaps every child it finds; Control-C never ends the caller while it waits
   for the command; and system() leaves the signals as it found them (system.c:42, :93).
   simple_system.c answers exactly if its child is reaped: a child whose waitpid() was
   interrupted is left to the caller, who is told -1 (simple_system.c:38). *)
SystemRight ==
    /\ cprog = "system" =>
         /\ cpc = "returned" /\ kid[Sys] # "unborn" => sysStatus = "exit"
         /\ sysStatus = "error" => kid[Sys] = "unborn"
         /\ cpc # "killed"
         /\ cpc = "returned" => (ignoring <=> callerIgnores) /\ ~blockedChld
    /\ cprog = "simple_system" /\ cpc = "returned" => (sysStatus = "exit" <=> kid[Sys] = "reaped")

(* The parents of procexec/ and of namespaces/ leave no zombie behind, and their
   system() gives the signals back as it found them. *)
ChildrenRight == NoForgottenZombie /\ SystemRight

(* "Will be interrupted by signal handler" (simple_init.c:242): when init waits in
   pause() there is a child left that can end. *)
PauseEnds == cpc = "pause" => pendingChld \/ Running # {}
=============================================================================
