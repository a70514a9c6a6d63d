------------------------------ MODULE SemInit ------------------------------
(***************************************************************************)
(* svsem/svsem_good_init.c, run by several processes at once: whoever      *)
(* creates the semaphore initialises it, the others wait until sem_otime   *)
(* says that it was initialised.  All then perform one semop().  (The      *)
(* comparison program svsem_bad_init.c, which does not wait, is one of the *)
(* tools of IpcTools.)                                                     *)
(***************************************************************************)
EXTENDS Integers

CONSTANTS Procs,
          SemOps,       \* sem-op arguments
          MAX_TRIES,
          None

VARIABLES pc, tries,
          op,           \* the sem-op argument of each process
          creator,      \* the process that created the set, None if there is no set
          semval,       \* value of the semaphore (Linux creates it with 0)
          otime,        \* has sem_otime been set?
          total         \* sum of the operations performed

vars == <<pc, tries, op, creator, semval, otime, total>>
set == <<creator, semval, otime, total>>

PCs == {"semget", "setval", "dummy", "semget2", "stat", "semop", "exit", "failed"}

TypeOK == /\ pc \in [Procs -> PCs] /\ tries \in [Procs -> 0..MAX_TRIES]
          /\ op \in [Procs -> SemOps]
          /\ creator \in Procs \cup {None}
          /\ semval \in Nat /\ total \in Int
          /\ otime \in BOOLEAN

Init == /\ pc = [p \in Procs |-> "semget"] /\ tries = [p \in Procs |-> 0]
        /\ op \in [Procs -> SemOps]
        /\ creator = None /\ semval = 0 /\ otime = FALSE /\ total = 0

Go(p, from, to) == pc[p] = from /\ pc' = [pc EXCEPT ![p] = to] /\ UNCHANGED op

----------------------------------------------------------------------------
\* semget(IPC_CREAT | IPC_EXCL) creates the set for one process.
Semget(p) == /\ Go(p, "semget", IF creator = None THEN "setval" ELSE "semget2")
             /\ creator' = IF creator = None THEN p ELSE creator
             /\ UNCHANGED <<tries, semval, otime, total>>

Setval(p) == /\ Go(p, "setval", "dummy")
             /\ semval' = 0
             /\ UNCHANGED <<tries, creator, otime, total>>

\* The "no-op" semop() waits for the value 0 and sets sem_otime.
Dummy(p) == /\ Go(p, "dummy", "semop")
            /\ semval = 0 /\ otime' = TRUE
            /\ UNCHANGED <<tries, creator, semval, total>>

\* semget() without IPC_CREAT: the set exists.
Semget2(p) == /\ Go(p, "semget2", "stat")
              /\ UNCHANGED <<tries, set>>

\* BUG: sem_otime is not looked at, as in svsem_bad_init.c.
MutStat(p) == Go(p, "stat", "semop") /\ UNCHANGED <<tries, set>>

\* BUG: the loop over the tries has no end.
MutStatForever(p) == /\ Go(p, "stat", IF otime THEN "semop" ELSE "stat")
                     /\ UNCHANGED <<tries, set>>

\* One iteration: IPC_STAT, test of sem_otime, sleep(1); fatal() after MAX_TRIES.
Stat(p) == /\ Go(p, "stat", IF otime THEN "semop"
                            ELSE IF tries[p] + 1 = MAX_TRIES THEN "failed" ELSE "stat")
           /\ tries' = [tries EXCEPT ![p] = @ + 1]
           /\ UNCHANGED set

\* semop() with a negative sem-op waits until the value is large enough, with
\* 0 until it is 0.
Semop(p) == /\ Go(p, "semop", "exit")
            /\ IF op[p] = 0 THEN semval = 0 ELSE semval + op[p] >= 0
            /\ semval' = semval + op[p] /\ total' = total + op[p] /\ otime' = TRUE
            /\ UNCHANGED <<tries, creator>>

\* A system call fails, or a signal kills the process.
Die(p) == /\ pc[p] \notin {"exit", "failed"}
          /\ pc' = [pc EXCEPT ![p] = "failed"]
          /\ UNCHANGED <<tries, op, set>>

Step(p) == Semget(p) \/ Setval(p) \/ Dummy(p) \/ Semget2(p) \/ Stat(p) \/ Semop(p)
Next == \E p \in Procs : Step(p) \/ Die(p)

Spec == Init /\ [][Next]_vars
\* The scheduler runs every process.
FairSpec == Spec /\ \A p \in Procs : WF_vars(Step(p))

----------------------------------------------------------------------------
\* "Avoids race conditions" (svsem_good_init.c:15-16): no operation is performed
\* before, and undone by, the initialisation: the value is the sum of all.
NothingLost == semval = total

\* Nobody waits for ever for a creator that died before it told the others:
\* every process comes to its operation or gives up.
NoEndlessWait == \A p \in Procs : pc[p] = "semget" ~> pc[p] \in {"semop", "exit", "failed"}

=============================================================================
