----------------------------- MODULE SigPingPong -----------------------------
(***************************************************************************)
(* A parent and a child that synchronise with the standard signal SIGUSR1. *)
(*   "sigsuspend"   exercises/22/benchmark/sigsuspend.c                    *)
(*   "sigwaitinfo"  exercises/22/benchmark/sigwaitinfo.c                   *)
(*   "sync"         exercises/24/fork_sig_sync.c: the child signals once   *)
(* In the first two the child and the parent signal each other numSigs     *)
(* times.  A standard signal is not queued: sent again while it is pending *)
(* it is lost.  The signal mask is set before fork() and inherited.        *)
(***************************************************************************)
EXTENDS Naturals

CONSTANT numSigs

ASSUME SigsAssumption == numSigs \in Nat \ {0}      \* getInt(..., GN_GT_0)

VARIABLES program,      \* the program that is run
          pc,           \* where the parent and the child are
          blocked,      \* is SIGUSR1 blocked in both, outside sigsuspend()?
          pending,      \* processes with SIGUSR1 pending
          scnt,         \* completed iterations of each loop
          cnt,          \* signals each process caught
          dead          \* processes ended by an error or another signal

vars == <<program, pc, blocked, pending, scnt, cnt, dead>>

Procs == {"parent", "child"}
Other(p) == IF p = "parent" THEN "child" ELSE "parent"
Programs == {"sigsuspend", "sigwaitinfo", "sync"}
PCs == {"sigaction", "block", "fork", "none", "send", "wait", "restore", "exit"}

Rounds == IF program = "sync" THEN 1 ELSE numSigs

TypeOK == /\ program \in Programs
          /\ pc \in [Procs -> PCs]
          /\ blocked \in {0, 1}
          /\ pending \subseteq Procs /\ dead \subseteq Procs
          /\ scnt \in [Procs -> 0..Rounds] /\ cnt \in [Procs -> Nat]

Init == /\ program \in Programs
        /\ pc = [p \in Procs |-> IF p = "child" THEN "none"
                                 ELSE IF program = "sigsuspend" THEN "sigaction" ELSE "block"]
        /\ blocked = 0
        /\ pending = {} /\ dead = {}
        /\ scnt = [p \in Procs |-> 0] /\ cnt = [p \in Procs |-> 0]

Go(p, from, to) == /\ p \notin dead /\ pc[p] = from
                   /\ pc' = [pc EXCEPT ![p] = to]
                   /\ UNCHANGED <<program, dead>>

----------------------------------------------------------------------------
\* sigaction(): comes first in "sigsuspend", after sigprocmask() in "sync".
Sigaction == /\ Go("parent", "sigaction", IF program = "sync" THEN "fork" ELSE "block")
             /\ UNCHANGED <<blocked, pending, scnt, cnt>>

\* BUG: the signal is left unblocked across fork().
MutBlock == /\ Go("parent", "block", IF program = "sync" THEN "sigaction" ELSE "fork")
            /\ UNCHANGED <<blocked, pending, scnt, cnt>>

\* sigprocmask(): "Block the signal before fork(), so that the child doesn't
\* manage to send it to the parent before the parent is ready to catch it".
Block == /\ Go("parent", "block", IF program = "sync" THEN "sigaction" ELSE "fork")
         /\ blocked' = 1
         /\ UNCHANGED <<pending, scnt, cnt>>

Fork == /\ pc["parent"] = "fork" /\ "parent" \notin dead
        /\ pc' = [parent |-> "wait", child |-> "send"]
        /\ UNCHANGED <<program, blocked, pending, scnt, cnt, dead>>

\* Where a loop goes on when n iterations were complete before this one.
NextIter(n, first) == IF n + 1 < Rounds THEN first ELSE "exit"

\* kill(): the blocked signal is made pending.  (All three programs block it;
\* otherwise the handler could run before the target waits.)
Kill(o) == IF blocked = 1
           THEN pending' = pending \cup {o} /\ UNCHANGED cnt
           ELSE pending' = pending /\ cnt' = [cnt EXCEPT ![o] = @ + 1]

\* BUG: the child does not wait for the parent's answer.
MutChildSend == /\ Go("child", "send", NextIter(scnt["child"], "send"))
                /\ Kill("parent")
                /\ scnt' = [scnt EXCEPT !["child"] = @ + 1]
                /\ UNCHANGED blocked

\* The child's kill(getppid(), SIGUSR1), while the parent lives; in "sync" the
\* child then exits.
ChildSend == /\ "parent" \notin dead
             /\ IF program = "sync"
                THEN Go("child", "send", "exit") /\ scnt' = [scnt EXCEPT !["child"] = 1]
                ELSE Go("child", "send", "wait") /\ UNCHANGED scnt
             /\ Kill("parent")
             /\ UNCHANGED blocked

\* BUG: the wait ends without a signal.
MutCaught(p) == /\ pending' = pending \ {p}
                /\ cnt' = [cnt EXCEPT ![p] = @ + 1]
                /\ UNCHANGED blocked

\* sigsuspend() returns EINTR after the handler caught a pending signal;
\* sigwaitinfo() takes it from the pending set and the program counts it.
Caught(p) == /\ p \in pending
             /\ pending' = pending \ {p}
             /\ cnt' = [cnt EXCEPT ![p] = @ + 1]
             /\ UNCHANGED blocked

ChildWait == /\ Go("child", "wait", NextIter(scnt["child"], "send"))
             /\ Caught("child")
             /\ scnt' = [scnt EXCEPT !["child"] = @ + 1]

ParentWait == /\ Go("parent", "wait", IF program = "sync" THEN "restore" ELSE "send")
              /\ Caught("parent")
              /\ UNCHANGED scnt

\* kill(childPid, SIGUSR1): a child that has died is a zombie, the call
\* succeeds and the signal is discarded.
ParentSend == /\ Go("parent", "send", NextIter(scnt["parent"], "wait"))
              /\ IF "child" \in dead THEN UNCHANGED <<pending, cnt>> ELSE Kill("child")
              /\ scnt' = [scnt EXCEPT !["parent"] = @ + 1]
              /\ UNCHANGED blocked

\* "sync": the parent returns the mask to its original state and exits.
Restore == /\ Go("parent", "restore", "exit")
           /\ blocked' = 0
           /\ UNCHANGED <<pending, scnt, cnt>>

\* A system call fails and errExit() ends the process (the child's kill() once
\* its parent is gone, fork()), or another signal kills it.
Die(p) == /\ pc[p] \notin {"none", "exit"} /\ p \notin dead
          /\ dead' = dead \cup {p}
          /\ UNCHANGED <<program, pc, blocked, pending, scnt, cnt>>

Parent == Sigaction \/ Block \/ Fork \/ ParentWait \/ ParentSend \/ Restore
Child == ChildSend \/ ChildWait
Next == Parent \/ Child \/ \E p \in Procs : Die(p)

Spec == Init /\ [][Next]_vars
\* The scheduler runs both processes.
FairSpec == Spec /\ WF_vars(Parent) /\ WF_vars(Child)

----------------------------------------------------------------------------
\* No signal is lost by coalescing: a process is about to send only when no
\* earlier signal is pending for its peer (kill() at sigsuspend.c:72 and :84).
NoCoalescing == \A p \in Procs : pc[p] = "send" => Other(p) \notin pending

\* "Alternately send signals to each other (the child starts first)"
\* (sigsuspend.c:7-8): the parent has caught as many as the child, or one more.
Alternate == cnt["parent"] \in {cnt["child"], cnt["child"] + 1}

\* A process that has finished its loop caught one signal per iteration: none
\* was lost, none caught before the process waited for it.
AllCaught == \A p \in Procs : pc[p] = "exit" /\ ~(program = "sync" /\ p = "child") =>
                 cnt[p] = Rounds

\* Nobody signals a peer that has already exited: the child's getppid() is its
\* parent (sigsuspend.c:72), the parent's childPid is not gone.
PeerIsThere == \A p \in Procs : pc[p] = "send" => pc[Other(p)] # "exit"

\* The parent of fork_sig_sync.c goes on only after the child's work is done.
ParentAfterChild ==
    program = "sync" /\ pc["parent"] \in {"restore", "exit"} => pc["child"] = "exit"

\* If neither dies, both finish.
BothFinish == <>(dead # {} \/ \A p \in Procs : pc[p] = "exit")
=============================================================================
