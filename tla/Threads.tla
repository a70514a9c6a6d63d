------------------------------ MODULE Threads ------------------------------
(***************************************************************************)
(* The small programs of threads/, psem/thread_incr_psem.c and their       *)
(* rewrites under exercises/29, 30, 31 and 33.  Each has a main() and one  *)
(* thread function: a program is the two lists of calls they make, and the *)
(* Pthreads calls are modelled once, from how the programs use them.  The  *)
(* threads interleave at every call; glob is read and written in separate  *)
(* steps.                                                                  *)
(***************************************************************************)
EXTENDS Naturals, Sequences, FiniteSetsExt

CONSTANTS thPrograms,  \* the programs of this instance
          Loops,       \* iterations of each thread
          NThreads     \* threads main() creates where the user says how many

VARIABLES thprog,  \* the program
          th,      \* the threads; 0 is main()
          mem,     \* the variables they share
          over     \* the process has ended

thVars == <<thprog, th, mem, over>>
Threads == 0 .. NThreads

----------------------------------------------------------------------------
(* The calls.                                                              *)

Create(detached) == [op |-> "create", detached |-> detached]
Join(n) == [op |-> "join", n |-> n]
Lock == [op |-> "lock"]
Unlock == [op |-> "unlock"]
Load == [op |-> "load"]
Store == [op |-> "store"]
Loop(n, to) == [op |-> "loop", n |-> n, to |-> to]
Set(v, to) == [op |-> "set", v |-> v, to |-> to]
When(v, to) == [op |-> "when", v |-> v, to |-> to]
Goto(to) == [op |-> "goto", to |-> to]
Consume == [op |-> "consume"]
CondWait == [op |-> "condwait"]
Signal == [op |-> "signal"]
Say == [op |-> "say"]        \* printf(): may be a cancellation point
Sleep == [op |-> "sleep"]
Cancel == [op |-> "cancel"]
Malloc == [op |-> "malloc"]
Push(handler) == [op |-> "push", handler |-> handler]
Free == [op |-> "free"]
Barrier == [op |-> "barrier"]
Once(key) == [op |-> "once", key |-> key]
Buffer(kind, key) == [op |-> "buffer", kind |-> kind, key |-> key]
Format(err) == [op |-> "format", err |-> err]
SigMask(sigs) == [op |-> "sigmask", sigs |-> sigs]
Kill(n, sig) == [op |-> "kill", n |-> n, sig |-> sig]
Fork == [op |-> "fork"]
Return == [op |-> "return"]
Exit == [op |-> "exit"]

Program(main, f) == [main |-> main, f |-> f]

----------------------------------------------------------------------------
(* The programs.                                                           *)

TwoThreads == <<Create(FALSE), Create(FALSE), Join(1), Join(2), Exit>>

(* threads/thread_incr.c: nothing protects glob.  exercises/30             *)
(* thread_incr.c also shows glob after each increment.                     *)
thread_incr == Program(TwoThreads, <<Load, Store, Loop(Loops, 1), Return>>)
thread_incr_ex == Program(TwoThreads, <<Load, Store, Say, Loop(Loops, 1), Return>>)

(* The same protected by a mutex, a read-write lock taken for writing, a   *)
(* spin lock or a semaphore with the value 1.                              *)
Mutthread_incr_mutex ==
    Program(TwoThreads, <<Lock, Load, Unlock, Store, Loop(Loops, 1), Return>>)
thread_incr_mutex == Program(TwoThreads, <<Lock, Load, Store, Unlock, Loop(Loops, 1), Return>>)
thread_incr_rwlock == Program(TwoThreads, <<Lock, Load, Store, Unlock, Loop(Loops, 1), Return>>)
thread_incr_spinlock == Program(TwoThreads, <<Lock, Load, Store, Unlock, Loop(Loops, 1), Return>>)
thread_incr_psem == Program(TwoThreads, <<Lock, Load, Store, Unlock, Loop(Loops, 1), Return>>)

(* threads/thread_lock_speed.c: two inner loops for each time the lock is  *)
(* taken.                                                                  *)
thread_lock_speed ==
    Program(TwoThreads, <<Lock, Load, Store, Load, Store, Unlock, Loop(Loops, 1), Return>>)

(* threads/prod_no_condvar.c: the consumer polls.                          *)
prod_no_condvar ==
    Program(<<Create(FALSE), Create(FALSE), Lock, Consume, Unlock, When("done", 8), Goto(3), Exit>>,
            <<Sleep, Lock, Load, Store, Unlock, Loop(Loops, 1), Return>>)

simple_thread == Program(<<Create(FALSE), Say, Join(1), Exit>>, <<Say, Return>>)
detached_attrib == Program(<<Create(TRUE), Join(1), Exit>>, <<Return>>)

(* exercises/29 self_join.c: the thread waits for itself.                  *)
self_join == Program(<<Create(FALSE), Join(1), Exit>>, <<Join(1), Return>>)

thread_cancel ==
    Program(<<Create(FALSE), Sleep, Cancel, Join(1), Exit>>, <<Say, Say, Sleep, Goto(2)>>)

(* threads/thread_cleanup.c, without an argument and with one.  The        *)
(* handler is calls 9 and 10 of the thread function, run by                *)
(* pthread_cleanup_pop() or by the cancellation.                           *)
Mutcleanup == <<Malloc, Say, Lock, Push(9), When("glob", 8), CondWait, Goto(5), Say, Free, Goto(11), Return>>
cleanup == <<Malloc, Say, Lock, Push(9), When("glob", 8), CondWait, Goto(5), Say, Free, Unlock, Return>>
thread_cleanup_cancel == Program(<<Create(FALSE), Sleep, Cancel, Join(1), Exit>>, cleanup)
thread_cleanup_signal ==
    Program(<<Create(FALSE), Sleep, Lock, Set("glob", 1), Unlock, Signal, Join(1), Exit>>, cleanup)

(* threads/pthread_barrier_demo.c.                                         *)
pthread_barrier_demo ==
    Program(TwoThreads, <<Sleep, Barrier, Loop(Loops, 1), Say, Return>>)

(* threads/strerror_test.c with the three versions of strerror(): one      *)
(* static buffer, one for each thread, one allocated by each thread under  *)
(* a key that the first caller creates.                                    *)
strerror_test(strerror) ==
    Program(strerror \o <<Format("EINVAL"), Create(FALSE), Join(1), Exit>>,
            strerror \o <<Format("EPERM"), Return>>)
strerror == <<Buffer("static", "strerror")>>
strerror_tls == <<Buffer("tls", "strerror")>>
strerror_tsd == <<Once("strerror"), Buffer("tsd", "strerror")>>

(* exercises/31 dirname-basename.c: t_safe_basename() and t_safe_dirname() *)
(* each have a key and, under it, a buffer for every thread.  What they    *)
(* write there is abstracted to the function that wrote it and the thread. *)
t_safe(name) == <<Once(name), Buffer("tsd", name), Format(name), Say>>
dirname_basename ==
    Program(TwoThreads, <<Say, Say>> \o t_safe("basename") \o t_safe("dirname") \o <<Return>>)

(* exercises/33 pending-signals.c and pthread_fork.c.                      *)
pending_signals ==
    Program(<<SigMask({"SIGUSR1"}), Create(FALSE), SigMask({}), SigMask({"SIGUSR2"}), Create(FALSE),
              SigMask({}), Kill(1, "SIGUSR1"), Kill(2, "SIGUSR2"), Join(1), Join(2), Exit>>,
            <<Sleep, Lock, Say, Unlock, Sleep, Say, Return>>)
pthread_fork == Program(TwoThreads, <<Fork, Sleep, Return>>)

Prog ==
    CASE thprog = "thread_incr" -> thread_incr
      [] thprog = "thread_incr_ex" -> thread_incr_ex
      [] thprog = "mutex" -> thread_incr_mutex
      [] thprog = "rwlock" -> thread_incr_rwlock
      [] thprog = "spinlock" -> thread_incr_spinlock
      [] thprog = "psem" -> thread_incr_psem
      [] thprog = "thread_lock_speed" -> thread_lock_speed
      [] thprog = "prod_no_condvar" -> prod_no_condvar
      [] thprog = "simple_thread" -> simple_thread
      [] thprog = "detached_attrib" -> detached_attrib
      [] thprog = "self_join" -> self_join
      [] thprog = "thread_cancel" -> thread_cancel
      [] thprog = "cleanup_cancel" -> thread_cleanup_cancel
      [] thprog = "cleanup_signal" -> thread_cleanup_signal
      [] thprog = "barrier" -> pthread_barrier_demo
      [] thprog = "strerror" -> strerror_test(strerror)
      [] thprog = "strerror_tls" -> strerror_test(strerror_tls)
      [] thprog = "strerror_tsd" -> strerror_test(strerror_tsd)
      [] thprog = "dirname_basename" -> dirname_basename
      [] thprog = "pending_signals" -> pending_signals
      [] thprog = "pthread_fork" -> pthread_fork

Call(t) == IF t = 0 THEN Prog.main[th[t].pc] ELSE Prog.f[th[t].pc]

----------------------------------------------------------------------------
(* Pthreads.                                                               *)

Nobody == NThreads + 1
Keys == {"strerror", "basename", "dirname"}

NoThread ==
    [pc |-> 1, st |-> "none", reg |-> 0, j |-> 0, canc |-> FALSE, handler |-> 0, ret |-> "none",
     detached |-> FALSE, str |-> <<"strerror", Nobody>>, own |-> {}, mask |-> {}, pend |-> {}]

Init ==
    /\ thprog = "none" /\ over = "no"
    /\ th = [t \in Threads |-> NoThread]
    /\ mem = [glob |-> 0, done |-> 0, consumed |-> 0, mtx |-> Nobody, keys |-> {}, bufs |-> 0,
              freed |-> 0, serials |-> 0, text |-> [b \in Keys \X (0 .. Nobody) |-> <<"none", Nobody>>],
              child |-> "none", sigchld |-> FALSE, chldIn |-> Nobody]

Created == {t \in Threads : th[t].st # "none"}

Start(p) ==
    /\ thprog = "none"
    /\ thprog' = p
    /\ th' = [th EXCEPT ![0].st = "run"]
    /\ UNCHANGED <<mem, over>>

At(t, op) == thprog # "none" /\ over = "no" /\ th[t].st = "run" /\ Call(t).op = op
Next1(t) == [th EXCEPT ![t].pc = @ + 1]
Jump(t, to) == [th EXCEPT ![t].pc = to]

(* pthread_create(): the new thread inherits the signal mask.              *)
DoCreate(t) ==
    /\ At(t, "create")
    /\ LET new == Min(Threads \ Created) IN
       th' = [Next1(t) EXCEPT ![new].st = "run", ![new].detached = Call(t).detached,
                              ![new].mask = th[t].mask]
    /\ UNCHANGED <<thprog, mem, over>>

(* pthread_join() fails for a detached thread and for the caller itself,   *)
(* which ends the program.                                                 *)
DoJoin(t) ==
    /\ At(t, "join")
    /\ LET n == Call(t).n IN
       IF th[n].detached \/ n = t
       THEN over' = "failed" /\ UNCHANGED th
       ELSE /\ th[n].st = "ended"
            /\ th' = [Next1(t) EXCEPT ![t].ret = th[n].ret]
            /\ UNCHANGED over
    /\ UNCHANGED <<thprog, mem>>

DoLock(t) ==
    /\ At(t, "lock") /\ mem.mtx = Nobody
    /\ mem' = [mem EXCEPT !.mtx = t]
    /\ th' = Next1(t)
    /\ UNCHANGED <<thprog, over>>

DoUnlock(t) ==
    /\ At(t, "unlock")
    /\ mem' = [mem EXCEPT !.mtx = IF @ = t THEN Nobody ELSE @]
    /\ th' = Next1(t)
    /\ UNCHANGED <<thprog, over>>

(* glob (avail) through a local variable.                                  *)
DoIncrement(t) ==
    /\ \/ At(t, "load") /\ th' = [Next1(t) EXCEPT ![t].reg = mem.glob] /\ UNCHANGED mem
       \/ At(t, "store") /\ th' = Next1(t) /\ mem' = [mem EXCEPT !.glob = th[t].reg + 1]
    /\ UNCHANGED <<thprog, over>>

(* The consumer takes all units there are.                                 *)
DoConsume(t) ==
    /\ At(t, "consume")
    /\ mem' = [mem EXCEPT !.consumed = @ + mem.glob, !.glob = 0,
                          !.done = IF mem.consumed + mem.glob >= 2 * Loops THEN 1 ELSE 0]
    /\ th' = Next1(t)
    /\ UNCHANGED <<thprog, over>>

DoControl(t) ==
    /\ \/ At(t, "goto") /\ th' = Jump(t, Call(t).to) /\ UNCHANGED mem
       \/ At(t, "when") /\ th' = Jump(t, IF mem[Call(t).v] # 0 THEN Call(t).to ELSE th[t].pc + 1)
          /\ UNCHANGED mem
       \/ /\ At(t, "loop")
          /\ th' = [Jump(t, IF th[t].j + 1 < Call(t).n THEN Call(t).to ELSE th[t].pc + 1)
                       EXCEPT ![t].j = @ + 1]
          /\ UNCHANGED mem
       \/ At(t, "set") /\ th' = Next1(t) /\ mem' = [mem EXCEPT ![Call(t).v] = Call(t).to]
       \/ At(t, "push") /\ th' = [Next1(t) EXCEPT ![t].handler = Call(t).handler] /\ UNCHANGED mem
       \/ (At(t, "say") \/ At(t, "sleep")) /\ th' = Next1(t) /\ UNCHANGED mem
    /\ UNCHANGED <<thprog, over>>

(* pthread_cond_wait() lets go of the mutex, and takes it again when the   *)
(* thread has been woken or cancelled.                                     *)
DoCondWait(t) ==
    /\ At(t, "condwait")
    /\ mem' = [mem EXCEPT !.mtx = Nobody]
    /\ th' = [th EXCEPT ![t].st = "wait"]
    /\ UNCHANGED <<thprog, over>>

DoSignal(t) ==
    /\ At(t, "signal")
    /\ LET waiting == {u \in Threads : th[u].st = "wait"} IN
       IF waiting = {} THEN th' = Next1(t)
       ELSE \E u \in waiting : th' = [Next1(t) EXCEPT ![u].st = "woken"]
    /\ UNCHANGED <<thprog, mem, over>>

Wake(t) ==
    /\ over = "no" /\ th[t].st = "woken" /\ mem.mtx = Nobody
    /\ mem' = [mem EXCEPT !.mtx = t]
    /\ th' = [Next1(t) EXCEPT ![t].st = "run"]
    /\ UNCHANGED <<thprog, over>>

(* Cancellation: at the next cancellation point the thread runs its        *)
(* cleanup handler, if there is one, and ends.                             *)
DoCancel(t) ==
    /\ At(t, "cancel")
    /\ th' = [Next1(t) EXCEPT ![1].canc = TRUE]
    /\ UNCHANGED <<thprog, mem, over>>

Cancelled(t) ==
    /\ over = "no" /\ th[t].canc
    /\ \/ (At(t, "say") \/ At(t, "sleep") \/ At(t, "condwait")) /\ UNCHANGED mem
       \/ th[t].st \in {"wait", "woken"} /\ mem.mtx = Nobody /\ mem' = [mem EXCEPT !.mtx = t]
    /\ th' = [th EXCEPT ![t].canc = FALSE, ![t].ret = "PTHREAD_CANCELED",
                        ![t].st = IF th[t].handler = 0 THEN "ended" ELSE "run",
                        ![t].pc = IF th[t].handler = 0 THEN @ ELSE th[t].handler]
    /\ UNCHANGED <<thprog, over>>

DoMemory(t) ==
    /\ \/ At(t, "malloc") /\ mem' = [mem EXCEPT !.bufs = @ + 1]
       \/ At(t, "free") /\ mem' = [mem EXCEPT !.freed = @ + 1]
    /\ th' = Next1(t)
    /\ UNCHANGED <<thprog, over>>

(* pthread_barrier_wait(): the last one frees all, one of them gets        *)
(* PTHREAD_BARRIER_SERIAL_THREAD.                                          *)
DoBarrier(t) ==
    /\ At(t, "barrier")
    /\ LET waiting == {u \in Threads : th[u].st = "wait"} IN
       IF Cardinality(waiting) + 1 < NThreads
       THEN th' = [th EXCEPT ![t].st = "wait"] /\ UNCHANGED mem
       ELSE /\ th' = [u \in Threads |-> IF u \in waiting \cup {t}
                                        THEN [th[u] EXCEPT !.pc = @ + 1, !.st = "run"] ELSE th[u]]
            /\ mem' = [mem EXCEPT !.serials = @ + 1]
    /\ UNCHANGED <<thprog, over>>

(* The buffers: pthread_once() creates the key; a thread that has no value *)
(* under it allocates a buffer and sets it.                                *)
DoOnce(t) ==
    /\ At(t, "once")
    /\ mem' = [mem EXCEPT !.keys = @ \cup {Call(t).key}]
    /\ th' = Next1(t)
    /\ UNCHANGED <<thprog, over>>

DoBuffer(t) ==
    /\ At(t, "buffer")
    /\ LET kind == Call(t).kind
           key == Call(t).key
           new == kind = "tsd" /\ key \in mem.keys \ th[t].own
       IN /\ th' = [Next1(t) EXCEPT ![t].str = <<key, IF kind = "static" THEN Nobody ELSE t>>,
                                    ![t].own = IF new THEN @ \cup {key} ELSE @]
          /\ mem' = [mem EXCEPT !.bufs = IF new THEN @ + 1 ELSE @]
    /\ UNCHANGED <<thprog, over>>

DoFormat(t) ==
    /\ At(t, "format")
    /\ mem' = [mem EXCEPT !.text[th[t].str] = <<Call(t).err, t>>]
    /\ th' = Next1(t)
    /\ UNCHANGED <<thprog, over>>

(* Signals directed at a thread; their default action ends the process.    *)
DoSignals(t) ==
    /\ \/ At(t, "sigmask") /\ th' = [Next1(t) EXCEPT ![t].mask = Call(t).sigs] /\ UNCHANGED over
       \/ /\ At(t, "kill")
          /\ LET n == Call(t).n IN
             /\ th' = IF th[n].st = "ended" THEN Next1(t)
                      ELSE [Next1(t) EXCEPT ![n].pend = @ \cup {Call(t).sig}]
             /\ over' = IF th[n].st = "ended" \/ Call(t).sig \in th[n].mask THEN "no" ELSE "killed"
    /\ UNCHANGED <<thprog, mem>>

(* Thread 1 of pthread_fork.c forks, or fails to and ends the process; the *)
(* SIGCHLD of its child is handled in any thread, which reaps the child    *)
(* and ends that thread's sleep().                                         *)
DoFork(t) ==
    /\ At(t, "fork")
    /\ \/ /\ th' = Next1(t)
          /\ mem' = IF t = 1 THEN [mem EXCEPT !.child = "run"] ELSE mem
          /\ UNCHANGED over
       \/ t = 1 /\ over' = "failed" /\ UNCHANGED <<th, mem>>
    /\ UNCHANGED thprog

ChildEnds ==
    /\ mem.child = "run"
    /\ mem' = [mem EXCEPT !.child = "zombie", !.sigchld = over = "no"]
    /\ UNCHANGED <<thprog, th, over>>

Handler(t) ==
    /\ over = "no" /\ mem.sigchld /\ th[t].st = "run"
    /\ mem' = [mem EXCEPT !.child = "reaped", !.sigchld = FALSE, !.chldIn = t]
    /\ th' = IF Call(t).op = "sleep" THEN Next1(t) ELSE th
    /\ UNCHANGED <<thprog, over>>

(* The end of a thread, with the destructor of each key it has a value     *)
(* for, and of all.                                                        *)
DoReturn(t) ==
    /\ At(t, "return")
    /\ th' = [th EXCEPT ![t].st = "ended", ![t].ret = IF @ = "none" THEN "returned" ELSE @]
    /\ mem' = [mem EXCEPT !.freed = @ + Cardinality(th[t].own)]
    /\ UNCHANGED <<thprog, over>>

DoExit(t) ==
    /\ At(t, "exit")
    /\ over' = "exited"
    /\ UNCHANGED <<thprog, th, mem>>

Next ==
    \/ \E p \in thPrograms : Start(p)
    \/ \E t \in Threads :
          \/ DoCreate(t) \/ DoJoin(t) \/ DoLock(t) \/ DoUnlock(t) \/ DoIncrement(t) \/ DoConsume(t)
          \/ DoControl(t) \/ DoCondWait(t) \/ DoSignal(t) \/ Wake(t) \/ DoCancel(t) \/ Cancelled(t)
          \/ DoMemory(t) \/ DoBarrier(t) \/ DoOnce(t) \/ DoBuffer(t) \/ DoFormat(t) \/ DoSignals(t)
          \/ DoFork(t) \/ Handler(t) \/ DoReturn(t) \/ DoExit(t)
    \/ ChildEnds

Spec == Init /\ [][Next]_thVars

----------------------------------------------------------------------------
(* Increments of glob.  With a mutex, read-write lock, spin lock or        *)
(* semaphore around them none is lost (thread_incr_mutex.c:15-17 and the   *)
(* other versions), also with two increments in one critical section.      *)
(* Without (thread_incr.c:15-17) some may be, but the last value is never  *)
(* above the number of increments nor below two, when each thread makes    *)
(* two.  The polling consumer ends when it has consumed exactly what was   *)
(* produced, and nothing is left (prod_no_condvar.c:87-104).               *)
NoLostIncrement ==
    /\ (over = "exited") =>
          CASE thprog \in {"mutex", "rwlock", "spinlock", "psem"} -> mem.glob = 2 * Loops
            [] thprog = "thread_lock_speed" -> mem.glob = 4 * Loops
            [] thprog \in {"thread_incr", "thread_incr_ex"} ->
                 mem.glob <= 2 * Loops /\ mem.glob >= Min({2, Loops})
            [] OTHER -> TRUE
    /\ (thprog = "prod_no_condvar") =>
          /\ mem.consumed + mem.glob <= 2 * Loops
          /\ (over = "exited") => mem.consumed = 2 * Loops /\ mem.glob = 0

(* The ends of threads.  A cancelled thread ends as PTHREAD_CANCELED       *)
(* (thread_cancel.c:56-59).  Whichever way the thread of thread_cleanup.c  *)
(* ends, the mutex is free and its buffer is freed once, unless it was     *)
(* cancelled in the printf() before the handler was pushed                 *)
(* (thread_cleanup.c:46-52); it does not sleep on once glob is set and     *)
(* main() has signalled.  No thread passes a barrier that another one has  *)
(* not reached, and each barrier has one serial thread                     *)
(* (pthread_barrier_demo.c:62-72).  strerror() of another thread leaves    *)
(* the text of this one alone, in the two thread-safe versions             *)
(* (strerror_test.c:52-53); the results of both functions of               *)
(* dirname-basename.c stay what they were while the thread that asked for  *)
(* them lives, and every buffer of a thread that ended is freed.           *)
(* The threads of pending-signals.c have the one signal sent to them       *)
(* pending and none ends the process (exercises/33 README.md:9-13).  No    *)
(* zombie is left when the SIGCHLD handler has run, in whichever thread    *)
(* (README.md:25-31).                                                      *)
ThreadsRight ==
    /\ (thprog = "thread_cancel" /\ over = "exited") => th[0].ret = "PTHREAD_CANCELED"
    /\ (thprog \in {"cleanup_cancel", "cleanup_signal"}) =>
          /\ mem.freed <= mem.bufs
          /\ (th[1].st = "ended") =>
                /\ mem.mtx # 1
                /\ (mem.freed = mem.bufs \/ th[1].handler = 0)
          /\ (th[1].st = "wait" /\ mem.glob = 1) => th[0].pc <= 6
    /\ (thprog = "barrier") =>
          /\ \A t, u \in 1 .. NThreads :
                th[t].j + (IF th[t].pc = 3 THEN 1 ELSE 0)
                   <= th[u].j + (IF th[u].pc = 3 \/ th[u].st = "wait" THEN 1 ELSE 0)
          /\ (over = "exited") => mem.serials = Loops
    /\ (thprog \in {"strerror_tls", "strerror_tsd"} /\ over = "exited") => mem.text[th[0].str][1] = "EINVAL"
    /\ (thprog = "strerror" /\ over = "exited") => mem.text[th[0].str][1] = "EPERM"
    /\ (thprog = "dirname_basename") =>
          /\ \A t \in 1 .. NThreads :
                /\ th[t].pc > 5 => mem.text[<<"basename", t>>] = <<"basename", t>>
                /\ th[t].pc > 9 => mem.text[<<"dirname", t>>] = <<"dirname", t>>
          /\ (over = "exited") => mem.freed = mem.bufs
    /\ (thprog = "pending_signals") =>
          /\ over # "killed"
          /\ th[1].pend \subseteq {"SIGUSR1"} /\ th[2].pend \subseteq {"SIGUSR2"}
    /\ (mem.child = "zombie" /\ over = "no") => mem.sigchld
    /\ (thprog \in {"detached_attrib", "self_join"}) => over # "exited"

=============================================================================
