----------------------------- MODULE MultiJoin -----------------------------
(***************************************************************************)
(* threads/thread_multijoin.c: main() creates the threads, then waits on   *)
(* the condition variable threadDied and joins whichever threads have      *)
(* terminated, holding threadMutex while it joins.  A thread announces its *)
(* end under the mutex and signals after releasing it.                     *)
(***************************************************************************)
EXTENDS Naturals, FiniteSets

CONSTANT TotThreads    \* argc - 1: one thread for each argument

ASSUME MjAssumption == TotThreads \in Nat

VARIABLES threadMutex,  \* its holder: a thread, MjMain or MjFree
          tpc,          \* per thread: where it is
          state,        \* thread[idx].state
          mjPc, idx,    \* main(): where it is, its loop index
          numLive, numUnjoined

mjVars == <<threadMutex, tpc, state, mjPc, idx, numLive, numUnjoined>>

MjThreads == 1..TotThreads
MjFree == TotThreads + 1     \* value of threadMutex: nobody holds it
MjMain == 0                  \* value of threadMutex: main() holds it

ThreadPCs == {"none", "sleep", "count", "mark", "unlock", "signal", "end"}
MainPCs == {"create", "while", "test", "wait", "woken", "reap", "exit", "failed"}

MjTypeOK == /\ threadMutex \in 0..MjFree
            /\ tpc \in [MjThreads -> ThreadPCs]
            /\ state \in [MjThreads -> {"TS_ALIVE", "TS_TERMINATED", "TS_JOINED"}]
            /\ mjPc \in MainPCs
            /\ idx \in 1..(TotThreads + 1)
            /\ numLive \in 0..TotThreads /\ numUnjoined \in 0..TotThreads

MjInit == /\ threadMutex = MjFree
          /\ tpc = [t \in MjThreads |-> "none"]
          /\ state = [t \in MjThreads |-> "TS_ALIVE"]    \* calloc() zeroes the array
          /\ mjPc = "create" /\ idx = 1
          /\ numLive = 0 /\ numUnjoined = 0

MjGo(t, from, to) == tpc[t] = from /\ tpc' = [tpc EXCEPT ![t] = to]

----------------------------------------------------------------------------
\* BUG: the thread updates the table without taking the mutex.
MutThreadLock(t) == /\ MjGo(t, "sleep", "count")
                    /\ UNCHANGED <<threadMutex, state, mjPc, idx, numLive, numUnjoined>>

\* threadFunc(): its work is done, pthread_mutex_lock() succeeds.
ThreadLock(t) == /\ threadMutex = MjFree /\ threadMutex' = t
                 /\ MjGo(t, "sleep", "count")
                 /\ UNCHANGED <<state, mjPc, idx, numLive, numUnjoined>>

ThreadCount(t) == /\ MjGo(t, "count", "mark")
                  /\ numUnjoined' = numUnjoined + 1
                  /\ UNCHANGED <<threadMutex, state, mjPc, idx, numLive>>

ThreadMark(t) == /\ MjGo(t, "mark", "unlock")
                 /\ state' = [state EXCEPT ![t] = "TS_TERMINATED"]
                 /\ UNCHANGED <<threadMutex, mjPc, idx, numLive, numUnjoined>>

\* BUG: no pthread_cond_signal() after the unlock.
MutThreadUnlock(t) == /\ threadMutex' = MjFree
                      /\ MjGo(t, "unlock", "end")
                      /\ UNCHANGED <<state, mjPc, idx, numLive, numUnjoined>>

ThreadUnlock(t) == /\ threadMutex' = MjFree
                   /\ MjGo(t, "unlock", "signal")
                   /\ UNCHANGED <<state, mjPc, idx, numLive, numUnjoined>>

\* pthread_cond_signal() wakes main() if it waits; otherwise nothing happens.
ThreadSignal(t) == /\ MjGo(t, "signal", "end")
                   /\ mjPc' = IF mjPc = "wait" THEN "woken" ELSE mjPc
                   /\ UNCHANGED <<threadMutex, state, idx, numLive, numUnjoined>>

MjThread(t) == ThreadLock(t) \/ ThreadCount(t) \/ ThreadMark(t) \/ ThreadUnlock(t) \/ ThreadSignal(t)

----------------------------------------------------------------------------
\* main(): pthread_create() for each argument; numLive is set after the loop.
MjCreate == /\ mjPc = "create" /\ idx <= TotThreads
            /\ MjGo(idx, "none", "sleep")
            /\ idx' = idx + 1
            /\ UNCHANGED <<threadMutex, state, mjPc, numLive, numUnjoined>>

\* calloc() or pthread_create() fails: the process ends.
MjCreateFails == /\ mjPc = "create" /\ idx <= TotThreads
                 /\ mjPc' = "failed"
                 /\ UNCHANGED <<threadMutex, tpc, state, idx, numLive, numUnjoined>>

MjCreated == /\ mjPc = "create" /\ idx > TotThreads
             /\ numLive' = TotThreads
             /\ mjPc' = "while"
             /\ UNCHANGED <<threadMutex, tpc, state, idx, numUnjoined>>

WhileLive == /\ mjPc = "while"
             /\ \/ numLive > 0 /\ threadMutex = MjFree /\ threadMutex' = MjMain /\ mjPc' = "test"
                \/ numLive = 0 /\ mjPc' = "exit" /\ UNCHANGED threadMutex
             /\ UNCHANGED <<tpc, state, idx, numLive, numUnjoined>>

\* while (numUnjoined == 0) pthread_cond_wait(): release and wait atomically.
Test == /\ mjPc = "test"
        /\ \/ numUnjoined = 0 /\ mjPc' = "wait" /\ threadMutex' = MjFree /\ UNCHANGED idx
           \/ numUnjoined > 0 /\ mjPc' = "reap" /\ idx' = 1 /\ UNCHANGED threadMutex
        /\ UNCHANGED <<tpc, state, numLive, numUnjoined>>

\* The wait may end without a signal (POSIX allows spurious wake-ups).
MjSpuriousWakeup == /\ mjPc = "wait" /\ mjPc' = "woken"
                    /\ UNCHANGED <<threadMutex, tpc, state, idx, numLive, numUnjoined>>

Reacquire == /\ mjPc = "woken" /\ threadMutex = MjFree
             /\ threadMutex' = MjMain /\ mjPc' = "test"
             /\ UNCHANGED <<tpc, state, idx, numLive, numUnjoined>>

\* One iteration of the for loop; pthread_join() waits for the thread's end.
Reap == /\ mjPc = "reap" /\ idx <= TotThreads
        /\ \/ /\ state[idx] = "TS_TERMINATED" /\ tpc[idx] = "end"
              /\ state' = [state EXCEPT ![idx] = "TS_JOINED"]
              /\ numLive' = numLive - 1 /\ numUnjoined' = numUnjoined - 1
           \/ state[idx] # "TS_TERMINATED" /\ UNCHANGED <<state, numLive, numUnjoined>>
        /\ idx' = idx + 1
        /\ UNCHANGED <<threadMutex, tpc, mjPc>>

ReapDone == /\ mjPc = "reap" /\ idx > TotThreads
            /\ threadMutex' = MjFree /\ mjPc' = "while"
            /\ UNCHANGED <<tpc, state, idx, numLive, numUnjoined>>

MainStep == MjCreate \/ MjCreated \/ WhileLive \/ Test \/ Reacquire \/ Reap \/ ReapDone

MjEnded == mjPc \in {"exit", "failed"}

MjNext == \/ /\ ~MjEnded
             /\ MainStep \/ MjCreateFails \/ MjSpuriousWakeup \/ \E t \in MjThreads : MjThread(t)
          \/ MjEnded /\ UNCHANGED mjVars

MjSpec == MjInit /\ [][MjNext]_mjVars
\* Runnable threads are scheduled; the mutex is granted to each waiter in the
\* end (SF), since main() may take it any number of times after spurious
\* wake-ups.  Spurious wake-ups themselves are never assumed to happen.
MjFairSpec == /\ MjSpec /\ SF_mjVars(MainStep)
              /\ \A t \in MjThreads : SF_mjVars(~MjEnded /\ MjThread(t))

----------------------------------------------------------------------------
In(s) == {t \in MjThreads : state[t] = s}

\* Whenever the mutex is free the counters agree with the thread table:
\* numUnjoined counts the TS_TERMINATED threads, and after the creation loop
\* numLive those not yet joined (the comments at thread_multijoin.c:38-42).
CountsAgree == threadMutex = MjFree =>
    /\ numUnjoined = Cardinality(In("TS_TERMINATED"))
    /\ mjPc \notin {"create", "failed"} => numLive = TotThreads - Cardinality(In("TS_JOINED"))

\* No lost wake-up: main() waits while a thread is unjoined only if some thread
\* has yet to signal.  The signal is sent after the unlock, so this depends on
\* the test and the wait being one critical section.
MjNoLostWakeup == mjPc = "wait" /\ numUnjoined > 0 =>
      \E t \in MjThreads : tpc[t] \in {"mark", "unlock", "signal"}

\* Joining while holding the mutex cannot block on a thread that needs it: a
\* thread main() is about to join has passed its own critical section.
JoinNeedsNoMutex == mjPc = "reap" =>
    \A t \in MjThreads : state[t] = "TS_TERMINATED" => tpc[t] \in {"signal", "end"}

\* The counters agree with the table of threads whenever the mutex is free, no
\* wake-up of main() is lost, and main() joins, with the mutex held, only
\* threads that no longer need it.
JoinRight == MjTypeOK /\ CountsAgree /\ MjNoLostWakeup /\ JoinNeedsNoMutex

\* The program does end.
MjTerminates == <>MjEnded
=============================================================================
