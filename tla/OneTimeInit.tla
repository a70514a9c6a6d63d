---------------------------- MODULE OneTimeInit ----------------------------
(***************************************************************************)
(* one_time_init(), the exercise's replacement for pthread_once(), in two  *)
(* versions: exercises/31-.../one_time_init.c tests the volatile flag      *)
(* before it takes the mutex (double-checked locking), and                 *)
(* book-src/threads/one_time_init.c always takes it.  A failing pthread    *)
(* call ends the process; none of these calls fails here.  Memory is       *)
(* sequentially consistent: what init() writes is seen by whoever sees the *)
(* flag, which volatile alone does not promise the reader of the unlocked  *)
(* test.                                                                   *)
(***************************************************************************)
EXTENDS Naturals

CONSTANTS NumThreads,  \* threads main() creates
          Calls        \* calls of one_time_init() each thread makes

ASSUME OnceAssumption == NumThreads \in Nat \ {0} /\ Calls \in Nat \ {0}

VARIABLES version,     \* "checked": the exercise; "locked": the book
          done,        \* control->done, once_control->called
          mutex,       \* the thread that holds the mutex, 0 if none
          pc, calls,   \* per thread: where it is, the calls it has completed
          begun, ended,\* times the init function was entered, has returned
          created, joined  \* main(): threads created and joined so far

vars == <<version, done, mutex, pc, calls, begun, ended, created, joined>>
control == <<done, mutex>>
main == <<created, joined>>

Threads == 1..NumThreads
PCs == {"none", "call", "lock", "check", "init", "set", "unlock", "end"}
Versions == {"checked", "locked"}

TypeOK == /\ version \in Versions
          /\ done \in 0..1
          /\ mutex \in Threads \cup {0}
          /\ pc \in [Threads -> PCs]
          /\ calls \in [Threads -> 0..Calls]
          /\ begun \in Nat /\ ended \in Nat
          /\ created \in 0..NumThreads /\ joined \in 0..NumThreads

Init == /\ version \in Versions
        /\ done = 0 /\ mutex = 0
        /\ pc = [t \in Threads |-> "none"]
        /\ calls = [t \in Threads |-> 0]
        /\ begun = 0 /\ ended = 0
        /\ created = 0 /\ joined = 0

Go(t, from, to) == pc[t] = from /\ pc' = [pc EXCEPT ![t] = to]

----------------------------------------------------------------------------
\* main(): pthread_create(), then pthread_join() in the same order.
Create == /\ created < NumThreads
          /\ created' = created + 1
          /\ Go(created + 1, "none", "call")
          /\ UNCHANGED <<version, control, calls, begun, ended, joined>>

Join == /\ created = NumThreads /\ joined < NumThreads
        /\ pc[joined + 1] = "end"
        /\ joined' = joined + 1
        /\ UNCHANGED <<version, control, pc, calls, begun, ended, created>>

\* The thread function has made all its calls and returns.
Return(t) == /\ calls[t] = Calls
             /\ Go(t, "call", "end")
             /\ UNCHANGED <<version, control, calls, begun, ended, main>>

\* The exercise's unlocked test finds the flag set: the call is complete.
FastPath(t) == /\ version = "checked" /\ done = 1
               /\ pc[t] = "call" /\ calls[t] < Calls
               /\ calls' = [calls EXCEPT ![t] = @ + 1]
               /\ UNCHANGED <<version, control, pc, begun, ended, main>>

SlowPath(t) == /\ version = "checked" => done = 0
               /\ calls[t] < Calls
               /\ Go(t, "call", "lock")
               /\ UNCHANGED <<version, control, calls, begun, ended, main>>

\* BUG: the second test is left out.
MutCheck(t) == /\ Go(t, "check", "init")
               /\ begun' = begun + 1
               /\ UNCHANGED <<version, control, calls, ended, main>>

Lock(t) == /\ mutex = 0
           /\ mutex' = t
           /\ Go(t, "lock", "check")
           /\ UNCHANGED <<version, done, calls, begun, ended, main>>

\* The test under the mutex; (*init)() is entered if it finds the flag clear.
Check(t) == /\ Go(t, "check", IF done = 0 THEN "init" ELSE "unlock")
            /\ begun' = IF done = 0 THEN begun + 1 ELSE begun
            /\ UNCHANGED <<version, control, calls, ended, main>>

\* BUG: the flag is set before the init function has returned.
MutInitReturns(t) == /\ Go(t, "init", "set")
                     /\ done' = 1
                     /\ UNCHANGED <<version, mutex, calls, begun, ended, main>>

InitReturns(t) == /\ Go(t, "init", "set")
                  /\ ended' = ended + 1
                  /\ UNCHANGED <<version, control, calls, begun, main>>

SetDone(t) == /\ Go(t, "set", "unlock")
              /\ done' = 1
              /\ UNCHANGED <<version, mutex, calls, begun, ended, main>>

\* BUG: the call goes round again (as around a trylock) and never returns.
MutUnlock(t) == /\ Go(t, "unlock", "lock")
                /\ mutex' = 0
                /\ UNCHANGED <<version, done, calls, begun, ended, main>>

Unlock(t) == /\ Go(t, "unlock", "call")
             /\ mutex' = 0
             /\ calls' = [calls EXCEPT ![t] = @ + 1]
             /\ UNCHANGED <<version, done, begun, ended, main>>

Thread(t) == \/ Return(t) \/ FastPath(t) \/ SlowPath(t) \/ Lock(t) \/ Check(t)
             \/ InitReturns(t) \/ SetDone(t) \/ Unlock(t)

Finished == joined = NumThreads /\ UNCHANGED vars

Next == Create \/ Join \/ (\E t \in Threads : Thread(t)) \/ Finished

Spec == Init /\ [][Next]_vars
\* Every runnable thread is scheduled; no fairness of the mutex is needed.
FairSpec == Spec /\ WF_vars(Create) /\ WF_vars(Join)
                 /\ \A t \in Threads : WF_vars(Thread(t))

----------------------------------------------------------------------------
\* "We should see this message only once, no matter how many times
\* one_time_init() is called" (book-src/threads/one_time_init.c:56).
AtMostOnce == begun <= 1

\* No call returns before the init function has run to completion: neither the
\* caller on the unlocked fast path nor one that lost the race for the mutex.
ReturnsInitialised == \A t \in Threads : calls[t] > 0 => ended = 1

\* Every thread makes all its calls and main() joins them all.
AllJoined == <>(joined = NumThreads)
=============================================================================
