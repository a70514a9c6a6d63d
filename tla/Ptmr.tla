-------------------------------- MODULE Ptmr --------------------------------
(***************************************************************************)
(* POSIX timers that notify by a realtime signal, or by a thread.          *)
(*   "handler"      timers/ptmr_sigev_signal.c: a handler shows them       *)
(*   "sigwaitinfo"  exercises/23/ptmr_sigev_signal.c: the program blocks   *)
(*                  the signal and accepts it                              *)
(*   "thread"       timers/ptmr_sigev_thread.c: every notification is a    *)
(*                  thread, which counts and tells main()                  *)
(* The kernel queues at most one signal per timer; while it is queued,     *)
(* further expirations are counted as overruns, and timer_getoverrun()     *)
(* returns the count of the signal accepted last.  The C library accepts   *)
(* the signals of the third program, and starts the threads.               *)
(***************************************************************************)
EXTENDS Naturals, FiniteSets, Functions

CONSTANTS Programs,     \* which of the three are run
          NumTimers,    \* argc - 1
          MaxExpire     \* bound on the expirations of one timer

Timers == 1..NumTimers

VARIABLES program, pc,
          handled,      \* is there a handler for TIMER_SIG?
          blocked,      \* is TIMER_SIG blocked, outside the handler?
          armed,        \* timers created and armed so far: 1..armed
          expired,      \* expirations of each timer
          queued,       \* timers whose signal is queued
          overrun,      \* overruns of the queued signal
          getoverrun,   \* overruns of the signal accepted last
          accepting,    \* the timer whose signal is being shown, 0 if none
          shown,        \* expirations of each timer that were shown
          starting,     \* notification threads of each timer that have not counted
          signalling,   \* those between pthread_mutex_unlock() and pthread_cond_signal()
          expireCnt,
          unprinted,    \* history: counted since main() took the mutex, but not printed
          overlap       \* history: has a timer had two threads that had not counted?

threadVars == <<starting, signalling, expireCnt, unprinted, overlap>>
vars == <<program, pc, handled, blocked, armed, expired, queued, overrun, getoverrun,
          accepting, shown, threadVars>>
kernel == <<armed, expired, queued, overrun, getoverrun>>

PerTimer == [Timers -> 0..MaxExpire]

TypeOK == /\ program \in Programs
          /\ pc \in {"sigaction", "arm", "block", "wait", "killed", "failed",
                    "lock", "cond_wait", "asleep", "woken"}
          /\ handled \in BOOLEAN /\ blocked \in BOOLEAN
          /\ armed \in 0..NumTimers /\ queued \subseteq 1..armed
          /\ expired \in PerTimer /\ overrun \in PerTimer /\ getoverrun \in PerTimer
          /\ accepting \in 0..armed /\ shown \in PerTimer /\ starting \in PerTimer
          /\ {signalling, expireCnt} \subseteq Nat /\ {unprinted, overlap} \subseteq BOOLEAN

Init == /\ program \in Programs
        /\ pc = IF program = "handler" THEN "sigaction" ELSE "arm"
        /\ handled = FALSE /\ blocked = (program = "thread")
        /\ armed = 0 /\ queued = {}
        /\ expired = [t \in Timers |-> 0] /\ overrun = [t \in Timers |-> 0]
        /\ getoverrun = [t \in Timers |-> 0]
        /\ accepting = 0 /\ shown = [t \in Timers |-> 0]
        /\ starting = [t \in Timers |-> 0] /\ signalling = 0
        /\ expireCnt = 0 /\ unprinted = FALSE /\ overlap = FALSE

----------------------------------------------------------------------------
\* BUG: the handler is not established.
MutSigaction == /\ pc = "sigaction"
                /\ pc' = "arm"
                /\ UNCHANGED <<program, handled, blocked, kernel, accepting, shown, threadVars>>

Sigaction == /\ pc = "sigaction"
             /\ pc' = "arm" /\ handled' = TRUE
             /\ UNCHANGED <<program, blocked, kernel, accepting, shown, threadVars>>

\* timer_create() and timer_settime() of the next timer; main() does not go on
\* while the handler runs.
Arm == /\ pc = "arm" /\ accepting = 0
       /\ armed' = armed + 1
       /\ pc' = IF armed' < NumTimers THEN "arm"
                ELSE CASE program = "handler" -> "wait"
                       [] program = "sigwaitinfo" -> "block"
                       [] program = "thread" -> "lock"
       /\ UNCHANGED <<program, handled, blocked, expired, queued, overrun, getoverrun, accepting,
                      shown, threadVars>>

\* sigaction(), timer_create() or timer_settime() fails: errExit(), which takes
\* the timers with it.
Fail == /\ pc \in {"sigaction", "arm"} /\ accepting = 0
        /\ pc' = "failed"
        /\ UNCHANGED <<program, handled, blocked, kernel, accepting, shown, threadVars>>

\* sigprocmask(SIG_BLOCK).
Block == /\ pc = "block"
         /\ pc' = "wait" /\ blocked' = TRUE
         /\ UNCHANGED <<program, handled, kernel, accepting, shown, threadVars>>

\* A timer expires.  The default action of the signal ends the process, which
\* takes its timers with it.
Expire(t) ==
    /\ t \in 1..armed /\ expired[t] < MaxExpire /\ pc \notin {"killed", "failed"}
    /\ expired' = [expired EXCEPT ![t] = @ + 1]
    /\ queued' = queued \cup {t}
    /\ overrun' = [overrun EXCEPT ![t] = IF t \in queued THEN @ + 1 ELSE 0]
    /\ pc' = IF handled \/ blocked THEN pc ELSE "killed"
    /\ UNCHANGED <<program, handled, blocked, armed, getoverrun, accepting, shown, threadVars>>

Dequeue(t) == /\ queued' = queued \ {t}
              /\ getoverrun' = [getoverrun EXCEPT ![t] = overrun[t]]

\* The handler is entered (TIMER_SIG is blocked while it runs), or sigwaitinfo()
\* returns: the signal of one timer is dequeued.
Accept(t) == /\ t \in queued /\ accepting = 0 /\ pc # "failed"
             /\ handled \/ (blocked /\ pc = "wait")
             /\ Dequeue(t) /\ accepting' = t
             /\ UNCHANGED <<program, pc, handled, blocked, armed, expired, overrun, shown,
                            threadVars>>

\* BUG: the overruns of the signal now queued are shown.
MutShow == /\ accepting # 0
           /\ shown' = [shown EXCEPT ![accepting] = @ + 1 + overrun[accepting]]
           /\ accepting' = 0
           /\ UNCHANGED <<program, pc, handled, blocked, kernel, threadVars>>

\* The expiration and timer_getoverrun() are shown.
Show == /\ accepting # 0
        /\ shown' = [shown EXCEPT ![accepting] = @ + 1 + getoverrun[accepting]]
        /\ accepting' = 0
        /\ UNCHANGED <<program, pc, handled, blocked, kernel, threadVars>>

----------------------------------------------------------------------------
\* timers/ptmr_sigev_thread.c.
signalVars == <<program, handled, blocked, armed, expired, overrun, accepting, shown>>

\* The library accepts the signal and starts the thread.
Notify(t) == /\ program = "thread" /\ t \in queued /\ pc # "failed"
             /\ Dequeue(t)
             /\ starting' = [starting EXCEPT ![t] = @ + 1]
             /\ overlap' = (overlap \/ starting[t] > 0)
             /\ UNCHANGED <<signalVars, pc, signalling, expireCnt, unprinted>>

\* main() has the mutex from pthread_mutex_lock() on, except in pthread_cond_wait().
MutexFree == pc # "cond_wait"

\* BUG: the overruns are not counted.
MutCount(t) == /\ starting[t] > 0 /\ MutexFree /\ pc # "failed"
               /\ starting' = [starting EXCEPT ![t] = @ - 1]
               /\ expireCnt' = expireCnt + 1
               /\ signalling' = signalling + 1
               /\ unprinted' = (unprinted \/ pc \notin {"arm", "lock"})
               /\ UNCHANGED <<signalVars, pc, queued, getoverrun, overlap>>

\* threadFunc() adds 1 + timer_getoverrun() with the mutex held.
Count(t) == /\ starting[t] > 0 /\ MutexFree /\ pc # "failed"
            /\ starting' = [starting EXCEPT ![t] = @ - 1]
            /\ expireCnt' = expireCnt + 1 + getoverrun[t]
            /\ signalling' = signalling + 1
            /\ unprinted' = (unprinted \/ pc \notin {"arm", "lock"})
            /\ UNCHANGED <<signalVars, pc, queued, getoverrun, overlap>>

\* pthread_cond_signal(), after the mutex was released.
CondSignal == /\ signalling > 0 /\ pc # "failed"
              /\ signalling' = signalling - 1
              /\ pc' = IF pc = "asleep" THEN "woken" ELSE pc
              /\ UNCHANGED <<signalVars, queued, getoverrun, starting, expireCnt, unprinted, overlap>>

\* main() after the timers are armed.
Lock == /\ pc = "lock"
        /\ pc' = "cond_wait"
        /\ UNCHANGED <<signalVars, queued, getoverrun, threadVars>>

CondWait == /\ pc = "cond_wait"
            /\ pc' = "asleep"
            /\ UNCHANGED <<signalVars, queued, getoverrun, threadVars>>

SpuriousWakeup == /\ pc = "asleep"
                  /\ pc' = "woken"
                  /\ UNCHANGED <<signalVars, queued, getoverrun, threadVars>>

\* pthread_cond_wait() returns with the mutex; main() prints and waits again.
PrintCnt == /\ pc = "woken"
            /\ pc' = "cond_wait" /\ unprinted' = FALSE
            /\ UNCHANGED <<signalVars, queued, getoverrun, starting, signalling, expireCnt,
                           overlap>>

NotifyThread == CondSignal \/ \E t \in Timers : Notify(t) \/ Count(t)

----------------------------------------------------------------------------
Process == Sigaction \/ Arm \/ Block \/ Show \/ Lock \/ CondWait \/ PrintCnt
Next == \/ Process \/ Fail \/ NotifyThread \/ SpuriousWakeup
        \/ \E t \in Timers : Expire(t) \/ Accept(t)

Spec == Init /\ [][Next]_vars
\* The process runs; the signal of every timer is delivered: those of one
\* number are delivered in the order in which they were queued.
FairSpec == /\ Spec /\ WF_vars(Process) /\ WF_vars(NotifyThread)
            /\ \A t \in Timers : SF_vars(Accept(t))

----------------------------------------------------------------------------
\* No expiration is lost or shown twice: each was shown, is being shown, or is
\* counted by the queued signal, even if it happens while an earlier signal of
\* the same timer is being handled.
Accounted == program # "thread" => \A t \in Timers :
    expired[t] = shown[t] + (IF accepting = t THEN 1 + getoverrun[t] ELSE 0)
                          + (IF t \in queued THEN 1 + overrun[t] ELSE 0)

\* Every expiration is shown in the end, unless the program ends first: by an
\* error, or, in the exercise only, because a timer expires before its signal is
\* blocked (:117 comes before :124).  The handler of the book's program is there
\* before the first timer, so no expiration ends it.
AllShown == \A t \in Timers, n \in 1..MaxExpire :
    program # "thread" /\ expired[t] >= n
        ~> \/ shown[t] >= n \/ pc = "failed"
           \/ program = "sigwaitinfo" /\ pc = "killed"

\* "Number of expirations of all timers" (ptmr_sigev_thread.c:44): what was
\* counted, what the threads that run will count and what is queued are all the
\* expirations, as long as no timer has had two threads that had not counted:
\* both would then read the overruns of the later notification (:65).
Counted == program = "thread" /\ ~overlap =>
    SumFunction(expired) = expireCnt + SumFunction([t \in Timers |->
        starting[t] * (1 + getoverrun[t]) + (IF t \in queued THEN 1 + overrun[t] ELSE 0)])

\* main() does not sleep on a count it has not printed unless a thread is about
\* to signal.  What was counted before main() took the mutex (:116) is excepted:
\* nobody waited for those signals, and only the next expiration shows it.
MainTold == pc = "asleep" /\ signalling = 0 => ~unprinted

\* main() comes to print a count reached after it took the mutex.
CountPrinted == unprinted ~> ~unprinted
=============================================================================
