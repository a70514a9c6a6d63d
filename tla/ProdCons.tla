------------------------------ MODULE ProdCons ------------------------------
(***************************************************************************)
(* threads/prod_condvar.c and threads/prod_no_condvar.c: producer threads  *)
(* add units to avail under a mutex; main() consumes them, either waiting  *)
(* on a condition variable or polling.                                     *)
(***************************************************************************)
EXTENDS Integers, FiniteSets

CONSTANTS NumProducers, \* argc - 1
          Units         \* Units[p] = atoi(argv[p]): what producer p makes

Producers == 1..NumProducers

ASSUME PcAssumption == NumProducers \in Nat /\ Units \in [Producers -> Nat]

VARIABLES program,      \* which of the two programs runs
          mtx,          \* its holder: a producer, PcMain or PcFree
          ppc, j,       \* per producer: where it is, its loop counter
          avail,        \* units produced and not consumed
          pcPc, arg,    \* main(): where it is, its creation index
          totRequired, numConsumed,
          pcDone        \* done

pcVars == <<program, mtx, ppc, j, avail, pcPc, arg, totRequired, numConsumed, pcDone>>

Programs == {"prod_condvar", "prod_no_condvar"}
PcMain == 0
PcFree == -1
\* The i-th unit of producer p is <<p, i>>.
UpTo(n) == UNION {{p} \X (1..n[p]) : p \in Producers}
TotUnits == Cardinality(UpTo(Units))

PcTypeOK == /\ program \in Programs
            /\ mtx \in Producers \cup {PcMain, PcFree}
            /\ ppc \in [Producers -> {"none", "loop", "add", "unlock", "signal", "end"}]
            /\ j \in [Producers -> 0..TotUnits]
            /\ avail \in 0..TotUnits /\ totRequired \in 0..TotUnits /\ numConsumed \in 0..TotUnits
            /\ pcPc \in {"create", "lock", "test", "wait", "woken", "consume", "unlock", "exit",
                      "failed"}
            /\ arg \in Nat
            /\ pcDone \in BOOLEAN

PcInit == /\ program \in Programs
          /\ mtx = PcFree
          /\ ppc = [p \in Producers |-> "none"]
          /\ j = [p \in Producers |-> 0]
          /\ avail = 0
          /\ pcPc = "create" /\ arg = 1
          /\ totRequired = 0 /\ numConsumed = 0 /\ pcDone = FALSE

PcGo(p, from, to) == ppc[p] = from /\ ppc' = [ppc EXCEPT ![p] = to]
mainVars == <<program, arg, totRequired, numConsumed, pcDone>>

----------------------------------------------------------------------------
\* threadFunc(): one unit has been produced; lock the mutex.
ProdLock(p) == /\ j[p] < Units[p] /\ mtx = PcFree
               /\ PcGo(p, "loop", "add")
               /\ mtx' = p
               /\ UNCHANGED <<mainVars, j, avail, pcPc>>

\* BUG: one signal-worthy flag instead of a count.
MutProdAdd(p) == /\ PcGo(p, "add", "unlock")
                 /\ avail' = 1
                 /\ UNCHANGED <<mainVars, mtx, j, pcPc>>

ProdAdd(p) == /\ PcGo(p, "add", "unlock")
              /\ avail' = avail + 1
              /\ UNCHANGED <<mainVars, mtx, j, pcPc>>

\* prod_no_condvar.c ends the iteration here, prod_condvar.c signals first.
ProdUnlock(p) == /\ PcGo(p, "unlock", IF program = "prod_condvar" THEN "signal" ELSE "loop")
                 /\ mtx' = PcFree
                 /\ j' = IF program = "prod_condvar" THEN j ELSE [j EXCEPT ![p] = @ + 1]
                 /\ UNCHANGED <<mainVars, avail, pcPc>>

\* BUG: the signal is sent only when nothing else is available, judged after
\* the mutex has been released.
MutProdSignal(p) == /\ PcGo(p, "signal", "loop")
                    /\ pcPc' = IF pcPc = "wait" /\ avail = 1 THEN "woken" ELSE pcPc
                    /\ j' = [j EXCEPT ![p] = @ + 1]
                    /\ UNCHANGED <<mainVars, mtx, avail>>

\* pthread_cond_signal(): the consumer is the only thread that can wait.
ProdSignal(p) == /\ PcGo(p, "signal", "loop")
                 /\ pcPc' = IF pcPc = "wait" THEN "woken" ELSE pcPc
                 /\ j' = [j EXCEPT ![p] = @ + 1]
                 /\ UNCHANGED <<mainVars, mtx, avail>>

ProdReturn(p) == /\ j[p] = Units[p]
                 /\ PcGo(p, "loop", "end")
                 /\ UNCHANGED <<mainVars, mtx, j, avail, pcPc>>

Producer(p) == ProdLock(p) \/ ProdAdd(p) \/ ProdUnlock(p) \/ ProdSignal(p) \/ ProdReturn(p)

----------------------------------------------------------------------------
\* main(): one iteration of the creation loop; the first producers run already.
PcCreate == /\ pcPc = "create" /\ arg \in Producers
            /\ totRequired' = totRequired + Units[arg]
            /\ PcGo(arg, "none", "loop")
            /\ arg' = arg + 1
            /\ UNCHANGED <<program, mtx, j, avail, pcPc, numConsumed, pcDone>>

\* pthread_create() fails: errExitEN() ends the process.
PcCreateFails == /\ pcPc = "create" /\ arg \in Producers
                 /\ pcPc' = "failed"
                 /\ UNCHANGED <<mainVars, mtx, ppc, j, avail>>

PcCreated == /\ pcPc = "create" /\ arg \notin Producers
             /\ pcPc' = "lock"
             /\ UNCHANGED <<mainVars, mtx, ppc, j, avail>>

ConsLock == /\ pcPc = "lock" /\ mtx = PcFree
            /\ mtx' = PcMain
            /\ pcPc' = IF program = "prod_condvar" THEN "test" ELSE "consume"
            /\ UNCHANGED <<mainVars, ppc, j, avail>>

\* while (avail == 0) pthread_cond_wait(&cond, &mtx)
ConsTest == /\ pcPc = "test"
            /\ \/ avail = 0 /\ pcPc' = "wait" /\ mtx' = PcFree
               \/ avail > 0 /\ pcPc' = "consume" /\ UNCHANGED mtx
            /\ UNCHANGED <<mainVars, ppc, j, avail>>

PcSpuriousWakeup == /\ pcPc = "wait" /\ pcPc' = "woken"
                    /\ UNCHANGED <<mainVars, mtx, ppc, j, avail>>

ConsReacquire == /\ pcPc = "woken" /\ mtx = PcFree
                 /\ mtx' = PcMain /\ pcPc' = "test"
                 /\ UNCHANGED <<mainVars, ppc, j, avail>>

\* while (avail > 0): consume one unit, or leave the loop.
Consume == /\ pcPc = "consume"
           /\ \/ /\ avail > 0
                 /\ numConsumed' = numConsumed + 1 /\ avail' = avail - 1
                 /\ pcDone' = (numConsumed' >= totRequired)
                 /\ UNCHANGED pcPc
              \/ avail = 0 /\ pcPc' = "unlock" /\ UNCHANGED <<avail, numConsumed, pcDone>>
           /\ UNCHANGED <<program, mtx, ppc, j, arg, totRequired>>

ConsUnlock == /\ pcPc = "unlock"
              /\ mtx' = PcFree
              /\ pcPc' = IF pcDone THEN "exit" ELSE "lock"
              /\ UNCHANGED <<mainVars, ppc, j, avail>>

Consumer == PcCreate \/ PcCreated \/ ConsLock \/ ConsTest \/ ConsReacquire \/ Consume \/ ConsUnlock

PcEnded == pcPc \in {"exit", "failed"}

\* exit() in main() ends the producers too.
PcNext == \/ /\ ~PcEnded
             /\ Consumer \/ PcCreateFails \/ PcSpuriousWakeup \/ \E p \in Producers : Producer(p)
          \/ PcEnded /\ UNCHANGED pcVars

PcSpec == PcInit /\ [][PcNext]_pcVars
\* Runnable threads are scheduled.  The polling consumer of prod_no_condvar.c
\* takes the mutex over and over, so a producer needs the mutex to be granted
\* to it in the end (SF); without that the program need not progress.
PcFairSpec == /\ PcSpec /\ SF_pcVars(Consumer)
              /\ \A p \in Producers : SF_pcVars(~PcEnded /\ Producer(p))

----------------------------------------------------------------------------
Made(p) == j[p] + IF ppc[p] \in {"unlock", "signal"} THEN 1 ELSE 0

\* Units are neither lost nor made up: what the producers have added under the
\* mutex is what has been consumed plus what is available.
Conservation == Cardinality(UpTo([p \in Producers |-> Made(p)])) = numConsumed + avail

\* main() ends the process (and with it the producers) only when every unit
\* has been consumed; done, computed while other producers may be adding, is
\* never premature.
ExitWhenAllConsumed == pcPc = "exit" => numConsumed = TotUnits

\* The consumer sleeps on a non-empty stock only if a signal is on its way.
PcNoLostWakeup == pcPc = "wait" /\ avail > 0 =>
      \E p \in Producers : ppc[p] \in {"unlock", "signal"}

\* Units are neither lost nor made up, the program ends only when all are
\* consumed, and the consumer does not sleep on a stock nobody will signal.
ConsumedRight == PcTypeOK /\ Conservation /\ ExitWhenAllConsumed /\ PcNoLostWakeup

\* The program ends if there is something to consume.  With no units at all
\* done is never set and main() waits or polls for ever (prod_condvar.c:106).
PcTerminates == TotUnits > 0 => <>PcEnded
=============================================================================
