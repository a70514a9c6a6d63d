--------------------------- MODULE ThreadsProofs ---------------------------
(***************************************************************************)
(* Proofs about the two one_time_init() functions, thread_multijoin.c and  *)
(* the producers and consumer of prod_condvar.c and prod_no_condvar.c, for *)
(* any number of threads, calls and units.  Each has an inductive          *)
(* invariant.                                                              *)
(***************************************************************************)
EXTENDS OneTimeInit, MultiJoin, ProdCons, FiniteSetTheorems, TLAPS

----------------------------------------------------------------------------
Inside == {"check", "init", "set", "unlock"}

\* The mutex is held by exactly the thread that is between lock and unlock.
OnceExclusion == \A t \in Threads : pc[t] \in Inside <=> mutex = t

\* How far the initialisation is, and which thread carries it.
NotBegun == done = 0 /\ begun = 0 /\ ended = 0 /\ \A t \in Threads : pc[t] \notin {"init", "set"}
Running == done = 0 /\ begun = 1 /\ ended = 0 /\ mutex \in Threads /\ pc[mutex] = "init"
Unflagged == done = 0 /\ begun = 1 /\ ended = 1 /\ mutex \in Threads /\ pc[mutex] = "set"
Flagged == done = 1 /\ begun = 1 /\ ended = 1 /\ \A t \in Threads : pc[t] \notin {"init", "set"}
OncePhase == NotBegun \/ Running \/ Unflagged \/ Flagged

\* A thread that leaves the critical section, or has left it, saw done set.
SawDone == \A t \in Threads : pc[t] = "unlock" \/ calls[t] > 0 => done = 1

\* A call under way is one of the Calls the thread makes.
CallsLeft == \A t \in Threads : pc[t] \in Inside \cup {"lock"} => calls[t] < Calls

OnceInv == TypeOK /\ OnceExclusion /\ OncePhase /\ SawDone /\ CallsLeft

\* The statically initialised control structure satisfies the invariant.
LEMMA OnceInit == Init => OnceInv
  BY OnceAssumption, SMTT(60) DEF Init, OnceInv, TypeOK, OnceExclusion, OncePhase, NotBegun, SawDone, CallsLeft, Threads, PCs,
     Versions, Inside

\* Every step of main() and of the threads keeps the invariant.
LEMMA OnceNext == OnceInv /\ [Next]_vars => OnceInv'
<1> SUFFICES ASSUME OnceInv, [Next]_vars PROVE OnceInv'
  BY SMTT(60)
<1> USE OnceAssumption DEF OnceInv, TypeOK, Threads, PCs, Versions, Inside, OnceExclusion, OncePhase,
        NotBegun, Running, Unflagged, Flagged, SawDone, CallsLeft, Go, control, main
<1>1. CASE Create
  BY <1>1, SMTT(60) DEF Create
<1>2. CASE Join
  BY <1>2, SMTT(60) DEF Join
<1>3. ASSUME NEW t \in Threads, Return(t) PROVE OnceInv'
  BY <1>3, SMTT(60) DEF Return
<1>4. ASSUME NEW t \in Threads, FastPath(t) PROVE OnceInv'
  BY <1>4, SMTT(60) DEF FastPath
<1>5. ASSUME NEW t \in Threads, SlowPath(t) PROVE OnceInv'
  BY <1>5, SMTT(60) DEF SlowPath
<1>6. ASSUME NEW t \in Threads, Lock(t) PROVE OnceInv'
  BY <1>6, SMTT(60) DEF Lock
<1>7. ASSUME NEW t \in Threads, Check(t) PROVE OnceInv'
  BY <1>7, SMTT(60) DEF Check
<1>8. ASSUME NEW t \in Threads, InitReturns(t) PROVE OnceInv'
  <2>1. Running /\ mutex = t
    BY <1>8, SMTT(60) DEF InitReturns
  <2>2. Unflagged'
    BY <1>8, <2>1, SMTT(60) DEF InitReturns
  <2>3. TypeOK' /\ OnceExclusion' /\ SawDone' /\ CallsLeft'
    BY <1>8, SMTT(60) DEF InitReturns
  <2>4. QED
    BY <2>2, <2>3, SMTT(60)
<1>9. ASSUME NEW t \in Threads, SetDone(t) PROVE OnceInv'
  <2>1. Unflagged /\ mutex = t
    BY <1>9, SMTT(60) DEF SetDone
  <2>2. Flagged'
    BY <1>9, <2>1, SMTT(60) DEF SetDone
  <2>3. TypeOK' /\ OnceExclusion' /\ SawDone' /\ CallsLeft'
    BY <1>9, SMTT(60) DEF SetDone
  <2>4. QED
    BY <2>2, <2>3, SMTT(60)
<1>10. ASSUME NEW t \in Threads, Unlock(t) PROVE OnceInv'
  <2>1. Flagged /\ mutex = t
    BY <1>10, SMTT(60) DEF Unlock
  <2>2. Flagged'
    BY <1>10, <2>1, SMTT(60) DEF Unlock
  <2>3. TypeOK' /\ OnceExclusion' /\ CallsLeft'
    BY <1>10, SMTT(60) DEF Unlock
  <2>4. SawDone'
    BY <2>1, <1>10, SMTT(60) DEF Unlock
  <2>5. QED
    BY <2>2, <2>3, <2>4, SMTT(60)
<1>11. CASE UNCHANGED vars
  BY <1>11, SMTT(60) DEF vars
<1>12. QED
  BY <1>1, <1>2, <1>3, <1>4, <1>5, <1>6, <1>7, <1>8, <1>9, <1>10, <1>11, ZenonT(60)
     DEF Next, Thread, Finished

\* Both one_time_init() functions run the init function at most once, and
\* whoever returns from a call returns to an initialised program.
THEOREM OneTimeInitCorrect == Spec => [](TypeOK /\ AtMostOnce /\ ReturnsInitialised)
<1>1. OnceInv => TypeOK /\ AtMostOnce /\ ReturnsInitialised
  BY SMTT(60) DEF OnceInv, OncePhase, NotBegun, Running, Unflagged, Flagged, SawDone, AtMostOnce,
     ReturnsInitialised
<1>2. QED
  BY OnceInit, OnceNext, <1>1, PTL DEF Spec

----------------------------------------------------------------------------
\* threadMutex is held by the thread between its lock and its unlock, or by
\* main() between its own.
MjExclusion == /\ \A t \in MjThreads : tpc[t] \in {"count", "mark", "unlock"} <=> threadMutex = t
               /\ mjPc \in {"test", "reap"} <=> threadMutex = MjMain

\* A thread's entry in the table follows its own steps; only an ended thread is
\* joined, and none before the creation loop is over.
MjTable == \A t \in MjThreads :
    /\ state[t] = "TS_ALIVE" <=> tpc[t] \in {"none", "sleep", "count", "mark"}
    /\ state[t] = "TS_JOINED" => tpc[t] = "end" /\ mjPc \notin {"create", "failed"}

\* The threads numUnjoined counts: those marked TS_TERMINATED and the one that
\* has counted itself and is about to mark itself.
Unjoined == {t \in MjThreads : state[t] = "TS_TERMINATED" \/ tpc[t] = "mark"}
Joined == In("TS_JOINED")
MjCounted == /\ numUnjoined = Cardinality(Unjoined)
             /\ mjPc \notin {"create", "failed"} => numLive = TotThreads - Cardinality(Joined)

MjInv == MjTypeOK /\ MjExclusion /\ MjTable /\ MjCounted /\ MjNoLostWakeup

\* Counting threads of the table.
LEMMA MjFinite == ASSUME NEW S, S \subseteq MjThreads
                  PROVE  IsFiniteSet(S) /\ Cardinality(S) \in 0..TotThreads
<1>1. IsFiniteSet(MjThreads) /\ Cardinality(MjThreads) = TotThreads
  BY MjAssumption, FS_Interval, SMTT(60) DEF MjThreads
<1>2. IsFiniteSet(S) /\ Cardinality(S) <= TotThreads
  BY <1>1, FS_Subset, SMTT(60)
<1>3. QED
  BY <1>2, MjAssumption, FS_CardinalityType, SMTT(60)

\* Before any thread is created the table is empty and nobody holds the mutex.
LEMMA MjInitInv == MjInit => MjInv
<1> SUFFICES ASSUME MjInit PROVE MjInv
  BY SMTT(60)
<1> USE MjAssumption DEF MjInit, MjThreads, MjFree, MjMain
<1>1. MjTypeOK
  BY SMTT(60) DEF MjTypeOK, ThreadPCs, MainPCs
<1>2. Unjoined = {}
  BY SMTT(60) DEF Unjoined
<1>3. MjCounted
  <2>1. Cardinality(Unjoined) = 0
    BY <1>2, FS_EmptySet, ZenonT(60)
  <2>2. QED
    BY <2>1, SMTT(60) DEF MjCounted
<1>4. QED
  BY <1>1, <1>3, SMTT(60) DEF MjInv, MjExclusion, MjTable, MjNoLostWakeup

\* Every step of main() and of the threads of thread_multijoin.c keeps the invariant.
LEMMA MjNextInv == MjInv /\ [MjNext]_mjVars => MjInv'
<1> SUFFICES ASSUME MjInv, [MjNext]_mjVars PROVE MjInv'
  OBVIOUS
<1> USE MjAssumption DEF MjInv, MjTypeOK, MjExclusion, MjTable, MjCounted, MjNoLostWakeup,
        MjThreads, MjFree, MjMain, ThreadPCs, MainPCs, MjGo
<1>1. ASSUME NEW t \in MjThreads, ThreadLock(t) PROVE MjInv'
  <2>1. Unjoined' = Unjoined
    BY <1>1, SMTT(60) DEF ThreadLock, Unjoined
  <2>2. MjCounted'
    BY <1>1, <2>1, SMTT(60) DEF ThreadLock, Joined, In
  <2>3. QED
    BY <1>1, <2>2, SMTT(60) DEF ThreadLock
<1>2. ASSUME NEW t \in MjThreads, ThreadCount(t) PROVE MjInv'
  <2>1. Unjoined' = Unjoined \cup {t} /\ t \notin Unjoined
    BY <1>2, SMTT(60) DEF ThreadCount, Unjoined, Joined, In
  <2>2. MjCounted' /\ numUnjoined' \in 0..TotThreads
    <3>1. Cardinality(Unjoined') = Cardinality(Unjoined) + 1
      <4>1. IsFiniteSet(Unjoined)
        BY MjFinite, SMTT(60) DEF Unjoined
      <4>2. QED
        BY <2>1, <4>1, FS_AddElement, ZenonT(60)
    <3>2. Cardinality(Unjoined') \in 0..TotThreads
      <4>1. Unjoined' \subseteq MjThreads
        BY SMTT(60) DEF Unjoined
      <4>2. QED
        BY <4>1, MjFinite, Zenon
    <3>3. QED
      BY <1>2, <3>1, <3>2, SMTT(60) DEF ThreadCount, Joined, In
  <2>3. QED
    BY <1>2, <2>2, SMTT(60) DEF ThreadCount
<1>3. ASSUME NEW t \in MjThreads, ThreadMark(t) PROVE MjInv'
  <2>1. Unjoined' = Unjoined /\ Joined' = Joined
    BY <1>3, SMTT(60) DEF ThreadMark, Unjoined, Joined, In
  <2>2. MjCounted'
    BY <1>3, <2>1, SMTT(60) DEF ThreadMark
  <2>3. QED
    BY <1>3, <2>2, SMTT(60) DEF ThreadMark
<1>4. ASSUME NEW t \in MjThreads, ThreadUnlock(t) PROVE MjInv'
  <2>1. Unjoined' = Unjoined
    BY <1>4, SMTT(60) DEF ThreadUnlock, Unjoined, Joined, In
  <2>2. MjCounted'
    BY <1>4, <2>1, SMTT(60) DEF ThreadUnlock, Joined, In
  <2>3. QED
    BY <1>4, <2>2, SMTT(60) DEF ThreadUnlock
<1>5. ASSUME NEW t \in MjThreads, ThreadSignal(t) PROVE MjInv'
  <2>1. Unjoined' = Unjoined
    BY <1>5, SMTT(60) DEF ThreadSignal, Unjoined, Joined, In
  <2>2. MjCounted'
    BY <1>5, <2>1, SMTT(60) DEF ThreadSignal, Joined, In
  <2>3. QED
    BY <1>5, <2>2, ZenonT(60) DEF ThreadSignal
<1>6. CASE MjCreate
  <2>1. Unjoined' = Unjoined
    BY <1>6, SMTT(60) DEF MjCreate, Unjoined
  <2>2. MjCounted'
    BY <1>6, <2>1, SMTT(60) DEF MjCreate, Joined, In
  <2>3. QED
    BY <1>6, <2>2, SMTT(60) DEF MjCreate
<1>7. CASE MjCreateFails
  BY <1>7, SMTT(60) DEF MjCreateFails, Unjoined, Joined, In
<1>8. CASE MjCreated
  <2>1. Joined = {}
    BY <1>8, SMTT(60) DEF MjCreated, Joined, In
  <2>2. Unjoined' = Unjoined /\ Joined' = {}
    BY <1>8, <2>1, SMTT(60) DEF MjCreated, Unjoined, Joined, In
  <2>3. MjCounted'
    BY <1>8, <2>2, FS_EmptySet, SMTT(60) DEF MjCreated
  <2>4. QED
    BY <1>8, <2>3, SMTT(60) DEF MjCreated
<1>9. CASE WhileLive
  BY <1>9, SMTT(60) DEF WhileLive, Unjoined, Joined, In
<1>10. CASE Test
  BY <1>10, SMTT(60) DEF Test, Unjoined, Joined, In
<1>11. CASE MjSpuriousWakeup
  BY <1>11, SMTT(60) DEF MjSpuriousWakeup, Unjoined, Joined, In
<1>12. CASE Reacquire
  BY <1>12, SMTT(60) DEF Reacquire, Unjoined, Joined, In
<1>13. CASE Reap
  <2>1. CASE state[idx] # "TS_TERMINATED"
    <3>1. /\ Unjoined' = Unjoined /\ Joined' = Joined
          /\ UNCHANGED <<threadMutex, tpc, state, mjPc, numLive, numUnjoined>>
      BY <1>13, <2>1, SMTT(60) DEF Reap, Unjoined, Joined, In
    <3>2. QED
      BY <1>13, <3>1, SMTT(60) DEF Reap
  <2>2. CASE state[idx] = "TS_TERMINATED"
    <3>0. /\ IsFiniteSet(Unjoined) /\ IsFiniteSet(Joined)
          /\ Cardinality(Unjoined) \in 0..TotThreads
          /\ Cardinality(Unjoined') \in 0..TotThreads
          /\ Cardinality(Joined) \in 0..TotThreads
          /\ Cardinality(Joined') \in 0..TotThreads
      <4>1. /\ Unjoined \subseteq MjThreads /\ Unjoined' \subseteq MjThreads
            /\ Joined \subseteq MjThreads /\ Joined' \subseteq MjThreads
        BY SMTT(60) DEF Unjoined, Joined, In
      <4>2. QED
        BY <4>1, MjFinite, ZenonT(60)
    <3>1. /\ Unjoined' = Unjoined \ {idx} /\ idx \in Unjoined
          /\ Joined' = Joined \cup {idx}
          /\ idx \notin Joined
      BY <1>13, <2>2, SMTT(60) DEF Reap, Unjoined, Joined, In
    <3>2. /\ Cardinality(Unjoined') = Cardinality(Unjoined) - 1
          /\ Cardinality(Unjoined') \in 0..TotThreads
      BY <3>1, <3>0, FS_RemoveElement, Zenon
    <3>3. /\ Cardinality(Joined') = Cardinality(Joined) + 1
          /\ Cardinality(Joined') \in 0..TotThreads
          /\ Cardinality(Joined) \in 0..TotThreads
      BY <3>1, <3>0, FS_AddElement, ZenonT(60)
    <3>4. MjCounted' /\ numUnjoined' \in 0..TotThreads /\ numLive' \in 0..TotThreads
      <4>1. numUnjoined' = numUnjoined - 1 /\ numLive' = numLive - 1 /\ mjPc' = mjPc
        BY <1>13, <2>2, SMTT(60) DEF Reap
      <4>2. mjPc \notin {"create", "failed"}
        BY <1>13, SMTT(60) DEF Reap
      <4>3. numUnjoined = Cardinality(Unjoined) /\ numLive = TotThreads - Cardinality(Joined)
        BY <4>2, SMTT(60)
      <4> HIDE DEF MjInv, MjTypeOK, MjExclusion, MjTable
      <4>4. numUnjoined' = Cardinality(Unjoined') /\ numUnjoined' \in 0..TotThreads
        BY <3>0, <3>2, <4>1, <4>3, SMTT(60)
      <4>5. numLive' = TotThreads - Cardinality(Joined') /\ numLive' \in 0..TotThreads
        <5>1. PICK c \in Nat : c = Cardinality(Joined) /\ c + 1 = Cardinality(Joined')
          BY <3>0, <3>3, SMTT(60)
        <5>2. c + 1 <= TotThreads /\ numLive' = (TotThreads - c) - 1
          BY <3>0, <4>1, <4>3, <5>1, SMTT(60)
        <5>3. (TotThreads - c) - 1 = TotThreads - (c + 1) /\ TotThreads - (c + 1) \in 0..TotThreads
          BY <5>2, SMTT(60)
        <5>4. QED
          BY <5>1, <5>2, <5>3, SMTT(60)
      <4>6. QED
        BY <4>4, <4>5, SMTT(60)
    <3>5. QED
      BY <1>13, <2>2, <3>4, SMTT(60) DEF Reap
  <2>3. QED
    BY <2>1, <2>2, SMTT(60)
<1>14. CASE ReapDone
  BY <1>14, SMTT(60) DEF ReapDone, Unjoined, Joined, In
<1>15. CASE UNCHANGED mjVars
  BY <1>15, SMTT(60) DEF mjVars, Unjoined, Joined, In
<1>16. QED
  BY <1>1, <1>2, <1>3, <1>4, <1>5, <1>6, <1>7, <1>8, <1>9, <1>10, <1>11, <1>12, <1>13, <1>14, <1>15, ZenonT(60)
     DEF MjNext, MainStep, MjThread

\* thread_multijoin.c: for every number of threads, main() joins a thread that has
\* ended and each one once, and no wakeup is lost (thread_multijoin.c:78-96).
THEOREM MultiJoinCorrect == MjSpec => []JoinRight
<1>2. MjInv => JoinRight
  <2> SUFFICES ASSUME MjInv PROVE JoinRight
    BY SMTT(60)
  <2>1. CountsAgree
    <3>1. ASSUME threadMutex = MjFree PROVE Unjoined = In("TS_TERMINATED")
      BY <3>1, MjAssumption, SMTT(60)
         DEF MjInv, MjExclusion, Unjoined, In, MjFree, MjThreads
    <3>2. QED
      BY <3>1, SMTT(60) DEF CountsAgree, MjInv, MjCounted, Joined
  <2>2. JoinNeedsNoMutex
    BY MjAssumption, SMTT(60) DEF JoinNeedsNoMutex, MjInv, MjTypeOK, MjExclusion, MjTable, MjMain, MjThreads, ThreadPCs
  <2>3. QED
    BY <2>1, <2>2, SMTT(60) DEF JoinRight, MjInv
<1>3. QED
  BY MjInitInv, MjNextInv, <1>2, PTL DEF MjSpec

----------------------------------------------------------------------------
(***************************************************************************)
(* The producers: no unit is lost or made up, and main() ends the process  *)
(* only when all have been consumed.  Units are counted as sets of pairs   *)
(* of a producer and a number.                                             *)
(***************************************************************************)
\* mtx is held by the producer between its lock and its unlock, or by main().
PcExclusion == /\ \A p \in Producers : ppc[p] \in {"add", "unlock"} <=> mtx = p
               /\ pcPc \in {"test", "consume", "unlock"} <=> mtx = PcMain

\* A producer makes its units one by one; those not yet created have made none.
PcProducing == \A p \in Producers :
    /\ j[p] \in 0..Units[p]
    /\ ppc[p] \in {"add", "unlock", "signal"} => j[p] < Units[p]
    /\ pcPc \in {"create", "failed"} => (ppc[p] = "none" <=> p >= arg)

\* The units main() has asked for: those of the producers created so far.
Required == {u \in UpTo(Units) : u[1] < arg}
PcRequired == /\ arg \in 1..(NumProducers + 1)
              /\ pcPc \notin {"create", "failed"} => arg = NumProducers + 1
              /\ totRequired = Cardinality(Required)

\* The units made under the mutex are those consumed and those available.
NumMade == [p \in Producers |-> Made(p)]
MadeUnits == UpTo(NumMade)
PcConserved == Cardinality(MadeUnits) = numConsumed + avail

\* done is set only when everything has been consumed, and only then main()
\* exits; before the consumer's loop nothing has been consumed.
PcDone == /\ pcDone => numConsumed >= TotUnits
          /\ pcPc = "exit" => pcDone

\* prod_no_condvar.c never waits.
PcPolling == program = "prod_no_condvar" => pcPc \notin {"test", "wait", "woken"}

PcInv == /\ PcTypeOK /\ PcExclusion /\ PcProducing /\ PcRequired /\ PcConserved
         /\ PcDone /\ PcPolling /\ PcNoLostWakeup

\* The units of producer p are as many as it makes.
LEMMA OwnUnits == ASSUME NEW p, NEW n \in Nat
                  PROVE  /\ IsFiniteSet({p} \X (1..n))
                         /\ Cardinality({p} \X (1..n)) = n
<1>1. IsFiniteSet({p}) /\ Cardinality({p}) = 1
  BY FS_Singleton, SMTT(60)
<1>2. IsFiniteSet(1..n) /\ Cardinality(1..n) = n
  BY FS_Interval, SMTT(60)
<1>3. /\ IsFiniteSet({p} \X (1..n))
      /\ Cardinality({p} \X (1..n)) = Cardinality({p}) * Cardinality(1..n)
  BY <1>1, <1>2, FS_Product, Zenon
<1>4. QED
  BY <1>1, <1>2, <1>3, SMTT(60)

\* Finitely many producers make finitely many units.
LEMMA UpToFinite == ASSUME NEW n \in [Producers -> Nat] PROVE IsFiniteSet(UpTo(n))
<1> DEFINE S == {{p} \X (1..n[p]) : p \in Producers}
           f == [p \in Producers |-> {p} \X (1..n[p])]
<1>1. IsFiniteSet(Producers)
  BY PcAssumption, FS_Interval, SMTT(60) DEF Producers
<1>2. f \in Surjection(Producers, S)
  BY Zenon DEF Surjection
<1>3. IsFiniteSet(S)
  BY <1>1, <1>2, FS_Surjection, SMTT(60)
<1>4. ASSUME NEW T \in S PROVE IsFiniteSet(T)
  <2>1. PICK p \in Producers : T = {p} \X (1..n[p])
    BY SMTT(60)
  <2>2. n[p] \in Nat
    BY SMTT(60)
  <2>3. QED
    BY <2>1, <2>2, OwnUnits, Zenon
<1>5. QED
  BY <1>3, <1>4, FS_UNION, Zenon DEF UpTo

\* A unit is a producer and a number.
LEMMA UpToMember == ASSUME NEW n \in [Producers -> Nat], NEW p \in Producers, NEW i \in Nat
                    PROVE  <<p, i>> \in UpTo(n) <=> i \in 1..n[p]
  BY SMTT(60) DEF UpTo

\* Every unit is made of its two parts.
LEMMA UpToPairs == ASSUME NEW n \in [Producers -> Nat], NEW u \in UpTo(n)
                   PROVE  u[1] \in Producers /\ u[2] \in Nat /\ u = <<u[1], u[2]>>
  BY SMTT(60) DEF UpTo

\* Who makes no more than m makes a subset.
LEMMA UpToSubset == ASSUME NEW n \in [Producers -> Nat], NEW m \in [Producers -> Nat],
                           \A p \in Producers : n[p] <= m[p]
                    PROVE  /\ UpTo(n) \subseteq UpTo(m)
                           /\ Cardinality(UpTo(n)) <= Cardinality(UpTo(m))
                           /\ Cardinality(UpTo(n)) \in Nat /\ Cardinality(UpTo(m)) \in Nat
<1>1. UpTo(n) \subseteq UpTo(m)
  <2> SUFFICES ASSUME NEW u \in UpTo(n) PROVE u \in UpTo(m)
    BY SMTT(60)
  <2>1. PICK p \in Producers, i \in Nat : u = <<p, i>>
    BY UpToPairs, SMTT(60)
  <2>2. i \in 1..n[p]
    BY <2>1, UpToMember, SMTT(60)
  <2>3. i \in 1..m[p]
    BY <2>2, SMTT(60)
  <2>4. QED
    BY <2>1, <2>3, UpToMember, SMTT(60)
<1>2. QED
  BY <1>1, UpToFinite, FS_Subset, FS_CardinalityType, SMTT(60)

\* One more unit of producer q.
LEMMA UpToNext == ASSUME NEW n \in [Producers -> Nat], NEW q \in Producers,
                         NEW m, m = [n EXCEPT ![q] = n[q] + 1]
                  PROVE  Cardinality(UpTo(m)) = Cardinality(UpTo(n)) + 1
<1>1. m \in [Producers -> Nat]
  BY SMTT(60)
<1>2. <<q, n[q] + 1>> \notin UpTo(n)
  BY UpToMember, SMTT(60)
<1>3. UpTo(m) = UpTo(n) \cup {<<q, n[q] + 1>>}
  <2>1. ASSUME NEW u \in UpTo(m) PROVE u \in UpTo(n) \/ u = <<q, n[q] + 1>>
    <3>1. PICK p \in Producers, i \in Nat : u = <<p, i>>
      BY <1>1, UpToPairs, ZenonT(60)
    <3>2. i \in 1..m[p]
      BY <1>1, <3>1, UpToMember, Zenon
    <3>3. i \in 1..n[p] \/ (p = q /\ i = n[q] + 1)
      BY <3>2, SMTT(60)
    <3>4. QED
      BY <3>1, <3>3, UpToMember, SMTT(60)
  <2>2. UpTo(n) \subseteq UpTo(m)
    <3>1. \A p \in Producers : n[p] <= m[p]
      OBVIOUS
    <3>2. QED
      BY <1>1, <3>1, UpToSubset, ZenonT(60)
  <2>3. <<q, n[q] + 1>> \in UpTo(m)
    <3>1. n[q] + 1 \in Nat /\ n[q] + 1 \in 1..m[q]
      BY SMTT(60)
    <3>2. QED
      BY <1>1, <3>1, UpToMember, Zenon
  <2>4. QED
    BY <2>1, <2>2, <2>3, Zenon
<1>4. QED
  BY <1>2, <1>3, UpToFinite, FS_AddElement, ZenonT(60)

\* A producer makes no more than there is in all.
LEMMA UnitsBelow == /\ IsFiniteSet(UpTo(Units)) /\ TotUnits = Cardinality(UpTo(Units))
                    /\ TotUnits \in Nat
                    /\ \A p \in Producers : Units[p] \in Nat /\ Units[p] <= TotUnits
<1>1. Units \in [Producers -> Nat]
  BY PcAssumption, SMTT(60) DEF Producers
<1>2. /\ IsFiniteSet(UpTo(Units)) /\ TotUnits = Cardinality(UpTo(Units))
      /\ TotUnits \in Nat
  BY <1>1, UpToFinite, FS_CardinalityType, SMTT(60) DEF TotUnits
<1>3. ASSUME NEW p \in Producers PROVE Units[p] \in Nat /\ Units[p] <= TotUnits
  <2>1. Units[p] \in Nat
    BY <1>1, SMTT(60)
  <2>2. ({p} \X (1..Units[p])) \in SUBSET UpTo(Units)
    BY SMTT(60) DEF UpTo
  <2>3. Cardinality({p} \X (1..Units[p])) <= Cardinality(UpTo(Units))
    BY <1>2, <2>2, FS_Subset, SMTT(60)
  <2>4. QED
    BY <1>2, <2>1, <2>3, OwnUnits, Zenon
<1>4. QED
  BY <1>2, <1>3, SMTT(60)

\* Before a producer runs nothing is made and nothing is available.
LEMMA PcInitInv == PcInit => PcInv
<1> SUFFICES ASSUME PcInit PROVE PcInv
  OBVIOUS
<1> USE PcAssumption, UnitsBelow DEF PcInit, Producers, PcFree, PcMain
<1>1. PcTypeOK
  <2>1. /\ program \in Programs /\ mtx \in Producers \cup {PcMain, PcFree}
        /\ ppc \in [Producers -> {"none", "loop", "add", "unlock", "signal", "end"}]
        /\ j \in [Producers -> 0..TotUnits]
    BY SMTT(60)
  <2>2. /\ avail \in 0..TotUnits /\ totRequired \in 0..TotUnits
        /\ numConsumed \in 0..TotUnits /\ arg \in Nat
    BY SMTT(60)
  <2>3. pcDone \in BOOLEAN
    BY Zenon
  <2>4. pcPc \in {"create", "lock", "test", "wait", "woken", "consume", "unlock", "exit", "failed"}
    BY Zenon
  <2>5. QED
    BY <2>1, <2>2, <2>3, <2>4, Zenon DEF PcTypeOK
<1>2. NumMade = [p \in Producers |-> 0]
  BY SMTT(60) DEF NumMade, Made
<1>3. MadeUnits = {} /\ Required = {}
  <2>1. MadeUnits = {}
    BY <1>2, SMTT(60) DEF MadeUnits, UpTo
  <2>2. Required = {}
    BY SMTT(60) DEF Required, UpTo
  <2>3. QED
    BY <2>1, <2>2, SMTT(60)
<1>4. PcConserved /\ PcRequired
  BY <1>3, FS_EmptySet, SMTT(60) DEF PcConserved, PcRequired
<1>5. QED
  BY <1>1, <1>4, SMTT(60) DEF PcInv, PcExclusion, PcProducing, PcDone, PcPolling, PcNoLostWakeup

\* What the producers have made stays within what they are to make.
LEMMA MadeBelow == ASSUME PcInv
                   PROVE  /\ NumMade \in [Producers -> Nat]
                          /\ \A p \in Producers : NumMade[p] <= Units[p]
                          /\ MadeUnits \subseteq UpTo(Units)
                          /\ numConsumed + avail <= TotUnits
<1>1. /\ NumMade \in [Producers -> Nat]
      /\ \A p \in Producers : NumMade[p] <= Units[p]
  BY UnitsBelow, SMTT(60) DEF PcInv, PcProducing, NumMade, Made, PcTypeOK
<1>2. Units \in [Producers -> Nat]
  BY PcAssumption, SMTT(60) DEF Producers
<1>3. MadeUnits \subseteq UpTo(Units) /\ Cardinality(MadeUnits) <= Cardinality(UpTo(Units))
  BY <1>1, <1>2, UpToSubset, SMTT(60) DEF MadeUnits
<1>4. QED
  BY <1>1, <1>3, UnitsBelow, SMTT(60) DEF PcInv, PcConserved

\* The steps that change neither the stock nor what main() has asked for.
LEMMA PcQuiet == ASSUME PcInv, UNCHANGED <<arg, totRequired, numConsumed, avail>>, NumMade' = NumMade,
                        pcPc' \notin {"create", "failed"} => arg = NumProducers + 1
                 PROVE  PcRequired' /\ PcConserved'
<1>1. Required' = Required /\ MadeUnits' = MadeUnits
  BY SMTT(60) DEF Required, MadeUnits
<1>2. QED
  BY <1>1, SMTT(60) DEF PcInv, PcRequired, PcConserved

\* Every step of main() and of a producer keeps the invariant.
LEMMA PcNextInv == PcInv /\ [PcNext]_pcVars => PcInv'
<1> SUFFICES ASSUME PcInv, [PcNext]_pcVars PROVE PcInv'
  OBVIOUS
<1> USE PcAssumption, UnitsBelow DEF PcInv, PcTypeOK, PcExclusion, PcProducing, PcDone, PcPolling,
        PcNoLostWakeup, Programs, Producers, PcFree, PcMain, PcGo, mainVars
<1>1. ASSUME NEW p \in Producers, ProdLock(p) PROVE PcInv'
  <2>1. NumMade' = NumMade
    BY <1>1, SMTT(60) DEF ProdLock, NumMade, Made
  <2>2. PcRequired' /\ PcConserved'
    BY <1>1, <2>1, PcQuiet, SMTT(60) DEF ProdLock, PcRequired
  <2>3. PcTypeOK'
    BY <1>1, SMTT(60) DEF ProdLock
  <2>4. PcExclusion'
    BY <1>1, SMTT(60) DEF ProdLock
  <2>5. PcProducing'
    BY <1>1, SMTT(60) DEF ProdLock
  <2>6. PcDone' /\ PcPolling'
    BY <1>1, SMTT(60) DEF ProdLock
  <2>7. PcNoLostWakeup'
    BY <1>1, SMTT(60) DEF ProdLock
  <2>8. QED
    BY <2>2, <2>3, <2>4, <2>5, <2>6, <2>7, ZenonT(60)
<1>2. ASSUME NEW p \in Producers, ProdAdd(p) PROVE PcInv'
  <2>1. NumMade' = [NumMade EXCEPT ![p] = NumMade[p] + 1]
    <3>1. NumMade[p] = j[p] /\ NumMade'[p] = j[p] + 1
      BY <1>2, SMTT(60) DEF ProdAdd, NumMade, Made
    <3>2. \A q \in Producers : q # p => NumMade'[q] = NumMade[q]
      BY <1>2, SMTT(60) DEF ProdAdd, NumMade, Made
    <3>3. DOMAIN NumMade = Producers /\ NumMade' = [q \in Producers |-> NumMade'[q]]
      BY SMTT(60) DEF NumMade
    <3>4. NumMade \in [Producers -> Nat]
      BY MadeBelow, SMTT(60)
    <3>5. QED
      BY <3>1, <3>2, <3>3, <3>4, SMTT(60)
  <2>2. Cardinality(MadeUnits') = Cardinality(MadeUnits) + 1
    BY <2>1, MadeBelow, UpToNext, ZenonT(60) DEF MadeUnits
  <2>3. PcRequired'
    BY <1>2, SMTT(60) DEF ProdAdd, PcRequired, Required
  <2>4. PcConserved'
    BY <1>2, <2>2, SMTT(60) DEF ProdAdd, PcConserved
  <2>5. avail' \in 0..TotUnits
    <3>1. MadeUnits' = UpTo(NumMade')
      BY SMTT(60) DEF MadeUnits
    <3>2. NumMade' \in [Producers -> Nat] /\ \A q \in Producers : NumMade'[q] <= Units[q]
      <4>1. NumMade[p] < Units[p]
        BY <1>2, SMTT(60) DEF ProdAdd, NumMade, Made
      <4>2. QED
        <5>1. /\ NumMade \in [Producers -> Nat]
              /\ \A q \in Producers : NumMade[q] <= Units[q] /\ Units[q] \in Nat
          BY MadeBelow, SMTT(60)
        <5> HIDE DEF PcInv, Producers
        <5>2. NumMade' \in [Producers -> Nat]
          BY <2>1, <5>1, SMTT(60)
        <5>3. \A q \in Producers : NumMade'[q] <= Units[q]
          BY <2>1, <4>1, <5>1, SMTT(60)
        <5>4. QED
          BY <5>2, <5>3, SMTT(60)
    <3>3. Cardinality(MadeUnits') <= TotUnits
      BY <3>1, <3>2, UpToSubset, ZenonT(60)
    <3>4. QED
      BY <1>2, <2>4, <3>3, SMTT(60) DEF ProdAdd, PcConserved
  <2>6. PcTypeOK'
    BY <1>2, <2>5, SMTT(60) DEF ProdAdd
  <2>7. PcExclusion'
    BY <1>2, SMTT(60) DEF ProdAdd
  <2>8. PcProducing'
    BY <1>2, SMTT(60) DEF ProdAdd
  <2>9. PcDone' /\ PcPolling'
    BY <1>2, SMTT(60) DEF ProdAdd
  <2>10. PcNoLostWakeup'
    BY <1>2, SMTT(60) DEF ProdAdd
  <2>11. QED
    BY <2>3, <2>4, <2>5, <2>6, <2>7, <2>8, <2>9, <2>10, ZenonT(60)
<1>3. ASSUME NEW p \in Producers, ProdUnlock(p) PROVE PcInv'
  <2>1. NumMade' = NumMade
    BY <1>3, SMTT(60) DEF ProdUnlock, NumMade, Made
  <2>2. PcRequired' /\ PcConserved'
    BY <1>3, <2>1, PcQuiet, SMTT(60) DEF ProdUnlock, PcRequired
  <2>3. QED
    <3>1. PcTypeOK'
      <4>1. j' \in [Producers -> 0..TotUnits]
        <5>1. j' = j \/ j' = [j EXCEPT ![p] = @ + 1]
          BY <1>3, SMTT(60) DEF ProdUnlock
        <5>2. j[p] \in Nat /\ j[p] < Units[p] /\ Units[p] \in Nat /\ Units[p] <= TotUnits
          BY <1>3, SMTT(60) DEF ProdUnlock
        <5>3. j[p] + 1 \in 0..TotUnits
          BY <5>2, SMTT(60)
        <5>4. j \in [Producers -> 0..TotUnits]
          BY SMTT(60)
        <5> HIDE DEF PcInv, Producers
        <5>5. QED
          BY <5>1, <5>3, <5>4, SMTT(60)
      <4>2. QED
        BY <1>3, <4>1, SMTT(60) DEF ProdUnlock
    <3>2. PcExclusion' /\ PcDone' /\ PcPolling'
      BY <1>3, SMTT(60) DEF ProdUnlock
    <3>3. PcProducing'
      BY <1>3, SMTT(60) DEF ProdUnlock
    <3>4. PcNoLostWakeup'
      BY <1>3, SMTT(60) DEF ProdUnlock
    <3>5. QED
      BY <2>2, <3>1, <3>2, <3>3, <3>4, ZenonT(60)
<1>4. ASSUME NEW p \in Producers, ProdSignal(p) PROVE PcInv'
  <2>1. NumMade' = NumMade
    BY <1>4, SMTT(60) DEF ProdSignal, NumMade, Made
  <2>2. PcRequired' /\ PcConserved'
    BY <1>4, <2>1, PcQuiet, SMTT(60) DEF ProdSignal, PcRequired
  <2>3. PcTypeOK'
    BY <1>4, SMTT(60) DEF ProdSignal
  <2>4. PcExclusion'
    BY <1>4, SMTT(60) DEF ProdSignal
  <2>5. PcProducing'
    BY <1>4, SMTT(60) DEF ProdSignal
  <2>6. PcDone' /\ PcPolling'
    BY <1>4, SMTT(60) DEF ProdSignal
  <2>7. PcNoLostWakeup'
    BY <1>4, SMTT(60) DEF ProdSignal
  <2>8. QED
    BY <2>2, <2>3, <2>4, <2>5, <2>6, <2>7, Zenon
<1>5. ASSUME NEW p \in Producers, ProdReturn(p) PROVE PcInv'
  <2>1. NumMade' = NumMade
    BY <1>5, SMTT(60) DEF ProdReturn, NumMade, Made
  <2>2. PcRequired' /\ PcConserved'
    BY <1>5, <2>1, PcQuiet, SMTT(60) DEF ProdReturn, PcRequired
  <2>3. PcTypeOK'
    BY <1>5, SMTT(60) DEF ProdReturn
  <2>4. PcExclusion'
    BY <1>5, SMTT(60) DEF ProdReturn
  <2>5. PcProducing'
    BY <1>5, SMTT(60) DEF ProdReturn
  <2>6. PcDone' /\ PcPolling'
    BY <1>5, SMTT(60) DEF ProdReturn
  <2>7. PcNoLostWakeup'
    BY <1>5, SMTT(60) DEF ProdReturn
  <2>8. QED
    BY <2>2, <2>3, <2>4, <2>5, <2>6, <2>7, Zenon
<1>6. CASE PcCreate
  <2>1. NumMade' = NumMade
    BY <1>6, SMTT(60) DEF PcCreate, NumMade, Made
  <2>2. PcConserved'
    BY <1>6, <2>1, SMTT(60) DEF PcCreate, PcConserved, MadeUnits
  <2>3. arg \in Producers /\ arg' = arg + 1 /\ totRequired' = totRequired + Units[arg]
    BY <1>6, SMTT(60) DEF PcCreate
  <2>4. Required' = Required \cup ({arg} \X (1..Units[arg]))
    <3>1. ASSUME NEW u PROVE u \in Required' <=> u \in Required \/ u \in {arg} \X (1..Units[arg])
      <4>1. CASE u \in UpTo(Units)
        <5>1. PICK q \in Producers : \E i \in 1..Units[q] : u = <<q, i>>
          BY <4>1, SMTT(60) DEF UpTo
        <5>2. q < arg + 1 <=> q < arg \/ q = arg
          BY <2>3, SMTT(60)
        <5>3. (u \in Required <=> q < arg) /\ (u \in Required' <=> q < arg')
          BY <4>1, <5>1, SMTT(60) DEF Required
        <5>4. u \in {arg} \X (1..Units[arg]) <=> q = arg
          <6>1. PICK i \in 1..Units[q] : u = <<q, i>>
            BY <5>1, SMTT(60)
          <6> HIDE DEF PcInv, Producers
          <6>2. QED
            BY <6>1, SMTT(60)
        <5>5. QED
          BY <2>3, <5>2, <5>3, <5>4, SMTT(60)
      <4>2. CASE u \notin UpTo(Units)
        BY <2>3, <4>2, SMTT(60) DEF Required, UpTo
      <4>3. QED
        BY <4>1, <4>2, SMTT(60)
    <3>2. QED
      BY <3>1, SMTT(60)
  <2>5. Required \cap ({arg} \X (1..Units[arg])) = {}
    BY SMTT(60) DEF Required
  <2>6. /\ IsFiniteSet(Required) /\ Cardinality(Required) \in Nat
        /\ Required' \in SUBSET UpTo(Units)
    BY FS_Subset, FS_CardinalityType, SMTT(60) DEF Required
  <2>7. totRequired' = Cardinality(Required') /\ totRequired' \in 0..TotUnits
    <3>1. Cardinality(Required') = Cardinality(Required) + Units[arg]
      <4>1. Units[arg] \in Nat
        BY <2>3, SMTT(60)
      <4>2. PICK O : O = {arg} \X (1..Units[arg]) /\ IsFiniteSet(O) /\ Cardinality(O) = Units[arg]
        <5>1. /\ IsFiniteSet({arg} \X (1..Units[arg]))
              /\ Cardinality({arg} \X (1..Units[arg])) = Units[arg]
          BY <4>1, OwnUnits, ZenonT(60)
        <5>2. QED
          BY <5>1, Zenon
      <4>3. Cardinality(Required \cup O) = Cardinality(Required) + Cardinality(O) - Cardinality(Required \cap O)
        BY <2>6, <4>2, FS_Union, ZenonT(60)
      <4>4. Cardinality(Required \cap O) = 0
        BY <2>5, <4>2, FS_EmptySet, ZenonT(60)
      <4>5. QED
        BY <2>4, <2>6, <4>1, <4>2, <4>3, <4>4, SMTT(60)
    <3>2. Cardinality(Required') <= TotUnits
      BY <2>6, FS_Subset, SMTT(60)
    <3>3. QED
      BY <2>3, <2>6, <3>1, <3>2, SMTT(60) DEF PcRequired
  <2>8. PcRequired'
    BY <1>6, <2>3, <2>7, SMTT(60) DEF PcCreate, PcRequired
  <2>9. PcTypeOK'
    BY <1>6, <2>7, SMTT(60) DEF PcCreate
  <2>10. PcExclusion' /\ PcDone' /\ PcPolling' /\ PcNoLostWakeup'
    BY <1>6, SMTT(60) DEF PcCreate
  <2>11. PcProducing'
    BY <1>6, SMTT(60) DEF PcCreate, PcRequired
  <2>12. QED
    BY <2>2, <2>8, <2>9, <2>10, <2>11, ZenonT(60)
<1>7. CASE PcCreateFails
  <2>1. NumMade' = NumMade
    BY <1>7, SMTT(60) DEF PcCreateFails, NumMade, Made
  <2>2. PcRequired' /\ PcConserved'
    BY <1>7, <2>1, PcQuiet, SMTT(60) DEF PcCreateFails, PcRequired
  <2>3. QED
    BY <1>7, <2>2, SMTT(60) DEF PcCreateFails
<1>8. CASE PcCreated
  <2>1. NumMade' = NumMade
    BY <1>8, SMTT(60) DEF PcCreated, NumMade, Made
  <2>2. PcRequired' /\ PcConserved'
    BY <1>8, <2>1, PcQuiet, SMTT(60) DEF PcCreated, PcRequired
  <2>3. QED
    BY <1>8, <2>2, SMTT(60) DEF PcCreated
<1>9. CASE ConsLock
  <2>1. NumMade' = NumMade
    BY <1>9, SMTT(60) DEF ConsLock, NumMade, Made
  <2>2. PcRequired' /\ PcConserved'
    BY <1>9, <2>1, PcQuiet, SMTT(60) DEF ConsLock, PcRequired
  <2>3. QED
    BY <1>9, <2>2, SMTT(60) DEF ConsLock
<1>10. CASE ConsTest
  <2>1. NumMade' = NumMade
    BY <1>10, SMTT(60) DEF ConsTest, NumMade, Made
  <2>2. PcRequired' /\ PcConserved'
    BY <1>10, <2>1, PcQuiet, SMTT(60) DEF ConsTest, PcRequired
  <2>3. QED
    BY <1>10, <2>2, SMTT(60) DEF ConsTest
<1>11. CASE PcSpuriousWakeup
  <2>1. NumMade' = NumMade
    BY <1>11, SMTT(60) DEF PcSpuriousWakeup, NumMade, Made
  <2>2. PcRequired' /\ PcConserved'
    BY <1>11, <2>1, PcQuiet, SMTT(60) DEF PcSpuriousWakeup, PcRequired
  <2>3. QED
    BY <1>11, <2>2, SMTT(60) DEF PcSpuriousWakeup
<1>12. CASE ConsReacquire
  <2>1. NumMade' = NumMade
    BY <1>12, SMTT(60) DEF ConsReacquire, NumMade, Made
  <2>2. PcRequired' /\ PcConserved'
    BY <1>12, <2>1, PcQuiet, SMTT(60) DEF ConsReacquire, PcRequired
  <2>3. QED
    BY <1>12, <2>2, SMTT(60) DEF ConsReacquire
<1>13. CASE Consume
  <2>1. NumMade' = NumMade /\ UNCHANGED <<arg, totRequired>> /\ pcPc' \notin {"create", "failed"}
    BY <1>13, SMTT(60) DEF Consume, NumMade, Made
  <2>2. PcRequired'
    BY <1>13, <2>1, SMTT(60) DEF PcRequired, Required, Consume
  <2>3. PcConserved'
    BY <1>13, <2>1, SMTT(60) DEF Consume, PcConserved, MadeUnits
  <2>4. numConsumed' \in 0..TotUnits /\ avail' \in 0..TotUnits
    <3>1. numConsumed + avail <= TotUnits
      BY MadeBelow, SMTT(60)
    <3>2. \/ avail > 0 /\ numConsumed' = numConsumed + 1 /\ avail' = avail - 1
          \/ numConsumed' = numConsumed /\ avail' = avail
      BY <1>13, SMTT(60) DEF Consume
    <3>3. QED
      BY <3>1, <3>2, SMTT(60)
  <2>5. totRequired = TotUnits
    <3>1. Required = UpTo(Units)
      BY <1>13, SMTT(60) DEF Required, PcRequired, Consume, UpTo
    <3>2. QED
      BY <3>1, SMTT(60) DEF PcRequired
  <2>6. pcDone' \in BOOLEAN /\ PcDone'
    <3>1. CASE avail > 0
      <4>1. pcDone' = (numConsumed' >= TotUnits) /\ pcPc' = "consume"
        BY <1>13, <2>5, <3>1, SMTT(60) DEF Consume
      <4>2. (numConsumed' >= TotUnits) \in BOOLEAN
        BY <2>4, SMTT(60)
      <4>3. pcDone' \in BOOLEAN /\ (pcDone' => numConsumed' >= TotUnits) /\ pcPc' # "exit"
        BY <4>1, <4>2, ZenonT(60)
      <4>4. QED
        BY <4>3, ZenonT(60)
    <3>2. CASE avail = 0
      <4>1. pcDone' = pcDone /\ numConsumed' = numConsumed /\ pcPc' = "unlock"
        BY <1>13, <3>2, SMTT(60) DEF Consume
      <4>2. QED
        BY <4>1, SMTT(60)
    <3>3. QED
      BY <3>1, <3>2, SMTT(60)
  <2>7. QED
    BY <1>13, <2>2, <2>3, <2>4, <2>6, SMTT(60) DEF Consume
<1>14. CASE ConsUnlock
  <2>1. NumMade' = NumMade
    BY <1>14, SMTT(60) DEF ConsUnlock, NumMade, Made
  <2>2. PcRequired' /\ PcConserved'
    BY <1>14, <2>1, PcQuiet, SMTT(60) DEF ConsUnlock, PcRequired
  <2>3. QED
    BY <1>14, <2>2, SMTT(60) DEF ConsUnlock
<1>15. CASE UNCHANGED pcVars
  <2>1. NumMade' = NumMade
    BY <1>15, SMTT(60) DEF pcVars, NumMade, Made
  <2>2. PcRequired' /\ PcConserved'
    BY <1>15, <2>1, PcQuiet, SMTT(60) DEF pcVars, PcRequired
  <2>3. QED
    BY <1>15, <2>2, SMTT(60) DEF pcVars
<1>16. QED
  <2> HIDE DEF PcInv
  <2> QED
    BY <1>1, <1>2, <1>3, <1>4, <1>5, <1>6, <1>7, <1>8, <1>9, <1>10, <1>11, <1>12, <1>13, <1>14, <1>15, SMTT(60)
       DEF PcNext, Consumer, Producer

\* Whatever the number of producers and of units.
THEOREM ProdConsCorrect == PcSpec => []ConsumedRight
<1>2. PcInv => ConsumedRight
  <2> SUFFICES ASSUME PcInv PROVE ConsumedRight
    OBVIOUS
  <2>1. Conservation
    BY SMTT(60) DEF PcInv, PcConserved, Conservation, MadeUnits, NumMade
  <2>2. numConsumed <= TotUnits
    BY UnitsBelow, SMTT(60) DEF PcInv, PcTypeOK
  <2>3. ExitWhenAllConsumed
    BY <2>2, UnitsBelow, SMTT(60) DEF PcInv, PcDone, PcTypeOK, ExitWhenAllConsumed
  <2>4. QED
    BY <2>1, <2>3, SMTT(60) DEF ConsumedRight, PcInv
<1>3. QED
  BY PcInitInv, PcNextInv, <1>2, PTL DEF PcSpec
=============================================================================
