---------------------------- MODULE ProcessesProofs ----------------------------
(***************************************************************************)
(* The programs that exchange signals, and the parents of children.        *)
(*                                                                         *)
(* SigPingPong: the signals of the parent and the child alternate, none is *)
(* lost and none is sent to a peer that is gone, for every number of       *)
(* rounds.  The invariant lists the phases of one round: where the one     *)
(* signal is (on its way to the parent, at the parent, on its way to the   *)
(* child, at the child) and what the four counters are there.              *)
(*                                                                         *)
(* Children: no parent forgets a zombie, and system() gets the status of   *)
(* its own child, for every number of children.  The invariant says what   *)
(* keeps the caller's handler out of system(), and the counters count.     *)
(***************************************************************************)
EXTENDS SigPingPong, Children, FiniteSetTheorems, TLAPS

At(parent, child) == pc["parent"] = parent /\ pc["child"] = child

\* Completed iterations and signals caught, of the parent and the child.
Counts(ps, cs, pn, cn) == /\ scnt["parent"] = ps /\ scnt["child"] = cs
                          /\ cnt["parent"] = pn /\ cnt["child"] = cn

Setup == /\ pc["child"] = "none"
         /\ pc["parent"] \in {"sigaction", "block", "fork"}
         /\ pending = {} /\ Counts(0, 0, 0, 0)
         /\ pc["parent"] = "fork" => blocked = 1
         /\ pc["parent"] = "sigaction" => program = "sigsuspend" \/ blocked = 1

\* In round n, both have completed n iterations, or the parent one more.
Round(n) == \/ At("wait", "send") /\ pending = {} /\ Counts(n, n, n, n)
            \/ At("wait", "wait") /\ pending = {"parent"} /\ Counts(n, n, n, n)
            \/ At("send", "wait") /\ pending = {} /\ Counts(n, n, n + 1, n)
            \/ /\ pc["parent"] = IF n + 1 < Rounds THEN "wait" ELSE "exit"
               /\ pc["child"] = "wait"
               /\ pending = {"child"} \/ (pending = {} /\ "child" \in dead)
               /\ Counts(n + 1, n, n + 1, n)

PingPong == /\ program # "sync" /\ blocked = 1
            /\ \/ scnt["child"] < Rounds /\ Round(scnt["child"])
               \/ At("exit", "exit") /\ pending = {} /\ Counts(Rounds, Rounds, Rounds, Rounds)

Sync == /\ program = "sync"
        /\ \/ At("wait", "send") /\ blocked = 1 /\ pending = {} /\ Counts(0, 0, 0, 0)
           \/ At("wait", "exit") /\ blocked = 1 /\ pending = {"parent"} /\ Counts(0, 1, 0, 0)
           \/ At("restore", "exit") /\ blocked = 1 /\ pending = {} /\ Counts(0, 1, 1, 0)
           \/ At("exit", "exit") /\ blocked = 0 /\ pending = {} /\ Counts(0, 1, 1, 0)

IInv == TypeOK /\ (Setup \/ PingPong \/ Sync)

\* Before fork() the invariant holds.
LEMMA InitIInv == Init => IInv
BY SigsAssumption
   DEF Init, IInv, TypeOK, Programs, PCs, Procs, Rounds, Setup, Counts

\* Every step of the two processes, and their death, preserves it.
LEMMA NextIInv == IInv /\ [Next]_vars => IInv'
<1> SUFFICES ASSUME IInv, [Next]_vars PROVE IInv'
  OBVIOUS
<1> USE SigsAssumption
        DEF IInv, TypeOK, Programs, PCs, Procs, Rounds, Setup, PingPong, Sync, Round, At, Counts
<1>1. CASE Sigaction
  BY <1>1 DEF Sigaction, Go
<1>2. CASE Block
  BY <1>2 DEF Block, Go
<1>3. CASE Fork
  <2>1. pc'["parent"] = "wait" /\ pc'["child"] = "send" /\ pc' \in [Procs -> PCs]
    BY <1>3 DEF Fork
  <2>2. QED
    BY <1>3, <2>1, SMTT(60) DEF Fork
<1>4. CASE ParentWait
  BY <1>4, SMTT(60) DEF ParentWait, Caught, Go
<1>5. CASE ParentSend
  <2>1. /\ PingPong /\ At("send", "wait") /\ pending = {}
        /\ scnt["child"] < Rounds /\ scnt["parent"] = scnt["child"]
        /\ cnt["parent"] = scnt["child"] + 1 /\ cnt["child"] = scnt["child"]
    BY <1>5, SMTT(60) DEF ParentSend, Go
  <2>2. /\ pending' = {"child"} \/ (pending' = {} /\ "child" \in dead')
        /\ pending' \subseteq Procs /\ UNCHANGED cnt
    BY <1>5, <2>1, SMTT(60) DEF ParentSend, Kill, Go
  <2>3. TypeOK'
    BY <1>5, <2>1, <2>2, SMTT(60) DEF ParentSend, NextIter, Go
  <2>4. PingPong'
    BY <1>5, <2>1, <2>2, SMTT(60) DEF ParentSend, NextIter, Go
  <2>5. QED
    BY <2>3, <2>4, SMTT(60)
<1>6. CASE Restore
  BY <1>6, SMTT(60) DEF Restore, Go
<1>7. CASE ChildSend
  <2>1. /\ At("wait", "send") /\ blocked = 1 /\ pending = {} /\ (PingPong \/ Sync)
        /\ scnt["child"] < Rounds
    BY <1>7, SMTT(60) DEF ChildSend, Go
  <2>2. pending' = {"parent"} /\ UNCHANGED cnt
    BY <1>7, <2>1, SMTT(60) DEF ChildSend, Kill
  <2>3. TypeOK'
    <3>1. pc' \in [Procs -> PCs] /\ dead' \subseteq Procs /\ program' = program
      BY <1>7, ZenonT(60) DEF ChildSend, Go
    <3>2. scnt' \in [Procs -> 0..Rounds]
      BY <1>7, <2>1, SMTT(60) DEF ChildSend, Go
    <3>3. QED
      BY <1>7, <2>2, <3>1, <3>2, SMTT(60) DEF ChildSend
  <2>4. CASE program = "sync"
    BY <1>7, <2>1, <2>2, <2>3, <2>4, SMTT(60) DEF ChildSend, Go
  <2>5. CASE program # "sync"
    BY <1>7, <2>1, <2>2, <2>3, <2>5, SMTT(60) DEF ChildSend, Go
  <2>6. QED
    BY <2>4, <2>5, SMTT(60)
<1>8. CASE ChildWait
  BY <1>8, SMTT(60) DEF ChildWait, Caught, NextIter, Go
<1>9. CASE \E p \in Procs : Die(p)
  BY <1>9, SMTT(60) DEF Die
<1>10. CASE UNCHANGED vars
  BY <1>10, SMTT(60) DEF vars
<1>11. QED
  BY <1>1, <1>2, <1>3, <1>4, <1>5, <1>6, <1>7, <1>8, <1>9, <1>10, Zenon DEF Next, Parent, Child

\* No signal coalesces with an earlier one, the two processes alternate, a
\* process that has finished caught a signal per iteration, no signal is sent
\* to a peer that has exited, and the parent of fork_sig_sync.c goes on only
\* after its child.
THEOREM SigPingPongCorrect ==
    Spec => [](TypeOK /\ NoCoalescing /\ Alternate /\ AllCaught /\ PeerIsThere
               /\ ParentAfterChild)
<1>1. IInv => TypeOK /\ NoCoalescing /\ Alternate /\ AllCaught /\ PeerIsThere
                     /\ ParentAfterChild
  BY SigsAssumption, SMTT(60)
     DEF IInv, TypeOK, Procs, Other, Rounds, Setup, PingPong, Sync, Round, At, Counts,
         NoCoalescing, Alternate, AllCaught, PeerIsThere, ParentAfterChild
<1>2. QED
  BY InitIInv, NextIInv, <1>1, PTL DEF Spec

-----------------------------------------------------------------------------
\* The two programs that fork a known number of children and reap them all.
ParentsOfMany == {"multi_SIGCHLD", "multi_wait"}

\* The types, of the state of every child and of the counters.
ChTypeOK == /\ kid \in [All -> {"unborn", "running", "zombie", "reaped"}]
            /\ created \in Nat /\ created <= N
            /\ hpc \in {"out", "in"}
            /\ numLiveChildren \in Int /\ numDead \in Int

\* The signal mask, the pending SIGCHLD and the ignored SIGINT are flags.
ChBooleans == pendingChld \in BOOLEAN /\ blockedChld \in BOOLEAN
              /\ ignoring \in BOOLEAN /\ callerIgnores \in BOOLEAN

\* Nothing has happened before main() starts.
Quiet == cpc = "start" => /\ cprog = "" /\ (\A k \in All : kid[k] = "unborn") /\ created = 0
                          /\ numDead = 0 /\ hpc = "out" /\ sysStatus = "none"

\* Only simple_init adopts an orphan, and children are forked in the order of their numbers.
InOrder == /\ cprog # "simple_init" => kid[Orphan] = "unborn"
           /\ cprog \in ParentsOfMany \cup {"simple_init"} =>
                \A k \in Kids : kid[k] = "unborn" <=> k > created
           /\ cprog \in ParentsOfMany => /\ cpc \in {"fork", "loop", "exited", "failed"}
                                         /\ cpc \in {"loop", "exited"} => created = N

\* multi_wait catches no signal, simple_init forks at its prompt.
InWait == /\ cprog = "multi_wait" => hpc = "out"
          /\ cprog = "simple_init" => cpc # "fork"

\* The answer of system() about its own child, once it has one.
Answered == \/ sysStatus = "exit" /\ kid[Sys] = "reaped"
            \/ sysStatus = "error" /\ kid[Sys] = "unborn"

\* From its first statement to its last, system() keeps SIGCHLD blocked and its
\* caller's handler out, so that nobody else reaps the command.
InSystem ==
    cprog = "system" =>
      /\ N >= 2
      /\ cpc \in {"call", "ignore", "sysfork", "waitpid", "restore", "returned"}
      /\ cpc \in {"call", "ignore", "sysfork"} => kid[Sys] = "unborn" /\ sysStatus = "none"
      /\ cpc \in {"ignore", "sysfork", "waitpid", "restore"} => blockedChld /\ hpc = "out"
      /\ cpc = "waitpid" => kid[Sys] \in {"running", "zombie"} /\ sysStatus = "none"
      /\ cpc \in {"restore", "returned"} => Answered
      /\ cpc \in {"sysfork", "waitpid", "restore"} => ignoring
      /\ cpc = "returned" => (ignoring <=> callerIgnores)
      /\ cpc = "returned" => ~blockedChld

\* The same of simple_system.c, which blocks no signal and has no handler: its
\* waitpid() is for its own child.
InSimple ==
    cprog = "simple_system" =>
      /\ N >= 2
      /\ hpc = "out" /\ cpc \in {"call", "waitpid", "restore", "returned", "killed"}
      /\ cpc = "call" => kid[Sys] = "unborn" /\ sysStatus = "none"
      /\ cpc = "waitpid" => kid[Sys] \in {"running", "zombie"} /\ sysStatus = "none"
      /\ cpc \in {"restore", "returned"} => (sysStatus = "exit" <=> kid[Sys] = "reaped")

\* The inductive invariant of the parents.
ChildrenInv == /\ ChTypeOK /\ ChBooleans /\ Quiet /\ InOrder /\ InWait /\ InSystem /\ InSimple /\ NoForgottenZombie

\* The children of a parent are numbered from 1; the orphan is none of them.
LEMMA KidsFinite == IsFiniteSet(Kids) /\ N \in Nat /\ Kids = 1..N /\ Orphan \in All /\ Kids \subseteq All
                    /\ Orphan \notin Kids /\ Sys \in Nat /\ (N >= 1 => Sys \in Kids) /\ (N >= 2 => 2 \in Kids)
  BY KidsAssumption, FS_Interval DEF All, Sys

\* waitpid() of one zombie: one child less to wait for, one more reaped.
LEMMA Reaping ==
  ASSUME ChTypeOK, NEW k \in Kids, kid[k] = "zombie", kid' = [kid EXCEPT ![k] = "reaped"]
  PROVE  /\ Cardinality(Left') = Cardinality(Left) - 1
         /\ Cardinality(Gone') = Cardinality(Gone) + 1
<1>1. IsFiniteSet(Left) /\ IsFiniteSet(Gone)
  BY KidsFinite, FS_Subset DEF Left, Gone
<1>2. Left' = Left \ {k} /\ k \in Left
  BY KidsFinite DEF Left, ChTypeOK
<1>3. Gone' = Gone \cup {k} /\ k \notin Gone
  BY KidsFinite, SMTT(60) DEF Gone, ChTypeOK
<1> QED BY <1>1, <1>2, <1>3, FS_AddElement, FS_RemoveElement, ZenonT(60)

\* The invariant holds before a program is chosen.
LEMMA ChildrenInitial == ChildrenInit => ChildrenInv
<1> SUFFICES ASSUME ChildrenInit PROVE ChildrenInv
  OBVIOUS
<1>6. kid \in [All -> {"unborn", "running", "zombie", "reaped"}]
  BY DEF ChildrenInit
<1>7. created = 0 /\ numLiveChildren = 0 /\ numDead = 0 /\ hpc = "out"
  BY DEF ChildrenInit
<1>1. ChTypeOK
  BY <1>6, <1>7, KidsFinite DEF ChTypeOK
<1>4. ChBooleans
  BY DEF ChildrenInit, ChBooleans
<1>5. Quiet
  BY DEF ChildrenInit, Quiet
<1>2. InOrder /\ InWait /\ InSystem /\ InSimple
  BY KidsFinite, ZenonT(60) DEF ChildrenInit, InOrder, InWait, InSystem, InSimple, ParentsOfMany
<1>3. NoForgottenZombie
  BY DEF ChildrenInit, NoForgottenZombie
<1> QED BY <1>1, <1>2, <1>3, <1>4, <1>5 DEF ChildrenInv

\* Every step of a parent, of its SIGCHLD handler and of a child keeps it.
LEMMA ChildrenStep == ChildrenInv /\ [ChildrenNext]_chVars => ChildrenInv'
<1> SUFFICES ASSUME ChildrenInv, [ChildrenNext]_chVars PROVE ChildrenInv'
  OBVIOUS
<1> USE KidsFinite DEF ChildrenInv, sysVars
<1>1. CASE Start
  <2>1. /\ cpc = "start" /\ created = 0 /\ numDead = 0 /\ hpc = "out" /\ sysStatus = "none"
        /\ \A k \in All : kid[k] = "unborn"
    BY <1>1 DEF Start, Quiet
  <2>2. /\ created' = created /\ numDead' = numDead /\ hpc' = hpc /\ sysStatus' = sysStatus
        /\ pendingChld' = pendingChld /\ numLiveChildren' = N
        /\ blockedChld' = (cprog' = "multi_SIGCHLD")
    BY <1>1 DEF Start
  <2>3. cprog' \in {"system", "simple_system"} => N >= 2
    BY <1>1, KidsAssumption DEF Start
  <2>4. kid' \in [All -> {"unborn", "running", "zombie", "reaped"}]
    BY <1>1, <2>3, SMTT(60) DEF Start, ChTypeOK
  <2>5. /\ \A k \in All : k # 2 => kid'[k] = "unborn"
        /\ cprog' # "system" => \A k \in All : kid'[k] = "unborn"
        /\ \A k \in All : kid'[k] \in {"unborn", "running"}
    BY <1>1, <2>1, <2>3 DEF Start, ChTypeOK
  <2>6. cpc' = CASE cprog' \in {"multi_SIGCHLD", "multi_wait"} -> "fork"
                 [] cprog' = "simple_init" -> "prompt" [] OTHER -> "call"
    BY <1>1 DEF Start
  <2>7. cpc' # "start" /\ (cprog' \in ParentsOfMany => cpc' = "fork")
        /\ (cprog' \in {"system", "simple_system"} => cpc' = "call")
        /\ (cprog' = "simple_init" => cpc' # "fork")
    BY <2>6 DEF ParentsOfMany
  <2>8. Quiet'
    BY <2>7, ZenonT(60) DEF Quiet
  <2>14. ChTypeOK'
    BY <2>1, <2>2, <2>4, SMTT(60) DEF ChTypeOK
  <2>15. \A k \in Kids : k > 0
    BY KidsFinite
  <2>17. kid'[Orphan] = "unborn"
    BY <2>3, <2>5, SMTT(60)
  <2>18. cprog' \in ParentsOfMany \cup {"simple_init"} =>
           \A k \in Kids : kid'[k] = "unborn" /\ k > created'
    BY <2>1, <2>2, <2>5, <2>15, SMTT(60) DEF ParentsOfMany
  <2>19. hpc' = "out"
    BY <2>1, <2>2
  <2>9. InOrder' /\ InWait'
    BY <2>7, <2>17, <2>18, <2>19, SMTT(60) DEF InOrder, InWait, ParentsOfMany
  <2>10. kid'[Sys] = "unborn" \/ N < 1
    BY <2>5 DEF Sys
  <2>11. InSystem' /\ InSimple'
    BY <2>1, <2>2, <2>3, <2>7, <2>10, SMTT(60) DEF InSystem, InSimple, Answered
  <2>12. Left' = Kids /\ Gone' = {} /\ Zombies' = {}
    BY <2>5, ZenonT(60) DEF Left, Gone, Zombies
  <2>13. NoForgottenZombie'
    BY <2>1, <2>2, <2>7, <2>12, FS_EmptySet, SMTT(60) DEF NoForgottenZombie, N, ParentsOfMany
  <2>20. callerIgnores' \in BOOLEAN /\ ignoring' = callerIgnores'
    BY <1>1, ZenonT(60) DEF Start
  <2>16. ChBooleans'
    BY <2>2, <2>20, ZenonT(60) DEF ChBooleans
  <2> QED BY <2>8, <2>9, <2>11, <2>13, <2>14, <2>16
<1>2. CASE \E k \in All : Exit(k)
  <2> PICK k \in All : Exit(k)
    BY <1>2
  <2>1. ChTypeOK'
    BY SMTT(60) DEF Exit, ChTypeOK
  <2>2. Quiet'
    BY ZenonT(60) DEF Exit, Quiet
  <2>3. /\ kid[k] = "running" /\ kid'[k] = "zombie"
        /\ \A j \in Kids : j # k => kid'[j] = kid[j]
        /\ cprog # "simple_init" => kid'[Orphan] = kid[Orphan] \/ k = Orphan
    BY SMTT(60) DEF Exit, ChTypeOK
  <2>10. UNCHANGED <<cprog, cpc, created, hpc>>
    BY SMTT(60) DEF Exit
  <2>4. InOrder' /\ InWait'
    BY <2>3, <2>10, SMTT(60) DEF InOrder, InWait, ParentsOfMany, All
  <2>11. ChBooleans'
    BY SMTT(60) DEF Exit, ChBooleans, HasHandler
  <2>5. InSystem'
    BY SMTT(60) DEF Exit, HasHandler, InSystem, Answered, ChTypeOK
  <2>6. InSimple'
    BY SMTT(60) DEF Exit, HasHandler, InSimple, Answered, ChTypeOK
  <2>7. Left' = Left /\ Gone' = Gone
    BY <2>3, SMTT(60) DEF Left, Gone
  <2>8. cprog' = cprog /\ cpc' = cpc /\ numLiveChildren' = numLiveChildren /\ numDead' = numDead
        /\ cpc # "exited" /\ (cprog \in {"multi_SIGCHLD", "simple_init"} => pendingChld')
    BY ZenonT(60) DEF Exit, HasHandler
  <2>9. NoForgottenZombie'
    BY <2>7, <2>8, SMTT(60) DEF NoForgottenZombie
  <2> QED BY <2>1, <2>2, <2>4, <2>5, <2>6, <2>9, <2>11, SMTT(60)
<1>3. CASE ForkChild
  <2>1. ChTypeOK'
    BY <1>3, SMTT(60) DEF ForkChild, Main, ChTypeOK
  <2>2. Quiet'
    BY <1>3, ZenonT(60) DEF ForkChild, Main, Quiet
  <2>3. InOrder' /\ InWait'
    BY <1>3, SMTT(60) DEF ForkChild, Main, InOrder, ParentsOfMany, InWait, ChTypeOK
  <2>4. InSystem'
    BY <1>3, SMTT(60) DEF ForkChild, Main, InSystem, Answered
  <2>5. InSimple'
    BY <1>3, SMTT(60) DEF ForkChild, Main, InSimple, Answered
  <2>6. NoForgottenZombie'
    <3>0. cpc = "fork" /\ created < N /\ created' = created + 1
      BY <1>3, SMTT(60) DEF ForkChild
    <3>4. created' \in Kids /\ created' > created
      BY <3>0, SMTT(60) DEF ChTypeOK
    <3>5. cprog \in ParentsOfMany => kid[created'] = "unborn"
      BY <3>4, SMTT(60) DEF InOrder, ParentsOfMany
    <3>1. kid' = [kid EXCEPT ![created'] = "running"] /\ cpc' # "exited"
      BY <1>3, SMTT(60) DEF ForkChild, ChTypeOK, Quiet, InOrder, InWait, InSystem, InSimple, ChBooleans, Answered, ParentsOfMany, HasHandler, Main, Zombies, Running
    <3>2. cprog \in ParentsOfMany => Left' = Left /\ Gone' = Gone /\ Zombies' = Zombies
      BY <3>1, <3>4, <3>5, SMTT(60) DEF Left, Gone, Zombies, ChTypeOK
    <3>6. cprog # "simple_init"
      BY <3>0, SMTT(60) DEF InWait
    <3>3. UNCHANGED <<cprog, pendingChld, hpc, numLiveChildren, numDead>>
      BY <1>3, SMTT(60) DEF ForkChild
    <3> QED BY <3>1, <3>2, <3>3, <3>6, SMTT(60) DEF NoForgottenZombie, ParentsOfMany
  <2>7. ChBooleans'
    BY <1>3, SMTT(60) DEF ForkChild, ChBooleans, HasHandler
  <2> QED BY <2>1, <2>2, <2>3, <2>4, <2>5, <2>6, <2>7, SMTT(60)
<1>4. CASE Handler
  <2>1. ChTypeOK'
    BY <1>4, SMTT(60) DEF Handler, Zombies, ChTypeOK
  <2>2. Quiet'
    BY <1>4, ZenonT(60) DEF Handler, Zombies, Quiet
  <2>3. InOrder' /\ InWait'
    BY <1>4, SMTT(60) DEF Handler, Zombies, InOrder, ParentsOfMany, InWait, ChTypeOK
  <2>4. InSystem'
    BY <1>4, SMTT(60) DEF Handler, Zombies, InSystem, Answered, ChTypeOK
  <2>5. InSimple'
    BY <1>4, SMTT(60) DEF Handler, Zombies, InSimple, Answered
  <2>6. NoForgottenZombie'
    <3>1. UNCHANGED <<cprog, cpc, pendingChld, numDead>> /\ hpc = "in"
      BY <1>4, SMTT(60) DEF Handler
    <3>2. CASE Zombies = {} /\ hpc' = "out" /\ UNCHANGED <<kid, numLiveChildren>>
      BY <3>1, <3>2, <1>4, SMTT(60) DEF Handler, NoForgottenZombie, Zombies, Left, Gone
    <3>3. CASE \E k \in Zombies : /\ kid' = [kid EXCEPT ![k] = "reaped"]
                                  /\ numLiveChildren' = numLiveChildren - 1 /\ UNCHANGED hpc
      <4> PICK k \in Zombies : /\ kid' = [kid EXCEPT ![k] = "reaped"]
                               /\ numLiveChildren' = numLiveChildren - 1 /\ UNCHANGED hpc
        BY <3>3, ZenonT(60)
      <4>1. cprog # "simple_init"
        BY <1>4, SMTT(60) DEF Handler
      <4>2. k \in Kids /\ kid[k] = "zombie"
        BY <4>1, SMTT(60) DEF InOrder, Zombies, All
      <4>3. Cardinality(Left') = Cardinality(Left) - 1 /\ Cardinality(Gone') = Cardinality(Gone) + 1
        BY <4>2, Reaping, ZenonT(60)
      <4>4. cprog # "multi_wait"
        BY <3>1, SMTT(60) DEF InWait
      <4>5. \A j \in Kids : kid[j] = "reaped" => kid'[j] = "reaped"
        BY <4>2, SMTT(60) DEF ChTypeOK
      <4> QED BY <3>1, <4>1, <4>3, <4>4, <4>5, SMTT(60) DEF NoForgottenZombie
    <3> QED BY <3>2, <3>3, <1>4, SMTT(60) DEF Handler
  <2>7. ChBooleans'
    BY <1>4, SMTT(60) DEF Handler, ChBooleans, HasHandler
  <2> QED BY <2>1, <2>2, <2>3, <2>4, <2>5, <2>6, <2>7
<1>5. CASE child_handler
  <2>1. ChTypeOK'
    BY <1>5, SMTT(60) DEF child_handler, Zombies, ChTypeOK
  <2>2. Quiet'
    BY <1>5, SMTT(60) DEF child_handler, Zombies, Quiet
  <2>3. InOrder' /\ InWait'
    BY <1>5, SMTT(60) DEF child_handler, Zombies, InOrder, ParentsOfMany, InWait, ChTypeOK
  <2>4. InSystem'
    BY <1>5, SMTT(60) DEF child_handler, Zombies, InSystem, Answered
  <2>5. InSimple'
    BY <1>5, SMTT(60) DEF child_handler, Zombies, InSimple, Answered
  <2>6. NoForgottenZombie'
    BY <1>5, SMTT(60) DEF child_handler, ChTypeOK, Quiet, InOrder, InWait, InSystem, InSimple, ChBooleans, Answered, ParentsOfMany, HasHandler, Main, Zombies, Running, NoForgottenZombie, Left, Gone
  <2>7. ChBooleans'
    BY <1>5, SMTT(60) DEF child_handler, ChBooleans, HasHandler
  <2> QED BY <2>1, <2>2, <2>3, <2>4, <2>5, <2>6, <2>7
<1>6. CASE Deliver
  <2>1. ChTypeOK'
    BY <1>6, SMTT(60) DEF Deliver, HasHandler, Main, ChTypeOK
  <2>2. Quiet'
    BY <1>6, ZenonT(60) DEF Deliver, HasHandler, Main, Quiet
  <2>3. InOrder' /\ InWait'
    BY <1>6, SMTT(60) DEF Deliver, HasHandler, Main, InOrder, ParentsOfMany, InWait
  <2>4. InSystem'
    BY <1>6, SMTT(60) DEF Deliver, HasHandler, Main, InSystem, Answered
  <2>5. InSimple'
    BY <1>6, SMTT(60) DEF Deliver, HasHandler, Main, InSimple, Answered
  <2>6. NoForgottenZombie'
    BY <1>6, ZenonT(60) DEF Deliver, ChTypeOK, Quiet, InOrder, InWait, InSystem, InSimple, ChBooleans, Answered, ParentsOfMany, HasHandler, Main, Zombies, Running, NoForgottenZombie, Left, Gone
  <2>7. ChBooleans'
    BY <1>6, ZenonT(60) DEF Deliver, ChBooleans, HasHandler
  <2> QED BY <2>1, <2>2, <2>3, <2>4, <2>5, <2>6, <2>7
<1>7. CASE Suspend
  <2>1. ChTypeOK'
    BY <1>7, SMTT(60) DEF Suspend, Main, ChTypeOK
  <2>2. Quiet'
    BY <1>7, SMTT(60) DEF Suspend, Main, Quiet
  <2>3. InOrder' /\ InWait'
    BY <1>7, SMTT(60) DEF Suspend, Main, InOrder, ParentsOfMany, InWait
  <2>4. InSystem'
    BY <1>7, SMTT(60) DEF Suspend, Main, InSystem, Answered
  <2>5. InSimple'
    BY <1>7, SMTT(60) DEF Suspend, Main, InSimple, Answered
  <2>6. NoForgottenZombie'
    <3>1. UNCHANGED <<cprog, kid, numLiveChildren, numDead>> /\ cprog = "multi_SIGCHLD" /\ hpc = "out"
      BY <1>7, SMTT(60) DEF Suspend, Main
    <3>2. Left' = Left /\ Gone' = Gone /\ Zombies' = Zombies
      BY <3>1, SMTT(60) DEF Left, Gone, Zombies
    <3>3. CASE hpc' = "in" /\ cpc' = cpc
      BY <3>1, <3>2, <3>3, SMTT(60) DEF NoForgottenZombie
    <3>4. CASE numLiveChildren = 0 /\ cpc' = "exited" /\ UNCHANGED <<pendingChld, hpc>>
      <4>1. IsFiniteSet(Left)
        BY FS_Subset, SMTT(60) DEF Left
      <4>2. Left = {}
        BY <3>1, <3>4, <4>1, FS_EmptySet, SMTT(60) DEF NoForgottenZombie
      <4> QED BY <3>1, <3>2, <3>4, <4>2, SMTT(60) DEF NoForgottenZombie, Left
    <3> QED BY <3>3, <3>4, <1>7, SMTT(60) DEF Suspend
  <2>7. ChBooleans'
    BY <1>7, ZenonT(60) DEF Suspend, ChBooleans, HasHandler
  <2> QED BY <2>1, <2>2, <2>3, <2>4, <2>5, <2>6, <2>7
<1>8. CASE Wait
  <2>1. ChTypeOK'
    BY <1>8, SMTT(60) DEF Wait, Zombies, Running, ChTypeOK
  <2>2. Quiet'
    BY <1>8, SMTT(60) DEF Wait, Zombies, Running, Quiet
  <2>3. InOrder' /\ InWait'
    BY <1>8, SMTT(60) DEF Wait, Zombies, Running, InOrder, ParentsOfMany, InWait, ChTypeOK
  <2>4. InSystem'
    BY <1>8, SMTT(60) DEF Wait, Zombies, Running, InSystem, Answered
  <2>5. InSimple'
    BY <1>8, SMTT(60) DEF Wait, Zombies, Running, InSimple, Answered
  <2>6. NoForgottenZombie'
    <3>1. UNCHANGED <<cprog, pendingChld, hpc, numLiveChildren>> /\ cprog = "multi_wait" /\ cpc = "loop"
      BY <1>8, SMTT(60) DEF Wait
    <3>2. CASE Zombies \cup Running = {} /\ cpc' = "exited" /\ UNCHANGED <<kid, numDead>>
      <4>1. \A k \in Kids : kid[k] = "reaped"
        BY <3>1, <3>2, SMTT(60) DEF ChTypeOK, Quiet, InOrder, InWait, InSystem, InSimple, ChBooleans, Answered, ParentsOfMany, HasHandler, Main, Zombies, Running
      <4> QED BY <3>1, <3>2, <4>1, SMTT(60) DEF NoForgottenZombie, Left, Gone
    <3>3. CASE \E k \in Zombies : /\ kid' = [kid EXCEPT ![k] = "reaped"] /\ numDead' = numDead + 1
                                  /\ UNCHANGED cpc
      <4> PICK k \in Zombies : /\ kid' = [kid EXCEPT ![k] = "reaped"] /\ numDead' = numDead + 1
                               /\ UNCHANGED cpc
        BY <3>3, ZenonT(60)
      <4>2. k \in Kids /\ kid[k] = "zombie"
        BY <3>1, SMTT(60) DEF InOrder, Zombies, All
      <4>3. Cardinality(Gone') = Cardinality(Gone) + 1
        BY <4>2, Reaping, ZenonT(60)
      <4> QED BY <3>1, <4>3, SMTT(60) DEF NoForgottenZombie
    <3> QED BY <3>2, <3>3, <1>8, SMTT(60) DEF Wait
  <2>7. ChBooleans'
    BY <1>8, SMTT(60) DEF Wait, ChBooleans, HasHandler
  <2> QED BY <2>1, <2>2, <2>3, <2>4, <2>5, <2>6, <2>7
<1>9. CASE SystemCall
  <2>1. ChTypeOK'
    BY <1>9, SMTT(60) DEF SystemCall, Main, ChTypeOK
  <2>2. Quiet'
    BY <1>9, SMTT(60) DEF SystemCall, Main, Quiet
  <2>3. InOrder' /\ InWait'
    BY <1>9, SMTT(60) DEF SystemCall, Main, InOrder, ParentsOfMany, InWait
  <2>4. InSystem'
    BY <1>9, SMTT(60) DEF SystemCall, Main, InSystem, Answered
  <2>5. InSimple'
    BY <1>9, SMTT(60) DEF SystemCall, Main, InSimple, Answered
  <2>6. NoForgottenZombie'
    BY <1>9, SMTT(60) DEF SystemCall, ChTypeOK, Quiet, InOrder, InWait, InSystem, InSimple, ChBooleans, Answered, ParentsOfMany, HasHandler, Main, Zombies, Running, NoForgottenZombie, Left, Gone
  <2>7. ChBooleans'
    BY <1>9, SMTT(60) DEF SystemCall, ChBooleans, HasHandler
  <2> QED BY <2>1, <2>2, <2>3, <2>4, <2>5, <2>6, <2>7
<1>10. CASE Ignore
  <2>1. ChTypeOK'
    BY <1>10, SMTT(60) DEF Ignore, ChTypeOK
  <2>2. Quiet'
    BY <1>10, ZenonT(60) DEF Ignore, Quiet
  <2>3. InOrder' /\ InWait'
    BY <1>10, SMTT(60) DEF Ignore, InOrder, ParentsOfMany, InWait
  <2>4. InSystem'
    BY <1>10, SMTT(60) DEF Ignore, InSystem, Answered
  <2>5. InSimple'
    BY <1>10, SMTT(60) DEF Ignore, InSimple, Answered
  <2>6. NoForgottenZombie'
    BY <1>10, SMTT(60) DEF Ignore, ChTypeOK, Quiet, InOrder, InWait, InSystem, InSimple, ChBooleans, Answered, ParentsOfMany, HasHandler, Main, Zombies, Running, NoForgottenZombie, Left, Gone
  <2>7. ChBooleans'
    BY <1>10, SMTT(60) DEF Ignore, ChBooleans, HasHandler
  <2> QED BY <2>1, <2>2, <2>3, <2>4, <2>5, <2>6, <2>7
<1>11. CASE SysFork
  <2>1. ChTypeOK'
    BY <1>11, SMTT(60) DEF SysFork, Main, ChTypeOK
  <2>2. Quiet'
    BY <1>11, ZenonT(60) DEF SysFork, Main, Quiet
  <2>3. InOrder' /\ InWait'
    BY <1>11, SMTT(60) DEF SysFork, Main, InOrder, ParentsOfMany, InWait, ChTypeOK, InSystem, InSimple, Answered
  <2>4. InSystem'
    BY <1>11, SMTT(60) DEF SysFork, Main, InSystem, Answered, ChTypeOK
  <2>5. InSimple'
    BY <1>11, SMTT(60) DEF SysFork, Main, InSimple, Answered, ChTypeOK
  <2>6. NoForgottenZombie'
    BY <1>11, SMTT(60) DEF SysFork, ChTypeOK, Quiet, InOrder, InWait, InSystem, InSimple, ChBooleans, Answered, ParentsOfMany, HasHandler, Main, Zombies, Running, NoForgottenZombie, Left, Gone
  <2>7. ChBooleans'
    BY <1>11, SMTT(60) DEF SysFork, ChBooleans, HasHandler
  <2> QED BY <2>1, <2>2, <2>3, <2>4, <2>5, <2>6, <2>7
<1>12. CASE Waitpid
  <2>1. ChTypeOK'
    BY <1>12, SMTT(60) DEF Waitpid, Main, ChTypeOK
  <2>2. Quiet'
    BY <1>12, ZenonT(60) DEF Waitpid, Main, Quiet
  <2>3. InOrder' /\ InWait'
    BY <1>12, SMTT(60) DEF Waitpid, Main, InOrder, ParentsOfMany, InWait, ChTypeOK
  <2>4. InSystem'
    BY <1>12, SMTT(60) DEF Waitpid, Main, InSystem, Answered, ChTypeOK
  <2>5. InSimple'
    BY <1>12, SMTT(60) DEF Waitpid, Main, InSimple, Answered, ChTypeOK
  <2>6. NoForgottenZombie'
    BY <1>12, ZenonT(60) DEF Waitpid, ChTypeOK, Quiet, InOrder, InWait, InSystem, InSimple, ChBooleans, Answered, ParentsOfMany, HasHandler, Main, Zombies, Running, NoForgottenZombie, Left, Gone
  <2>7. ChBooleans'
    BY <1>12, SMTT(60) DEF Waitpid, ChBooleans, HasHandler
  <2> QED BY <2>1, <2>2, <2>3, <2>4, <2>5, <2>6, <2>7
<1>13. CASE SysChild
  <2>1. ChTypeOK'
    BY <1>13, SMTT(60) DEF SysChild, ChTypeOK
  <2>2. Quiet'
    BY <1>13, SMTT(60) DEF SysChild, Quiet
  <2>3. InOrder' /\ InWait'
    BY <1>13, SMTT(60) DEF SysChild, InOrder, ParentsOfMany, InWait
  <2>4. InSystem'
    BY <1>13, SMTT(60) DEF SysChild, InSystem, Answered
  <2>5. InSimple'
    BY <1>13, SMTT(60) DEF SysChild, InSimple, Answered
  <2>6. NoForgottenZombie'
    BY <1>13, SMTT(60) DEF SysChild, ChTypeOK, Quiet, InOrder, InWait, InSystem, InSimple, ChBooleans, Answered, ParentsOfMany, HasHandler, Main, Zombies, Running, NoForgottenZombie, Left, Gone
  <2>7. ChBooleans'
    BY <1>13, SMTT(60) DEF SysChild, ChBooleans, HasHandler
  <2> QED BY <2>1, <2>2, <2>3, <2>4, <2>5, <2>6, <2>7
<1>14. CASE Interrupt
  <2>1. ChTypeOK'
    BY <1>14, SMTT(60) DEF Interrupt, HasHandler, ChTypeOK
  <2>2. Quiet'
    BY <1>14, ZenonT(60) DEF Interrupt, HasHandler, Quiet
  <2>3. InOrder' /\ InWait'
    BY <1>14, SMTT(60) DEF Interrupt, HasHandler, InOrder, ParentsOfMany, InWait, ChTypeOK
  <2>4. InSystem'
    BY <1>14, SMTT(60) DEF Interrupt, HasHandler, InSystem, Answered, ChTypeOK
  <2>5. InSimple'
    BY <1>14, SMTT(60) DEF Interrupt, HasHandler, InSimple, Answered, ChTypeOK
  <2>6. NoForgottenZombie'
    BY <1>14, ZenonT(60) DEF Interrupt, ChTypeOK, Quiet, InOrder, InWait, InSystem, InSimple, ChBooleans, Answered, ParentsOfMany, HasHandler, Main, Zombies, Running, NoForgottenZombie, Left, Gone
  <2>7. ChBooleans'
    BY <1>14, ZenonT(60) DEF Interrupt, ChBooleans, HasHandler
  <2> QED BY <2>1, <2>2, <2>3, <2>4, <2>5, <2>6, <2>7
<1>15. CASE RestoreSignals
  <2>1. ChTypeOK'
    BY <1>15, SMTT(60) DEF RestoreSignals, Main, ChTypeOK
  <2>2. Quiet'
    BY <1>15, ZenonT(60) DEF RestoreSignals, Main, Quiet
  <2>3. InOrder' /\ InWait'
    BY <1>15, SMTT(60) DEF RestoreSignals, Main, InOrder, ParentsOfMany, InWait
  <2>4. InSystem'
    BY <1>15, SMTT(60) DEF RestoreSignals, Main, InSystem, Answered
  <2>5. InSimple'
    BY <1>15, SMTT(60) DEF RestoreSignals, Main, InSimple, Answered
  <2>6. NoForgottenZombie'
    BY <1>15, SMTT(60) DEF RestoreSignals, ChTypeOK, Quiet, InOrder, InWait, InSystem, InSimple, ChBooleans, Answered, ParentsOfMany, HasHandler, Main, Zombies, Running, NoForgottenZombie, Left, Gone
  <2>7. ChBooleans'
    BY <1>15, ZenonT(60) DEF RestoreSignals, ChBooleans, HasHandler
  <2> QED BY <2>1, <2>2, <2>3, <2>4, <2>5, <2>6, <2>7
<1>16. CASE Command
  <2>1. ChTypeOK'
    BY <1>16, SMTT(60) DEF Command, Main, ChTypeOK
  <2>2. Quiet'
    BY <1>16, SMTT(60) DEF Command, Main, Quiet
  <2>3. InOrder' /\ InWait'
    BY <1>16, SMTT(60) DEF Command, Main, InOrder, ParentsOfMany, InWait, ChTypeOK
  <2>4. InSystem'
    BY <1>16, SMTT(60) DEF Command, Main, InSystem, Answered
  <2>5. InSimple'
    BY <1>16, SMTT(60) DEF Command, Main, InSimple, Answered
  <2>6. NoForgottenZombie'
    BY <1>16, ZenonT(60) DEF Command, ChTypeOK, Quiet, InOrder, InWait, InSystem, InSimple, ChBooleans, Answered, ParentsOfMany, HasHandler, Main, Zombies, Running, NoForgottenZombie, Left, Gone
  <2>7. ChBooleans'
    BY <1>16, SMTT(60) DEF Command, ChBooleans, HasHandler
  <2> QED BY <2>1, <2>2, <2>3, <2>4, <2>5, <2>6, <2>7
<1>17. CASE Pause
  <2>1. ChTypeOK'
    BY <1>17, SMTT(60) DEF Pause, Main, ChTypeOK
  <2>2. Quiet'
    BY <1>17, SMTT(60) DEF Pause, Main, Quiet
  <2>3. InOrder' /\ InWait'
    BY <1>17, SMTT(60) DEF Pause, Main, InOrder, ParentsOfMany, InWait
  <2>4. InSystem'
    BY <1>17, SMTT(60) DEF Pause, Main, InSystem, Answered
  <2>5. InSimple'
    BY <1>17, SMTT(60) DEF Pause, Main, InSimple, Answered
  <2>6. NoForgottenZombie'
    BY <1>17, SMTT(60) DEF Pause, ChTypeOK, Quiet, InOrder, InWait, InSystem, InSimple, ChBooleans, Answered, ParentsOfMany, HasHandler, Main, Zombies, Running, NoForgottenZombie, Left, Gone
  <2>7. ChBooleans'
    BY <1>17, SMTT(60) DEF Pause, ChBooleans, HasHandler
  <2> QED BY <2>1, <2>2, <2>3, <2>4, <2>5, <2>6, <2>7
<1>18. CASE Paused
  <2>1. ChTypeOK'
    BY <1>18, SMTT(60) DEF Paused, Main, ChTypeOK
  <2>2. Quiet'
    BY <1>18, ZenonT(60) DEF Paused, Main, Quiet
  <2>3. InOrder' /\ InWait'
    BY <1>18, SMTT(60) DEF Paused, Main, InOrder, ParentsOfMany, InWait
  <2>4. InSystem'
    BY <1>18, SMTT(60) DEF Paused, Main, InSystem, Answered
  <2>5. InSimple'
    BY <1>18, SMTT(60) DEF Paused, Main, InSimple, Answered
  <2>6. NoForgottenZombie'
    BY <1>18, SMTT(60) DEF Paused, ChTypeOK, Quiet, InOrder, InWait, InSystem, InSimple, ChBooleans, Answered, ParentsOfMany, HasHandler, Main, Zombies, Running, NoForgottenZombie, Left, Gone
  <2>7. ChBooleans'
    BY <1>18, SMTT(60) DEF Paused, ChBooleans, HasHandler
  <2> QED BY <2>1, <2>2, <2>3, <2>4, <2>5, <2>6, <2>7
<1>19. CASE UNCHANGED chVars
  <2>1. UNCHANGED <<cprog, cpc, kid, created, hpc, numLiveChildren, numDead, sysStatus>>
    BY <1>19, SMTT(60) DEF chVars
  <2>2. UNCHANGED <<pendingChld, blockedChld, ignoring, callerIgnores>>
    BY <1>19, SMTT(60) DEF chVars
  <2>3. ChTypeOK' /\ InOrder' /\ InWait'
    BY <2>1, SMTT(60) DEF ChTypeOK, InOrder, InWait, ParentsOfMany
  <2>4. ChBooleans' /\ Quiet'
    BY <2>1, <2>2, ZenonT(60) DEF ChBooleans, Quiet
  <2>5. InSystem' /\ InSimple'
    BY <2>1, <2>2, SMTT(60) DEF InSystem, InSimple, Answered
  <2>6. NoForgottenZombie'
    BY <2>1, <2>2, SMTT(60) DEF NoForgottenZombie, Zombies, Left, Gone
  <2> QED BY <2>3, <2>4, <2>5, <2>6, SMTT(60)
<1>20. CASE ForkFails
  <2>1. /\ UNCHANGED <<cprog, kid, created, hpc, numLiveChildren, numDead, sysStatus>>
        /\ cpc = "fork" /\ cpc' = "failed"
    BY <1>20, SMTT(60) DEF ForkFails
  <2>2. UNCHANGED <<pendingChld, blockedChld, ignoring, callerIgnores>>
    BY <1>20, ZenonT(60) DEF ForkFails
  <2>3. ChTypeOK' /\ InOrder' /\ InWait'
    BY <2>1, SMTT(60) DEF ChTypeOK, InOrder, InWait, ParentsOfMany
  <2>4. ChBooleans' /\ Quiet'
    BY <2>1, <2>2, ZenonT(60) DEF ChBooleans, Quiet
  <2>5. cprog \notin {"system", "simple_system"}
    BY <2>1, SMTT(60) DEF InSystem, InSimple
  <2>6. InSystem' /\ InSimple'
    BY <2>1, <2>5, ZenonT(60) DEF InSystem, InSimple
  <2>7. NoForgottenZombie'
    BY <2>1, <2>2, SMTT(60) DEF NoForgottenZombie, Zombies, Left, Gone
  <2> QED BY <2>3, <2>4, <2>6, <2>7, ZenonT(60)
<1>21. CASE cprog = "simple_system" /\ WaitInterrupted
  <2>1. /\ UNCHANGED <<cprog, kid, created, hpc, numLiveChildren, numDead>> /\ cprog = "simple_system"
        /\ cpc = "waitpid" /\ cpc' = "restore" /\ sysStatus' = "error"
    BY <1>21, SMTT(60) DEF WaitInterrupted
  <2>2. UNCHANGED <<pendingChld, blockedChld, ignoring, callerIgnores>>
    BY <1>21, ZenonT(60) DEF WaitInterrupted
  <2>3. ChTypeOK' /\ InOrder' /\ InWait'
    BY <2>1, SMTT(60) DEF ChTypeOK, InOrder, InWait, ParentsOfMany
  <2>4. ChBooleans' /\ Quiet'
    BY <2>1, <2>2, ZenonT(60) DEF ChBooleans, Quiet
  <2>5. InSystem' /\ InSimple'
    BY <2>1, SMTT(60) DEF InSystem, InSimple
  <2>7. NoForgottenZombie'
    BY <2>1, SMTT(60) DEF NoForgottenZombie
  <2> QED BY <2>3, <2>4, <2>5, <2>7, ZenonT(60)
<1> QED BY <1>1, <1>2, <1>3, <1>4, <1>5, <1>6, <1>7, <1>8, <1>9, <1>10, <1>11, <1>12, <1>13, <1>14, <1>15, <1>16, <1>17, <1>18, <1>19, <1>20, <1>21, ZenonT(60) DEF ChildrenNext, simple_system

\* For every number of children: no parent waits or exits with a zombie it has
\* forgotten, and system() returns the status of its own command, is not killed by
\* a SIGINT for the command, and leaves the dispositions and the mask as it found
\* them.
THEOREM ChildrenCorrect == ChildrenSpec => []ChildrenRight
<1>1. ChildrenInv => ChildrenRight
  BY SMTT(60) DEF ChildrenInv, ChildrenRight, SystemRight, InSystem, InSimple, Answered
<1> QED BY <1>1, ChildrenInitial, ChildrenStep, PTL DEF ChildrenSpec
=============================================================================
