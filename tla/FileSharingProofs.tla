----------------------- MODULE FileSharingProofs -----------------------
(***************************************************************************)
(* Proof that the programs that share a file keep what FileSharing says of *)
(* them: one daemon runs, locks exclude and nobody waits in a circle, and  *)
(* writers that append lose nothing; for every set of processes.           *)
(***************************************************************************)
EXTENDS FileSharing, FiniteSetTheorems, TLAPS

----------------------------------------------------------------------------
(***************************************************************************)
(* createPidFile().                                                        *)
(***************************************************************************)
PCs == {"open", "lock", "truncate", "write", "run", "end", "fatal", "gone"}
Inodes == 1..MaxInodes
HasFile == {"lock", "truncate", "write", "run", "end"}
HasLock == {"truncate", "write", "run", "end"}

PidTypeOK == /\ inodes \in 0..MaxInodes /\ pidFile \in 0..inodes
          /\ content \in [Inodes -> Daemons \cup {NoPid}]
          /\ lock \in [Inodes -> Daemons \cup {Nobody}]
          /\ pfd \in [Daemons -> 0..MaxInodes] /\ ppc \in [Daemons -> PCs]

\* A daemon past open() has an inode; past lockRegion() it holds the lock on it,
\* so that nobody else writes what it has written.
Holds == \A d \in Daemons : /\ ppc[d] \in HasFile => pfd[d] \in Inodes
                            /\ ppc[d] \in HasLock => lock[pfd[d]] = d
                            /\ ppc[d] = "run" => content[pfd[d]] = d

\* Until the file is deleted there is one inode.
Named == \A d \in Daemons : ppc[d] \in HasFile => pfd[d] = pidFile

PidInv == PidTypeOK /\ Holds /\ (deleted \/ Named)

\* Before anybody has started there is no file.
LEMMA PidStart == ASSUME PidInit PROVE PidInv
<1> USE PidAssumption DEF PCs, Inodes, HasFile, HasLock
<1>1. /\ pidFile = 0 /\ inodes = 0
      /\ content = [i \in 1..MaxInodes |-> NoPid] /\ lock = [i \in 1..MaxInodes |-> Nobody]
      /\ pfd = [d \in Daemons |-> 0] /\ ppc = [d \in Daemons |-> "open"]
  BY DEF PidInit
<1>2. PidTypeOK /\ Holds /\ Named
  BY <1>1 DEF PidTypeOK, Holds, Named
<1>3. QED
  BY <1>2, SMTT(60) DEF PidInv

\* The steps of createPidFile(), and of its callers.
LEMMA PidStep == ASSUME PidInv, [PidNext]_pidVars PROVE PidInv'
<1>1. PidTypeOK /\ Holds
  BY DEF PidInv
<1>2. deleted \/ Named
  BY DEF PidInv
<1> USE PidAssumption DEF PCs, Inodes, HasFile, HasLock, Goto, PidTypeOK
<1>3. CASE UNCHANGED pidVars
  BY <1>3 DEF pidVars, PidInv, Holds, Named
<1>4. ASSUME NEW d \in Daemons, OpenPidFile(d) PROVE PidInv'
  <2>1. PidTypeOK'
    BY <1>1, <1>4, SMTT(60) DEF OpenPidFile
  <2>2. Holds'
    BY <1>1, <1>4, SMTT(60) DEF OpenPidFile, Holds
  <2>3. ASSUME Named PROVE Named'
    <3>1. CASE pidFile # 0
      BY <1>1, <1>4, <2>3, <3>1, SMTT(60) DEF OpenPidFile, Named
    <3>2. CASE pidFile = 0
      <4>1. \A e \in Daemons : ppc[e] \notin HasFile
        BY <1>1, <2>3, <3>2 DEF Holds, Named
      <4>2. QED
        BY <1>1, <1>4, <4>1 DEF OpenPidFile, Named
    <3>3. QED
      BY <3>1, <3>2
  <2>4. UNCHANGED deleted
    BY <1>4 DEF OpenPidFile
  <2>5. QED
    BY <1>2, <2>1, <2>2, <2>3, <2>4, SMTT(60) DEF PidInv
<1>5. ASSUME NEW d \in Daemons, Locked(d) PROVE PidInv'
  <2>1. PidTypeOK'
    BY <1>1, <1>5, SMTT(60) DEF Locked
  <2>2. Holds'
    BY <1>1, <1>5, SMTT(60) DEF Locked, Holds
  <2>3. Named => Named'
    BY <1>1, <1>5, SMTT(60) DEF Locked, Named
  <2>4. UNCHANGED deleted
    BY <1>5 DEF Locked
  <2>5. QED
    BY <1>2, <2>1, <2>2, <2>3, <2>4, SMTT(60) DEF PidInv
<1>6. ASSUME NEW d \in Daemons, Lock(d) PROVE PidInv'
  <2>1. PidTypeOK'
    BY <1>1, <1>6, Zenon DEF Lock, CanLock, lockRegion
  <2>2. Holds'
    BY <1>1, <1>6, SMTT(60) DEF Lock, CanLock, lockRegion, Holds
  <2>3. Named => Named'
    BY <1>1, <1>6, SMTT(60) DEF Lock, CanLock, lockRegion, Named
  <2>4. UNCHANGED deleted
    BY <1>6 DEF Lock
  <2>5. QED
    BY <1>2, <2>1, <2>2, <2>3, <2>4, SMTT(60) DEF PidInv
<1>7. ASSUME NEW d \in Daemons, Truncate(d) PROVE PidInv'
  <2>1. PidTypeOK'
    BY <1>1, <1>7, Zenon DEF Truncate
  <2>2. Holds'
    BY <1>1, <1>7, SMTT(60) DEF Truncate, Holds
  <2>3. Named => Named'
    BY <1>1, <1>7, SMTT(60) DEF Truncate, Named
  <2>4. UNCHANGED deleted
    BY <1>7 DEF Truncate
  <2>5. QED
    BY <1>2, <2>1, <2>2, <2>3, <2>4, SMTT(60) DEF PidInv
<1>8. ASSUME NEW d \in Daemons, WritePid(d) PROVE PidInv'
  <2>1. PidTypeOK'
    BY <1>1, <1>8, Zenon DEF WritePid
  <2>2. Holds'
    BY <1>1, <1>8, SMTT(60) DEF WritePid, Holds
  <2>3. Named => Named'
    BY <1>1, <1>8, SMTT(60) DEF WritePid, Named
  <2>4. UNCHANGED deleted
    BY <1>8 DEF WritePid
  <2>5. QED
    BY <1>2, <2>1, <2>2, <2>3, <2>4, SMTT(60) DEF PidInv
<1>9. ASSUME NEW d \in Daemons, Delete(d) PROVE PidInv'
  <2>1. PidTypeOK'
    BY <1>1, <1>9, SMTT(60) DEF Delete
  <2>2. Holds'
    BY <1>1, <1>9, SMTT(60) DEF Delete, Holds
  <2>3. deleted'
    BY <1>9 DEF Delete
  <2>4. QED
    BY <2>1, <2>2, <2>3, SMTT(60) DEF PidInv
<1>10. ASSUME NEW d \in Daemons, End(d) PROVE PidInv'
  <2>1. PidTypeOK'
    BY <1>1, <1>10 DEF End
  <2>2. Holds'
    BY <1>1, <1>10, SMTT(60) DEF End, Holds
  <2>3. Named => Named'
    BY <1>1, <1>10, SMTT(60) DEF End, Named
  <2>4. UNCHANGED deleted
    BY <1>10 DEF End
  <2>5. QED
    BY <1>2, <2>1, <2>2, <2>3, <2>4, SMTT(60) DEF PidInv
<1>11. ASSUME NEW d \in Daemons, Restart(d) PROVE PidInv'
  <2>1. PidTypeOK'
    BY <1>1, <1>11 DEF Restart
  <2>2. Holds'
    BY <1>1, <1>11, SMTT(60) DEF Restart, Holds
  <2>3. Named => Named'
    BY <1>1, <1>11 DEF Restart, Named
  <2>4. UNCHANGED deleted
    BY <1>11 DEF Restart
  <2>5. QED
    BY <1>2, <2>1, <2>2, <2>3, <2>4, SMTT(60) DEF PidInv
<1>12. QED
  BY <1>3, <1>4, <1>5, <1>6, <1>7, <1>8, <1>9, <1>10, <1>11 DEF PidNext, createPidFile

\* Two running daemons would hold the lock on the same inode.
LEMMA OneRunning == ASSUME PidInv PROVE OneInstance
<1> SUFFICES ASSUME ~deleted PROVE Cardinality(Running) <= 1
  BY SMTT(60) DEF OneInstance
<1>1. CASE Running = {}
  BY <1>1, FS_EmptySet
<1>2. CASE Running # {}
  <2>1. PICK d \in Daemons : ppc[d] = "run"
    BY <1>2 DEF Running
  <2>2. ASSUME NEW e \in Daemons, ppc[e] = "run" PROVE e = d
    BY <2>1, <2>2 DEF PidInv, Holds, Named, HasFile, HasLock
  <2>3. Running = {d}
    BY <2>1, <2>2 DEF Running
  <2>4. Cardinality({d}) = 1
    BY FS_Singleton
  <2>5. QED
    BY <2>3, <2>4
<1>3. QED
  BY <1>1, <1>2


\* What the daemons' invariant says of the two properties.
LEMMA PidImplies == ASSUME PidInv PROVE OneInstance /\ PidRight
<1>1. OneInstance
  BY OneRunning
<1>2. PidRight
  BY SMTT(60) DEF PidInv, Holds, HasLock, PidRight, Running
<1>3. QED
  BY <1>1, <1>2

----------------------------------------------------------------------------
(***************************************************************************)
(* Locks.                                                                  *)
(***************************************************************************)
OfdChars == {"G", "S", "W"}

\* Locks belong to users, and are of one of two types; a user who waits has asked
\* for a lock.
LockTypeOK ==
    /\ \A l \in held : l.owner[1] \in Users /\ l.type \in {"r", "w"}
    /\ request = [p \in Users |-> request[p]] /\ fpc = [p \in Users \cup Flockers |-> fpc[p]]
    /\ flocks \in [Flockers -> {"none", "s", "x"}]
    /\ \A p \in Users : fpc[p] = "wait" => request[p].type \in {"r", "w", "u"}

\* Until an OFD command is typed, all locks belong to processes and all who wait
\* take part in the deadlock check.
ProcessLocks ==
    /\ \A l \in held : l.owner = <<l.owner[1], FALSE>>
    /\ \A p \in Users : fpc[p] = "wait" => request[p] # NoRequest /\ request[p].cmd \notin OfdChars

LockInv == /\ LockTypeOK /\ (ofdTyped \/ ProcessLocks)
           /\ LocksExclude /\ NoCircularWait

\* The commands g, s and w are for locks of a process.
LEMMA Commands == ASSUME NEW c, c \notin OfdChars PROVE Command(c).ofd = FALSE
<1>1. Command(c).ofd = (c \in OfdChars)
  BY Zenon DEF Command, OfdChars
<1>2. (c \in OfdChars) = FALSE
  OBVIOUS
<1>3. QED
  BY <1>1, <1>2, Zenon

\* The owner of a lock.
LEMMA OwnerIs == ASSUME NEW p, NEW c PROVE Owner(p, c)[1] = p
  BY DEF Owner
LEMMA OwnerProcess == ASSUME NEW p, NEW c, c \notin OfdChars PROVE Owner(p, c) = <<p, FALSE>>
  BY Commands, Zenon DEF Owner

\* What fcntl() leaves and what it adds.
LEMMA NewLocks ==
    ASSUME NEW o, NEW R, NEW t, SetLock(o, R, t)
    PROVE  \A l \in held' : \/ l \in held /\ ~(l.owner = o /\ l.byte \in R)
                            \/ t # "u" /\ l.owner = o /\ l.byte \in R /\ l.type = t
  BY SMTT(60) DEF SetLock

\* A lock that nothing conflicts with can be set: it excludes what it should.
LEMMA SetExcludes ==
    ASSUME NEW o, NEW R, NEW t \in {"r", "w", "u"}, SetLock(o, R, t), Conflicts(o, R, t) = {},
           LockTypeOK, LocksExclude, UNCHANGED flocks
    PROVE  LocksExclude'
<1>1. \A l \in held : t # "u" /\ l.owner # o /\ l.byte \in R => t = "r" /\ l.type = "r"
  BY SMTT(60) DEF Conflicts, LockTypeOK
<1>2. ASSUME NEW l \in held', NEW m \in held', l.owner # m.owner, l.byte = m.byte
      PROVE  l.type = "r" /\ m.type = "r"
  BY <1>1, <1>2, NewLocks, SMTT(60) DEF LocksExclude
<1>3. QED
  BY <1>2 DEF LocksExclude

\* A process that does not wait, or no longer, closes no circle with its locks.
LEMMA NoNewCircle ==
    ASSUME NEW p, NoCircularWait, ofdTyped' \/ ~ofdTyped,
           \A l \in held' : l \in held \/ l.owner[1] = p,
           \A q \in Users : fpc'[q] = "wait" => q # p /\ fpc[q] = "wait" /\ request'[q] = request[q]
    PROVE  NoCircularWait'
<1> SUFFICES ASSUME ~ofdTyped', NEW P \in SUBSET {q \in Users : fpc'[q] = "wait"}, P # {},
                    \A q \in P : \E o \in WaitsFor(q, request[q])' : o[1] \in P
             PROVE  FALSE
  BY Zenon DEF NoCircularWait
<1>1. P \in SUBSET {q \in Users : fpc[q] = "wait"}
  BY SMTT(60)
<1>2. ASSUME NEW q \in P PROVE \E o \in WaitsFor(q, request[q]) : o[1] \in P
  <2> DEFINE K == Conflicts(Owner(q, request[q].cmd), request[q].region, request[q].type)
  <2>1. PICK l : l \in K' /\ l.owner[1] \in P
    <3>1. WaitsFor(q, request[q])' = {l.owner : l \in K'}
      BY Zenon DEF WaitsFor
    <3>2. PICK o \in {l.owner : l \in K'} : o[1] \in P
      BY <3>1, SMTT(60)
    <3>3. QED
      BY <3>2, SMTT(60)
  <2>2. l.owner[1] # p /\ request'[q] = request[q]
    BY <2>1, SMTT(60)
  <2>3. l \in K
    BY <2>1, <2>2, SMTT(60) DEF Conflicts
  <2>4. QED
    BY <2>1, <2>3, ZenonT(60) DEF WaitsFor
<1>3. QED
  BY <1>1, <1>2, Zenon DEF NoCircularWait

\* Nor does one that begins to wait: a circle through it, cut down to those its
\* first neighbour waits for, would have been one before.
LEMMA NoWaitCircle ==
    ASSUME NEW p \in Users, NEW r, NoCircularWait, LockTypeOK, ProcessLocks, ~ofdTyped,
           fpc[p] # "wait", request' = [request EXCEPT ![p] = r], fpc' = [fpc EXCEPT ![p] = "wait"],
           UNCHANGED held, r.cmd \notin OfdChars, ~WouldDeadlock(p, r)
    PROVE  NoCircularWait'
<1> SUFFICES ASSUME NEW P \in SUBSET {q \in Users : fpc'[q] = "wait"}, P # {},
                    \A q \in P : \E o \in WaitsFor(q, request[q])' : o[1] \in P
             PROVE  FALSE
  BY Zenon DEF NoCircularWait
<1>1. \A q \in Users : q # p => fpc'[q] = fpc[q] /\ request'[q] = request[q]
  BY SMTT(60) DEF LockTypeOK
<1>2. request'[p] = r
  BY SMTT(60) DEF LockTypeOK
<1>3. ASSUME NEW q PROVE WaitsFor(q, request[q])' = WaitsFor(q, request'[q])
  BY SMTT(60) DEF WaitsFor, Conflicts
<1>4. ASSUME NEW q, NEW x, NEW o \in WaitsFor(q, x) PROVE o = <<o[1], FALSE>>
  BY Zenon DEF WaitsFor, Conflicts, ProcessLocks
<1>5. CASE p \notin P
  <2>1. P \in SUBSET {q \in Users : fpc[q] = "wait"}
    BY <1>1, <1>5, SMTT(60)
  <2>2. \A q \in P : \E o \in WaitsFor(q, request[q]) : o[1] \in P
    BY <1>1, <1>3, <1>5, SMTT(60)
  <2>3. QED
    BY <2>1, <2>2, Zenon DEF NoCircularWait
<1>6. CASE p \in P
  <2>1. PICK n \in WaitsFor(p, r) : n[1] \in P
    BY <1>2, <1>3, <1>6, SMTT(60)
  <2>2. n[1] \in Users /\ <<n[1], FALSE>> \in WaitsFor(p, r)
    BY <1>4, <2>1, Zenon
  <2>3. PICK S \in SUBSET Users : n[1] \in S /\ Closed(S) /\ p \notin S
    <3>1. ~Command(r.cmd).ofd
      BY Commands, Zenon
    <3>2. ~Reaches(n[1], p)
      BY <2>2, <3>1, Zenon DEF WouldDeadlock
    <3>3. QED
      BY <3>2, Zenon DEF Reaches
  <2> DEFINE Q == P \cap S
  <2>4. Q \in SUBSET {q \in Users : fpc[q] = "wait"} /\ Q # {}
    BY <1>1, <2>1, <2>3, SMTT(60)
  <2>5. ASSUME NEW q \in Q PROVE \E o \in WaitsFor(q, request[q]) : o[1] \in Q
    <3>1. q \in Users /\ q # p /\ fpc[q] = "wait"
      BY <2>3, <2>4, SMTT(60)
    <3>2. PICK o \in WaitsFor(q, request[q]) : o[1] \in P
      BY <1>1, <1>3, <3>1, SMTT(60)
    <3>3. o[1] \in Users /\ <<o[1], FALSE>> \in WaitsFor(q, request[q])
      BY <1>4, <3>2, Zenon
    <3>4. request[q] # NoRequest /\ ~Command(request[q].cmd).ofd
      <4>1. request[q] # NoRequest /\ request[q].cmd \notin OfdChars
        BY <3>1, SMTT(60) DEF ProcessLocks
      <4>2. QED
        BY <4>1, Commands, Zenon
    <3>5. Waits(q, o[1])
      BY <3>3, <3>4, Zenon DEF Waits
    <3>6. o[1] \in S
      BY <2>3, <3>3, <3>5, SMTT(60) DEF Closed
    <3>7. QED
      BY <3>2, <3>6, SMTT(60)
  <2>6. QED
    BY <2>4, <2>5, Zenon DEF NoCircularWait
<1>7. QED
  BY <1>5, <1>6, SMTT(60)

\* Nobody has a lock at first.
LEMMA LockStart == ASSUME LockInit PROVE LockInv
<1>1. /\ held = {} /\ request = [p \in Users |-> NoRequest]
      /\ flocks = [p \in Flockers |-> "none"]
      /\ fpc = [p \in Users \cup Flockers |-> IF p \in Users THEN "prompt" ELSE "start"]
  BY SMTT(60) DEF LockInit
<1>2. LockTypeOK /\ LocksExclude
  BY <1>1, SMTT(60) DEF LockTypeOK, LocksExclude
<1>3. ProcessLocks
  BY <1>1 DEF ProcessLocks
<1>4. NoCircularWait
  BY <1>1, Zenon DEF NoCircularWait
<1>5. QED
  BY <1>2, <1>3, <1>4 DEF LockInv

\* A lock is set by a process that does not wait then: when its command is typed,
\* or when its wait is over.
LEMMA LockSet ==
    ASSUME NEW p \in Users, NEW c, NEW R, NEW t \in {"r", "w", "u"}, LockInv,
           SetLock(Owner(p, c), R, t), Conflicts(Owner(p, c), R, t) = {},
           ofdTyped' \/ ~ofdTyped, ofdTyped' \/ c \notin OfdChars, UNCHANGED flocks,
           request' = [q \in Users |-> request'[q]], fpc' = [q \in Users \cup Flockers |-> fpc'[q]],
           \A q \in Users : fpc'[q] = "wait" => q # p /\ fpc[q] = "wait" /\ request'[q] = request[q]
    PROVE  LockInv'
<1>1. LockTypeOK /\ LocksExclude /\ NoCircularWait
  BY SMTT(60) DEF LockInv
<1>2. \A l \in held' : l \in held \/ (t # "u" /\ l.owner = Owner(p, c) /\ l.type = t)
  BY NewLocks, SMTT(60)
<1>3. Owner(p, c)[1] = p
  BY OwnerIs, Zenon
<1>4. LockTypeOK'
  BY <1>1, <1>2, <1>3, SMTT(60) DEF LockTypeOK
<1>5. LocksExclude'
  BY <1>1, SetExcludes, SMTT(60)
<1>6. NoCircularWait'
  <2>1. \A l \in held' : l \in held \/ l.owner[1] = p
    BY <1>2, <1>3, SMTT(60)
  <2>2. QED
    BY <1>1, <2>1, NoNewCircle, Zenon
<1>7. ASSUME ~ofdTyped' PROVE ProcessLocks'
  <2>1. ProcessLocks /\ c \notin OfdChars
    BY <1>7, Zenon DEF LockInv
  <2>2. ASSUME NEW l \in held' PROVE l.owner = <<l.owner[1], FALSE>>
    <3>1. CASE l \in held
      BY <2>1, <3>1, Zenon DEF ProcessLocks
    <3>2. CASE l.owner = Owner(p, c)
      <4>1. Owner(p, c) = <<p, FALSE>>
        BY <2>1, OwnerProcess, Zenon
      <4>2. l.owner[1] = p
        BY <1>3, <3>2, SMTT(60)
      <4>3. QED
        BY <3>2, <4>1, <4>2, Zenon
    <3>3. QED
      BY <1>2, <3>1, <3>2, Zenon
  <2>3. QED
    BY <2>1, <2>2, Zenon DEF ProcessLocks
<1>8. QED
  BY <1>4, <1>5, <1>6, <1>7, Zenon DEF LockInv

\* Nothing is locked, and nobody begins to wait.
LEMMA LockKept ==
    ASSUME NEW p, LockInv, held' \in SUBSET held, ofdTyped' \/ ~ofdTyped,
           request' = [q \in Users |-> request'[q]], fpc' = [q \in Users \cup Flockers |-> fpc'[q]],
           \A q \in Users : fpc'[q] = "wait" => q # p /\ fpc[q] = "wait" /\ request'[q] = request[q],
           flocks' \in [Flockers -> {"none", "s", "x"}],
           \A q, u \in Flockers : q # u /\ flocks'[q] = "x" => flocks'[u] = "none"
    PROVE  LockInv'
<1>1. LockTypeOK /\ LocksExclude /\ NoCircularWait
  BY SMTT(60) DEF LockInv
<1>2. LockTypeOK' /\ LocksExclude'
  BY <1>1, SMTT(60) DEF LockTypeOK, LocksExclude
<1>3. NoCircularWait'
  <2>1. \A l \in held' : l \in held \/ l.owner[1] = p
    BY SMTT(60)
  <2>2. QED
    BY <1>1, <2>1, NoNewCircle, Zenon
<1>4. ASSUME ~ofdTyped' PROVE ProcessLocks'
  <2>1. ProcessLocks
    BY <1>4, Zenon DEF LockInv
  <2>2. QED
    BY <2>1, Zenon DEF ProcessLocks
<1>5. QED
  BY <1>2, <1>3, <1>4, Zenon DEF LockInv

\* A command is typed, and succeeds, waits or fails.
LEMMA TypedStep == ASSUME NEW p \in Users, LockInv, Typed(p) PROVE LockInv'
<1>1. LockTypeOK /\ LocksExclude /\ NoCircularWait
  BY SMTT(60) DEF LockInv
<1> DEFINE Req(c, t, R) == [cmd |-> c, type |-> t, region |-> R]
<1>2. PICK c \in CmdChars, t \in {"r", "w", "u"}, R \in Regions :
        /\ fpc[p] = "prompt" /\ UNCHANGED flocks
        /\ ofdTyped' = (ofdTyped \/ c \in OfdChars)
        /\ \/ /\ Conflicts(Owner(p, c), R, t) = {} /\ SetLock(Owner(p, c), R, t)
              /\ UNCHANGED <<request, fpc>>
           \/ /\ ~WouldDeadlock(p, Req(c, t, R)) /\ UNCHANGED held
              /\ request' = [request EXCEPT ![p] = Req(c, t, R)] /\ fpc' = [fpc EXCEPT ![p] = "wait"]
           \/ UNCHANGED <<held, request, fpc>>
  <2>1. PICK c \in CmdChars, t \in {"r", "w", "u"}, R \in Regions :
          LET o == Owner(p, c)
              r == [cmd |-> c, type |-> t, region |-> R]
          IN  /\ fpc[p] = "prompt" /\ typed[p] < MaxTyped
              /\ typed' = [typed EXCEPT ![p] = @ + 1]
              /\ ofdTyped' = (ofdTyped \/ c \in {"G", "S", "W"})
              /\ \/ /\ Command(c).op # "getlk" /\ Conflicts(o, R, t) = {}
                    /\ SetLock(o, R, t)
                    /\ UNCHANGED <<request, fpc>>
                 \/ /\ Command(c).op = "setlkw" /\ Conflicts(o, R, t) # {} /\ ~WouldDeadlock(p, r)
                    /\ request' = [request EXCEPT ![p] = r] /\ fpc' = [fpc EXCEPT ![p] = "wait"]
                    /\ UNCHANGED held
                 \/ /\ \/ Command(c).op = "getlk"
                       \/ Command(c).op = "setlk" /\ Conflicts(o, R, t) # {}
                       \/ Command(c).op = "setlkw" /\ Conflicts(o, R, t) # {} /\ WouldDeadlock(p, r)
                    /\ UNCHANGED <<held, request, fpc>>
              /\ UNCHANGED flocks
    BY Zenon DEF Typed
  <2>2. QED
    BY <2>1, Zenon DEF OfdChars
<1>3. ofdTyped' \/ (~ofdTyped /\ c \notin OfdChars)
  BY <1>2, Zenon
<1>4. \A q \in Users : fpc[q] = "wait" => q # p
  BY <1>2, SMTT(60)
<1>5. CASE Conflicts(Owner(p, c), R, t) = {} /\ SetLock(Owner(p, c), R, t) /\ UNCHANGED <<request, fpc>>
  <2>1. /\ \A q \in Users : fpc'[q] = "wait" => q # p /\ fpc[q] = "wait" /\ request'[q] = request[q]
        /\ request' = [q \in Users |-> request'[q]] /\ fpc' = [q \in Users \cup Flockers |-> fpc'[q]]
    BY <1>1, <1>4, <1>5, SMTT(60) DEF LockTypeOK
  <2>2. QED
    BY <1>2, <1>3, <1>5, <2>1, LockSet, ZenonT(60)
<1>6. CASE /\ ~WouldDeadlock(p, Req(c, t, R)) /\ UNCHANGED held
           /\ request' = [request EXCEPT ![p] = Req(c, t, R)] /\ fpc' = [fpc EXCEPT ![p] = "wait"]
  <2>1. Req(c, t, R).cmd = c /\ Req(c, t, R).type = t /\ Req(c, t, R) # NoRequest
    BY SMTT(60) DEF NoRequest, CmdChars
  <2> HIDE DEF Req
  <2>2. LockTypeOK' /\ LocksExclude'
    BY <1>1, <1>2, <1>6, <2>1, ZenonT(60) DEF LockTypeOK, LocksExclude
  <2>3. ASSUME ~ofdTyped' PROVE ProcessLocks' /\ NoCircularWait'
    <3>1. ProcessLocks /\ ~ofdTyped /\ c \notin OfdChars
      BY <1>3, <2>3, Zenon DEF LockInv
    <3>2. ProcessLocks'
      BY <1>1, <1>6, <2>1, <3>1, Zenon DEF ProcessLocks, LockTypeOK
    <3>3. fpc[p] # "wait" /\ Req(c, t, R).cmd \notin OfdChars
      BY <1>2, <2>1, <3>1, SMTT(60)
    <3>4. NoCircularWait'
      BY <1>1, <1>6, <3>1, <3>3, NoWaitCircle, Zenon
    <3>5. QED
      BY <3>2, <3>4, SMTT(60)
  <2>4. ofdTyped' => NoCircularWait'
    BY Zenon DEF NoCircularWait
  <2>5. QED
    BY <2>2, <2>3, <2>4, Zenon DEF LockInv
<1>7. CASE UNCHANGED <<held, request, fpc>>
  <2>1. /\ \A q \in Users : fpc'[q] = "wait" => q # p /\ fpc[q] = "wait" /\ request'[q] = request[q]
        /\ request' = [q \in Users |-> request'[q]] /\ fpc' = [q \in Users \cup Flockers |-> fpc'[q]]
        /\ held' \in SUBSET held /\ flocks' \in [Flockers -> {"none", "s", "x"}]
        /\ \A q, u \in Flockers : q # u /\ flocks'[q] = "x" => flocks'[u] = "none"
    BY <1>1, <1>2, <1>4, <1>7, SMTT(60) DEF LockTypeOK, LocksExclude
  <2>2. QED
    BY <1>3, <2>1, LockKept, Zenon
<1>8. QED
  BY <1>2, <1>5, <1>6, <1>7, Zenon

\* The other steps of the users.
LEMMA UserStep == ASSUME NEW p \in Users, LockInv, Typed(p) \/ Granted(p) \/ Exit(p) PROVE LockInv'
<1>1. LockTypeOK /\ LocksExclude
  BY DEF LockInv
<1>2. CASE Granted(p)
  <2>1. /\ fpc[p] = "wait" /\ WaitsFor(p, request[p]) = {}
        /\ SetLock(Owner(p, request[p].cmd), request[p].region, request[p].type)
        /\ request' = [request EXCEPT ![p] = NoRequest] /\ fpc' = [fpc EXCEPT ![p] = "prompt"]
        /\ UNCHANGED flocks /\ UNCHANGED ofdTyped
    BY <1>2, SMTT(60) DEF Granted
  <2>2. Conflicts(Owner(p, request[p].cmd), request[p].region, request[p].type) = {}
    BY <2>1, Zenon DEF WaitsFor
  <2>3. request[p].type \in {"r", "w", "u"}
    BY <1>1, <2>1, SMTT(60) DEF LockTypeOK
  <2>4. /\ \A q \in Users : fpc'[q] = "wait" => q # p /\ fpc[q] = "wait" /\ request'[q] = request[q]
        /\ request' = [q \in Users |-> request'[q]] /\ fpc' = [q \in Users \cup Flockers |-> fpc'[q]]
    BY <1>1, <2>1, Zenon DEF LockTypeOK
  <2>5. ofdTyped' \/ (~ofdTyped /\ request[p].cmd \notin OfdChars)
    BY <2>1, Zenon DEF LockInv, ProcessLocks
  <2>6. PICK c, R, t : c = request[p].cmd /\ R = request[p].region /\ t = request[p].type
    BY SMTT(60)
  <2>7. /\ t \in {"r", "w", "u"} /\ SetLock(Owner(p, c), R, t) /\ Conflicts(Owner(p, c), R, t) = {}
        /\ UNCHANGED flocks
    BY <2>1, <2>2, <2>3, <2>6, SMTT(60)
  <2>8. ofdTyped' \/ (~ofdTyped /\ c \notin OfdChars)
    BY <2>5, <2>6, Zenon
  <2>9. QED
    BY <2>4, <2>7, <2>8, LockSet, Zenon
<1>3. CASE Exit(p)
  <2>1. /\ held' \in SUBSET held /\ UNCHANGED flocks
        /\ request' = [request EXCEPT ![p] = NoRequest] /\ fpc' = [fpc EXCEPT ![p] = "exit"]
    BY <1>3, SMTT(60) DEF Exit
  <2>2. /\ \A q \in Users : fpc'[q] = "wait" => q # p /\ fpc[q] = "wait" /\ request'[q] = request[q]
        /\ request' = [q \in Users |-> request'[q]] /\ fpc' = [q \in Users \cup Flockers |-> fpc'[q]]
        /\ flocks' \in [Flockers -> {"none", "s", "x"}]
        /\ \A q, u \in Flockers : q # u /\ flocks'[q] = "x" => flocks'[u] = "none"
    BY <1>1, <2>1, ZenonT(60) DEF LockTypeOK, LocksExclude
  <2>3. ofdTyped' \/ ~ofdTyped
    BY <1>3, Zenon DEF Exit
  <2>4. QED
    BY <2>1, <2>2, <2>3, LockKept, Zenon
<1>4. QED
  BY <1>2, <1>3, TypedStep, Zenon

\* The steps of t_flock.c.
LEMMA FlockStep ==
    ASSUME NEW p \in Flockers, LockInv, Flock(p) \/ FlockFails(p) \/ Unflock(p)
    PROVE  LockInv'
<1>1. LockTypeOK /\ LocksExclude
  BY DEF LockInv
<1>2. UNCHANGED <<held, request, ofdTyped>>
  BY SMTT(60) DEF Flock, FlockFails, Unflock
<1>3. /\ fpc' = [q \in Users \cup Flockers |-> fpc'[q]]
      /\ \A q \in Users : fpc'[q] = "wait" => q # p /\ fpc[q] = "wait"
  BY <1>1, SMTT(60) DEF Flock, FlockFails, Unflock, LockTypeOK
<1>4. /\ flocks' \in [Flockers -> {"none", "s", "x"}]
      /\ \A q, u \in Flockers : q # u /\ flocks'[q] = "x" => flocks'[u] = "none"
  <2>1. CASE UNCHANGED flocks
    BY <1>1, <2>1, SMTT(60) DEF LockTypeOK, LocksExclude
  <2>2. CASE flocks' = [flocks EXCEPT ![p] = "none"]
    BY <1>1, <2>2, SMTT(60) DEF LockTypeOK, LocksExclude
  <2>3. ASSUME NEW t \in {"s", "x"}, FlockFree(p, t), flocks' = [flocks EXCEPT ![p] = t]
        PROVE  /\ flocks' \in [Flockers -> {"none", "s", "x"}]
               /\ \A q, u \in Flockers : q # u /\ flocks'[q] = "x" => flocks'[u] = "none"
    BY <1>1, <2>3, SMTT(60) DEF LockTypeOK, LocksExclude, FlockFree
  <2>4. QED
    BY <2>1, <2>2, <2>3, SMTT(60) DEF Flock, FlockFails, Unflock
<1>5. /\ held' \in SUBSET held /\ request' = [q \in Users |-> request'[q]]
      /\ \A q \in Users : fpc'[q] = "wait" => q # p /\ fpc[q] = "wait" /\ request'[q] = request[q]
  BY <1>1, <1>2, <1>3, SMTT(60) DEF LockTypeOK
<1>6. ofdTyped' \/ ~ofdTyped
  BY <1>2, Zenon
<1>7. QED
  BY <1>3, <1>4, <1>5, <1>6, LockKept, Zenon

\* Nothing happens to the locks.
LEMMA LockStutter == ASSUME LockInv, UNCHANGED lockVars PROVE LockInv'
<1>1. UNCHANGED held /\ UNCHANGED request /\ UNCHANGED flocks /\ UNCHANGED fpc /\ ofdTyped' = ofdTyped
  BY Zenon DEF lockVars
<1>2. LockTypeOK' /\ LocksExclude'
  BY <1>1, SMTT(60) DEF LockInv, LockTypeOK, LocksExclude
<1>3. ProcessLocks => ProcessLocks'
  BY <1>1, Zenon DEF ProcessLocks
<1>4. ofdTyped => ofdTyped'
  BY <1>1, Zenon
<1>5. NoCircularWait'
  <2>1. ASSUME NEW q PROVE WaitsFor(q, request[q])' = WaitsFor(q, request[q])
    BY <1>1, SMTT(60) DEF WaitsFor, Conflicts
  <2>2. QED
    BY <1>1, <2>1, ZenonT(60) DEF LockInv, NoCircularWait
<1>6. QED
  BY <1>2, <1>3, <1>4, <1>5, Zenon DEF LockInv

----------------------------------------------------------------------------
(***************************************************************************)
(* Appending.                                                              *)
(***************************************************************************)
Positions(f, w) == {i \in 1..Len(f) : f[i] = w}

AppendTypeOK ==
    /\ file \in Seq(Writers) /\ offset \in [Writers -> Nat] /\ written \in [Writers -> Nat]
    /\ apc = [w \in Writers |-> apc[w]] /\ append = [w \in Writers |-> append[w]]
    /\ \A w \in Writers : apc[w] = "open" => written[w] = 0

\* Whoever has called lseek() has written nothing behind the place it goes to
\* write at, whatever others have put there since.
BehindOffset ==
    \A w \in Writers : apc[w] = "write" /\ ~append[w] =>
        offset[w] <= Len(file) /\ \A i \in 1..Len(file) : i > offset[w] => file[i] # w

\* Nobody's bytes are missing unless another one, without O_APPEND, has written.
NoneLost == \A w \in Writers : Cardinality(Positions(file, w)) # written[w] =>
                \E v \in Writers : v # w /\ ~append[v] /\ written[v] > 0

AppendInv == AppendTypeOK /\ BehindOffset /\ NoneLost

\* What write() leaves in the file.
LEMMA PutIs ==
    ASSUME NEW f \in Seq(Writers), NEW o \in Nat, NEW n \in Nat, n > 0, o <= Len(f), NEW w \in Writers
    PROVE  /\ Put(f, o, n, w) \in Seq(Writers)
           /\ Len(Put(f, o, n, w)) = IF Len(f) < o + n THEN o + n ELSE Len(f)
           /\ \A i \in 1..Len(Put(f, o, n, w)) :
                 Put(f, o, n, w)[i] = IF i > o /\ i <= o + n THEN w ELSE f[i]
<1> DEFINE m == IF Len(f) < o + n THEN o + n ELSE Len(f)
           g == [i \in 1..m |-> IF i > o /\ i <= o + n THEN w ELSE f[i]]
<1>1. m \in Nat
  BY SMTT(60)
<1>2. ASSUME NEW i \in 1..m PROVE (IF i > o /\ i <= o + n THEN w ELSE f[i]) \in Writers
  <2>1. CASE i > o /\ i <= o + n
    BY <2>1, SMTT(60)
  <2>2. CASE ~(i > o /\ i <= o + n)
    <3>1. i \in 1..Len(f)
      BY <2>2, SMTT(60)
    <3>2. f[i] \in Writers
      BY <3>1, SMTT(60)
    <3>3. QED
      BY <2>2, <3>2, SMTT(60)
  <2>3. QED
    BY <2>1, <2>2, SMTT(60)
<1>3. g \in [1..m -> Writers]
  BY <1>2, SMTT(60)
<1> HIDE DEF m
<1>4. g \in Seq(Writers) /\ Len(g) = m
  BY <1>1, <1>3, SMTT(60)
<1>5. Put(f, o, n, w) = g
  BY SMTT(60) DEF Put, m
<1>6. QED
  BY <1>4, <1>5, SMTT(60) DEF m

\* A file is finite.
LEMMA Count == ASSUME NEW f \in Seq(Writers), NEW w
               PROVE  IsFiniteSet(Positions(f, w)) /\ Cardinality(Positions(f, w)) \in Nat
<1>1. IsFiniteSet(1..Len(f))
  BY FS_Interval, SMTT(60)
<1>2. QED
  BY <1>1, FS_Subset, FS_CardinalityType, SMTT(60) DEF Positions

\* The bytes of the one that writes n, if it overwrites none of its own ...
LEMMA PutMine ==
    ASSUME NEW f \in Seq(Writers), NEW o \in Nat, NEW n \in Nat, n > 0, o <= Len(f), NEW w \in Writers,
           \A i \in 1..Len(f) : i > o => f[i] # w
    PROVE  Cardinality(Positions(Put(f, o, n, w), w)) = Cardinality(Positions(f, w)) + n
<1> DEFINE A == Positions(f, w)
           B == (o + 1)..(o + n)
<1>1. Positions(Put(f, o, n, w), w) = A \cup B
  <2>1. PICK g : g = Put(f, o, n, w)
    BY SMTT(60)
  <2>2. /\ Len(g) = IF Len(f) < o + n THEN o + n ELSE Len(f)
        /\ \A i \in 1..Len(g) : g[i] = IF i > o /\ i <= o + n THEN w ELSE f[i]
    BY <2>1, PutIs, ZenonT(60)
  <2>3. Len(f) \in Nat
    OBVIOUS
  <2>4. ASSUME NEW i \in Positions(g, w) PROVE i \in A \cup B
    BY <2>2, <2>3, <2>4, SMTT(60) DEF Positions
  <2>5. ASSUME NEW i \in A PROVE i \in Positions(g, w)
    BY <2>2, <2>3, <2>5, SMTT(60) DEF Positions
  <2>6. ASSUME NEW i \in B PROVE i \in Positions(g, w)
    BY <2>2, <2>3, <2>6, SMTT(60) DEF Positions
  <2>7. QED
    BY <2>1, <2>4, <2>5, <2>6, SMTT(60)
<1>2. A \cap B = {}
  BY SMTT(60) DEF Positions
<1>3. IsFiniteSet(B) /\ Cardinality(B) = n
  BY FS_Interval, SMTT(60)
<1>4. IsFiniteSet(A) /\ Cardinality(A) \in Nat
  BY Count, SMTT(60)
<1>5. Cardinality(A \cap B) = 0
  BY <1>2, FS_EmptySet, Zenon
<1>6. Cardinality(A \cup B) = Cardinality(A) + Cardinality(B) - Cardinality(A \cap B)
  BY <1>3, <1>4, FS_Union, Zenon
<1>7. QED
  BY <1>1, <1>3, <1>4, <1>5, <1>6, SMTT(60)

\* ... and those of the others, if it writes at the end.
LEMMA PutOthers ==
    ASSUME NEW f \in Seq(Writers), NEW n \in Nat, n > 0, NEW w \in Writers, NEW u \in Writers, u # w
    PROVE  Positions(Put(f, Len(f), n, w), u) = Positions(f, u)
<1>1. PICK o : o = Len(f)
  OBVIOUS
<1>2. o \in Nat /\ o <= Len(f) /\ Len(f) < o + n
  BY <1>1, SMTT(60)
<1>3. PICK g : g = Put(f, o, n, w)
  BY SMTT(60)
<1>4. /\ Len(g) = IF Len(f) < o + n THEN o + n ELSE Len(f)
      /\ \A i \in 1..Len(g) : g[i] = IF i > o /\ i <= o + n THEN w ELSE f[i]
  BY <1>2, <1>3, PutIs, ZenonT(60)
<1>5. Positions(g, u) = Positions(f, u)
  BY <1>1, <1>2, <1>4, SMTT(60) DEF Positions
<1>6. QED
  BY <1>1, <1>3, <1>5, SMTT(60)

\* Nobody has opened the file at first.
LEMMA AppendStart == ASSUME AppendInit PROVE AppendInv
<1>1. /\ file = <<>> /\ offset = [w \in Writers |-> 0] /\ written = [w \in Writers |-> 0]
      /\ apc = [w \in Writers |-> "open"] /\ append = [w \in Writers |-> FALSE]
  BY SMTT(60) DEF AppendInit
<1>2. append = [w \in Writers |-> append[w]]
  BY <1>1, Zenon
<1>3. AppendTypeOK
  BY <1>1, <1>2, SMTT(60) DEF AppendTypeOK
<1>4. BehindOffset
  BY <1>1, SMTT(60) DEF BehindOffset
<1>5. ASSUME NEW w \in Writers PROVE Cardinality(Positions(file, w)) = written[w]
  <2>1. Positions(file, w) = {}
    BY <1>1, SMTT(60) DEF Positions
  <2>2. QED
    BY <1>1, <2>1, FS_EmptySet, Zenon
<1>6. NoneLost
  BY <1>5, SMTT(60) DEF NoneLost
<1>7. QED
  BY <1>3, <1>4, <1>6 DEF AppendInv

\* A step that writes nothing.
LEMMA NothingWritten ==
    ASSUME NEW w \in Writers, AppendInv, UNCHANGED <<file, append, written>>,
           apc' = [v \in Writers |-> apc'[v]], offset' \in [Writers -> Nat],
           \A v \in Writers : v # w => apc'[v] = apc[v] /\ offset'[v] = offset[v],
           apc'[w] # "open", apc'[w] = "write" /\ ~append[w] => offset'[w] = Len(file)
    PROVE  AppendInv'
<1>1. AppendTypeOK'
  BY SMTT(60) DEF AppendInv, AppendTypeOK
<1>2. BehindOffset'
  <2> SUFFICES ASSUME NEW v \in Writers, apc'[v] = "write", ~append[v]
               PROVE  offset'[v] <= Len(file) /\ \A i \in 1..Len(file) : i > offset'[v] => file[i] # v
    BY SMTT(60) DEF BehindOffset
  <2>1. CASE v = w
    <3>1. offset'[v] = Len(file) /\ Len(file) \in Nat
      BY <2>1, SMTT(60) DEF AppendInv, AppendTypeOK
    <3>2. QED
      BY <3>1, SMTT(60)
  <2>2. CASE v # w
    BY <2>2, SMTT(60) DEF AppendInv, BehindOffset
  <2>3. QED
    BY <2>1, <2>2, SMTT(60)
<1>3. NoneLost'
  BY SMTT(60) DEF AppendInv, NoneLost
<1>4. QED
  BY <1>1, <1>2, <1>3, SMTT(60) DEF AppendInv

\* open(): who opens the file has not written to it yet, and so is nobody's
\* excuse for a byte that is missing.
LEMMA OpenFileStep == ASSUME NEW w \in Writers, AppendInv, OpenFile(w) PROVE AppendInv'
<1>1. PICK a : append' = [append EXCEPT ![w] = a]
  BY Zenon DEF OpenFile
<1>2. /\ apc[w] = "open" /\ apc' = [apc EXCEPT ![w] = "loop"]
      /\ UNCHANGED <<file, offset, written>>
  BY SMTT(60) DEF OpenFile
<1>3. AppendTypeOK
  BY SMTT(60) DEF AppendInv
<1>4. \A v \in Writers : v # w => append'[v] = append[v]
  BY <1>1, <1>3, SMTT(60) DEF AppendTypeOK
<1>5. AppendTypeOK'
  BY <1>1, <1>2, <1>3, Zenon DEF AppendTypeOK
<1>6. BehindOffset'
  BY <1>2, <1>3, <1>4, SMTT(60) DEF AppendInv, BehindOffset, AppendTypeOK
<1>7. written[w] = 0
  BY <1>2, <1>3, SMTT(60) DEF AppendTypeOK
<1>8. NoneLost'
  <2> SUFFICES ASSUME NEW u \in Writers, Cardinality(Positions(file, u)) # written[u]
               PROVE  \E v \in Writers : v # u /\ ~append'[v] /\ written[v] > 0
    BY <1>2, SMTT(60) DEF NoneLost
  <2>1. PICK v \in Writers : v # u /\ ~append[v] /\ written[v] > 0
    BY SMTT(60) DEF AppendInv, NoneLost
  <2>2. v # w
    BY <1>7, <2>1, SMTT(60)
  <2>3. QED
    BY <1>4, <2>1, <2>2, SMTT(60)
<1>9. QED
  BY <1>5, <1>6, <1>8, SMTT(60) DEF AppendInv

\* The state after write(): n bytes more of w, from o on.
LEMMA WriteIs ==
    ASSUME NEW w \in Writers, AppendInv, Write(w)
    PROVE  \E n \in Nat, o \in Nat :
              /\ n > 0 /\ o <= Len(file) /\ file' = Put(file, o, n, w)
              /\ append[w] => o = Len(file)
              /\ \A i \in 1..Len(file) : i > o => file[i] # w
              /\ offset' = [offset EXCEPT ![w] = o + n] /\ written' = [written EXCEPT ![w] = @ + n]
<1>1. PICK n \in 1..Chunk(w) :
        LET o == IF append[w] THEN Len(file) ELSE offset[w]
        IN  /\ file' = Put(file, o, n, w)
            /\ offset' = [offset EXCEPT ![w] = o + n]
            /\ written' = [written EXCEPT ![w] = @ + n]
  BY Zenon DEF Write
<1>2. AppendTypeOK /\ apc[w] = "write"
  BY SMTT(60) DEF AppendInv, Write
<1>3. Chunk(w) \in Int
  BY <1>2, AppendAssumption, SMTT(60) DEF Chunk, AppendTypeOK
<1>4. n \in Nat /\ n > 0
  BY <1>3, SMTT(60)
<1>5. CASE append[w]
  <2>1. PICK o : o = Len(file)
    BY Zenon
  <2>2. o \in Nat /\ o <= Len(file) /\ \A i \in 1..Len(file) : i > o => file[i] # w
    BY <1>2, <2>1, SMTT(60) DEF AppendTypeOK
  <2>3. /\ file' = Put(file, o, n, w) /\ offset' = [offset EXCEPT ![w] = o + n]
        /\ written' = [written EXCEPT ![w] = @ + n]
    BY <1>1, <1>5, <2>1, Zenon
  <2>4. QED
    BY <1>4, <2>1, <2>2, <2>3, Zenon
<1>6. CASE ~append[w]
  <2>1. PICK o : o = offset[w]
    OBVIOUS
  <2>2. o \in Nat /\ o <= Len(file) /\ \A i \in 1..Len(file) : i > o => file[i] # w
    BY <1>2, <1>6, <2>1, SMTT(60) DEF AppendTypeOK, AppendInv, BehindOffset
  <2>3. /\ file' = Put(file, o, n, w) /\ offset' = [offset EXCEPT ![w] = o + n]
        /\ written' = [written EXCEPT ![w] = @ + n]
    BY <1>1, <1>6, <2>1, Zenon
  <2>4. QED
    BY <1>4, <1>6, <2>2, <2>3, Zenon
<1>7. QED
  BY <1>5, <1>6, SMTT(60)

\* write(): the bytes of w grow by n; if those of others shrink, w is to blame.
LEMMA WriteStep == ASSUME NEW w \in Writers, AppendInv, Write(w) PROVE AppendInv'
<1>1. PICK n \in Nat, o \in Nat :
              /\ n > 0 /\ o <= Len(file) /\ file' = Put(file, o, n, w)
              /\ append[w] => o = Len(file)
              /\ \A i \in 1..Len(file) : i > o => file[i] # w
              /\ offset' = [offset EXCEPT ![w] = o + n] /\ written' = [written EXCEPT ![w] = @ + n]
  BY WriteIs, Zenon
<1>2. apc[w] = "write" /\ apc' = [apc EXCEPT ![w] = "loop"] /\ UNCHANGED append
  BY DEF Write
<1>3. AppendTypeOK /\ file \in Seq(Writers) /\ Len(file) \in Nat
  BY SMTT(60) DEF AppendInv, AppendTypeOK
<1>4. PICK g : g = Put(file, o, n, w)
  OBVIOUS
<1>5. /\ g \in Seq(Writers) /\ Len(g) = IF Len(file) < o + n THEN o + n ELSE Len(file)
      /\ \A i \in 1..Len(g) : g[i] = IF i > o /\ i <= o + n THEN w ELSE file[i]
  BY <1>1, <1>3, <1>4, PutIs, ZenonT(60)
<1>6. file' = g
  BY <1>1, <1>4, SMTT(60)
<1>7. AppendTypeOK'
  <2>1. offset' \in [Writers -> Nat] /\ written' \in [Writers -> Nat]
    BY <1>1, <1>3, SMTT(60) DEF AppendTypeOK
  <2>2. apc' = [v \in Writers |-> apc'[v]] /\ append' = [v \in Writers |-> append'[v]]
    BY <1>2, <1>3, Zenon DEF AppendTypeOK
  <2>3. ASSUME NEW v \in Writers, apc'[v] = "open" PROVE written'[v] = 0
    <3>1. v # w /\ apc[v] = "open"
      BY <1>2, <1>3, <2>3, SMTT(60) DEF AppendTypeOK
    <3>2. QED
      BY <1>1, <1>3, <3>1 DEF AppendTypeOK
  <2>4. QED
    BY <1>5, <1>6, <2>1, <2>2, <2>3, SMTT(60) DEF AppendTypeOK
<1>8. BehindOffset'
  <2> SUFFICES ASSUME NEW v \in Writers, apc'[v] = "write", ~append[v]
               PROVE  offset'[v] <= Len(g) /\ \A i \in 1..Len(g) : i > offset'[v] => g[i] # v
    BY <1>2, <1>6, SMTT(60) DEF BehindOffset
  <2>1. v # w /\ apc[v] = "write"
    BY <1>2, <1>3, SMTT(60) DEF AppendTypeOK
  <2>2. offset'[v] = offset[v] /\ offset[v] \in Nat
    BY <1>1, <1>3, <2>1, SMTT(60) DEF AppendTypeOK
  <2>3. offset[v] <= Len(file) /\ \A i \in 1..Len(file) : i > offset[v] => file[i] # v
    BY <2>1, SMTT(60) DEF AppendInv, BehindOffset
  <2>4. offset[v] <= Len(g)
    BY <1>3, <1>5, <2>2, <2>3, SMTT(60)
  <2>5. ASSUME NEW i \in 1..Len(g), i > offset[v] PROVE g[i] # v
    <3>1. CASE i > o /\ i <= o + n
      BY <1>5, <2>1, <3>1, SMTT(60)
    <3>2. CASE ~(i > o /\ i <= o + n)
      <4>1. g[i] = file[i] /\ i \in 1..Len(file)
        BY <1>1, <1>3, <1>5, <3>2, SMTT(60)
      <4>2. QED
        BY <2>3, <2>5, <4>1, SMTT(60)
    <3>3. QED
      BY <3>1, <3>2, SMTT(60)
  <2>6. QED
    BY <2>2, <2>4, <2>5, SMTT(60)
<1>9. NoneLost'
  <2> SUFFICES ASSUME NEW u \in Writers, Cardinality(Positions(g, u)) # written'[u]
               PROVE  \E v \in Writers : v # u /\ ~append[v] /\ written'[v] > 0
    BY <1>2, <1>6, SMTT(60) DEF NoneLost
  <2>1. \A v \in Writers : written'[v] \in Nat /\ written[v] \in Nat /\ written'[v] >= written[v]
    BY <1>1, <1>3, SMTT(60) DEF AppendTypeOK
  <2>2. ASSUME Cardinality(Positions(file, u)) # written[u]
        PROVE  \E v \in Writers : v # u /\ ~append[v] /\ written'[v] > 0
    <3>1. PICK v \in Writers : v # u /\ ~append[v] /\ written[v] > 0
      BY <2>2, SMTT(60) DEF AppendInv, NoneLost
    <3>2. written'[v] > 0
      BY <2>1, <3>1, SMTT(60)
    <3>3. QED
      BY <3>1, <3>2, SMTT(60)
  <2>3. CASE u = w
    <3>1. Cardinality(Positions(g, w)) = Cardinality(Positions(file, w)) + n
      BY <1>1, <1>3, <1>4, PutMine, SMTT(60)
    <3>2. written'[w] = written[w] + n
      BY <1>1, <1>3, SMTT(60) DEF AppendTypeOK
    <3>3. QED
      BY <2>2, <2>3, <3>1, <3>2, SMTT(60)
  <2>4. CASE u # w /\ append[w]
    <3>1. Positions(g, u) = Positions(file, u)
      BY <1>1, <1>3, <1>4, <2>4, PutOthers, SMTT(60)
    <3>2. written'[u] = written[u]
      BY <1>1, <1>3, <2>4, SMTT(60) DEF AppendTypeOK
    <3>3. QED
      BY <2>2, <3>1, <3>2, SMTT(60)
  <2>5. CASE u # w /\ ~append[w]
    <3>1. written'[w] > 0
      BY <1>1, <1>3, SMTT(60) DEF AppendTypeOK
    <3>2. QED
      BY <2>5, <3>1, SMTT(60)
  <2>6. QED
    BY <2>3, <2>4, <2>5, SMTT(60)
<1>10. QED
  BY <1>7, <1>8, <1>9 DEF AppendInv

\* The other steps of the writers.
LEMMA AppendStep == ASSUME AppendInv, AppendNext PROVE AppendInv'
<1>1. AppendTypeOK
  BY SMTT(60) DEF AppendInv
<1>2. CASE Choose
  <2>1. UNCHANGED <<append, file, offset, written, apc>>
    BY <1>2, SMTT(60) DEF Choose
  <2>2. QED
    BY <2>1, SMTT(60) DEF AppendInv, AppendTypeOK, BehindOffset, NoneLost
<1>3. ASSUME NEW w \in Writers, Loop(w) PROVE AppendInv'
  <2>1. /\ UNCHANGED <<file, append, written>> /\ apc' = [apc EXCEPT ![w] = "write"]
        /\ offset' = IF append[w] THEN offset ELSE [offset EXCEPT ![w] = Len(file)]
    BY <1>3, SMTT(60) DEF Loop
  <2>2. Len(file) \in Nat
    BY <1>1, SMTT(60) DEF AppendTypeOK
  <2>3. offset' \in [Writers -> Nat] /\ \A v \in Writers : v # w => offset'[v] = offset[v]
    BY <1>1, <2>1, <2>2, SMTT(60) DEF AppendTypeOK
  <2>4. ~append[w] => offset'[w] = Len(file)
    BY <1>1, <2>1, SMTT(60) DEF AppendTypeOK
  <2>5. /\ apc' = [v \in Writers |-> apc'[v]] /\ apc'[w] = "write"
        /\ \A v \in Writers : v # w => apc'[v] = apc[v]
    BY <1>1, <2>1, Zenon DEF AppendTypeOK
  <2>6. QED
    BY <2>1, <2>3, <2>4, <2>5, NothingWritten, Zenon
<1>4. ASSUME NEW w \in Writers, Done(w) \/ WriteFails(w) PROVE AppendInv'
  <2>1. PICK a \in {"done", "failed"} : apc' = [apc EXCEPT ![w] = a]
    BY <1>4, SMTT(60) DEF Done, WriteFails
  <2>2. UNCHANGED <<file, append, written, offset>>
    BY <1>4, SMTT(60) DEF Done, WriteFails
  <2>3. /\ apc' = [v \in Writers |-> apc'[v]] /\ apc'[w] = a
        /\ \A v \in Writers : v # w => apc'[v] = apc[v]
    BY <1>1, <2>1, Zenon DEF AppendTypeOK
  <2>4. QED
    BY <1>1, <2>1, <2>2, <2>3, NothingWritten, Zenon DEF AppendTypeOK
<1>5. QED
  BY <1>2, <1>3, <1>4, OpenFileStep, WriteStep, SMTT(60) DEF AppendNext

\* Nothing happens to the file.
LEMMA AppendStutter == ASSUME AppendInv, UNCHANGED appendVars PROVE AppendInv'
<1>1. UNCHANGED <<append, file, offset, written, apc>>
  BY SMTT(60) DEF appendVars
<1>2. QED
  BY <1>1, SMTT(60) DEF AppendInv, AppendTypeOK, BehindOffset, NoneLost

\* What the writers' invariant says of the property.
LEMMA AppendImplies == ASSUME AppendInv PROVE NoLostAppend
<1>1. \A i \in 1..Len(file) : file[i] \in Writers
  BY SMTT(60) DEF AppendInv, AppendTypeOK
<1>2. \A w \in Writers : BytesOf(w) = Cardinality(Positions(file, w))
  BY DEF BytesOf, Positions
<1>3. QED
  BY <1>1, <1>2, SMTT(60) DEF AppendInv, NoneLost, NoLostAppend

----------------------------------------------------------------------------
SharingInv == PidInv /\ LockInv /\ AppendInv

\* For every set of daemons, however they start, fail, die and come back: one
\* runs at a time until a caller deletes the file (create_pid_file.c:15-16), and
\* each that runs holds the lock on a file with its own process ID.  For every set
\* of users and whatever they type (i_fcntl_locking.c, t_flock.c): locks exclude,
\* and those who lock for their process do not wait in a circle.  For every set of
\* writers, sizes and short writes (atomic_append.c): O_APPEND loses no byte.
THEOREM SharingCorrect == SharingSpec => []SharingRight
<1>1. SharingInit => SharingInv
  BY PidStart, LockStart, AppendStart DEF SharingInit, SharingInv
<1>2. SharingInv /\ [SharingNext]_sharingVars => SharingInv'
  <2> SUFFICES ASSUME SharingInv, [SharingNext]_sharingVars PROVE SharingInv'
    BY Zenon
  <2>1. PidInv /\ LockInv /\ AppendInv
    BY DEF SharingInv
  <2>2. PidInv'
    BY <2>1, PidStep, Zenon DEF SharingNext, sharingVars
  <2>3. LockInv'
    BY <2>1, UserStep, FlockStep, LockStutter, Zenon DEF SharingNext, sharingVars, LockingNext, FlockNext
  <2>4. AppendInv'
    BY <2>1, AppendStep, AppendStutter, Zenon DEF SharingNext, sharingVars
  <2>5. QED
    BY <2>2, <2>3, <2>4 DEF SharingInv
<1>3. SharingInv => SharingRight
  BY PidImplies, AppendImplies DEF SharingInv, SharingRight, LockInv
<1>4. QED
  BY <1>1, <1>2, <1>3, PTL DEF SharingSpec
=============================================================================
