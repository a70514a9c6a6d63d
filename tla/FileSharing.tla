------------------------------- MODULE FileSharing -------------------------------
(***************************************************************************)
(* Processes that share a file: with locks on it, appending to it without  *)
(* any, and to make sure that one of them runs.                            *)
(***************************************************************************)
EXTENDS Integers, FiniteSets, Sequences

----------------------------------------------------------------------------
(***************************************************************************)
(* filelock/i_fcntl_locking.c: processes whose users lock, test and unlock *)
(* regions of one file, and filelock/t_flock.c, which takes one flock()    *)
(* lock.  A region is a set of bytes.  A lock of the commands g, s and w   *)
(* belongs to the process, one of G, S and W to its open file description; *)
(* a flock() lock conflicts with neither.                                  *)
(***************************************************************************)
CONSTANTS Users,        \* processes running i_fcntl_locking
          Flockers,     \* processes running t_flock
          Bytes,        \* of the file
          MaxTyped      \* bound on the commands of one user

VARIABLES held,         \* record locks: [owner, byte, type]
          request,      \* what a process waits for in F_SETLKW, or NoRequest
          flocks,       \* flock() locks: the type each process holds
          fpc,
          typed,
          ofdTyped      \* history: has a command for OFD locks been typed?

lockVars == <<held, request, flocks, fpc, typed, ofdTyped>>

NoRequest == [cmd |-> "none"]
Regions == SUBSET Bytes \ {{}}
CmdChars == {"g", "s", "w", "G", "S", "W"}

LockInit == /\ held = {} /\ request = [p \in Users |-> NoRequest]
            /\ flocks = [p \in Flockers |-> "none"]
            /\ fpc = [p \in Users \cup Flockers |-> IF p \in Users THEN "prompt" ELSE "start"]
            /\ typed = [p \in Users |-> 0] /\ ofdTyped = FALSE

----------------------------------------------------------------------------
\* fcntl(): locks of others that conflict with a lock of type t on region R.
Conflicts(o, R, t) == {l \in held : /\ t # "u" /\ l.owner # o /\ l.byte \in R
                                    /\ (t = "w" \/ l.type = "w")}
SetLock(o, R, t) == held' = {l \in held : ~(l.owner = o /\ l.byte \in R)}
                            \cup (IF t = "u" THEN {}
                                  ELSE {[owner |-> o, byte |-> b, type |-> t] : b \in R})

\* BUG: w is taken for W.
MutCommand(c) == [op |-> IF c \in {"g", "G"} THEN "getlk" ELSE IF c \in {"s", "S"} THEN "setlk"
                         ELSE "setlkw",
                  ofd |-> c \in {"G", "S", "W", "w"}]

\* The fcntl() command for a command character.
Command(c) == [op |-> IF c \in {"g", "G"} THEN "getlk" ELSE IF c \in {"s", "S"} THEN "setlk"
                      ELSE "setlkw",
               ofd |-> c \in {"G", "S", "W"}]
Owner(p, c) == <<p, Command(c).ofd>>

\* The owners for whose locks a waiting process waits.  Only waits for and with
\* process locks count for the deadlock check of F_SETLKW.
WaitsFor(p, r) == {l.owner : l \in Conflicts(Owner(p, r.cmd), r.region, r.type)}
Waits(p, q) == /\ request[p] # NoRequest /\ ~Command(request[p].cmd).ofd
               /\ <<q, FALSE>> \in WaitsFor(p, request[p])

\* q waits for p, at once or through others: p is in every set of processes that
\* contains q and whomever a member waits for.
Closed(S) == \A u \in S, v \in Users : Waits(u, v) => v \in S
Reaches(q, p) == \A S \in SUBSET Users : q \in S /\ Closed(S) => p \in S
WouldDeadlock(p, r) == /\ ~Command(r.cmd).ofd
                       /\ \E q \in Users : <<q, FALSE>> \in WaitsFor(p, r) /\ Reaches(q, p)

----------------------------------------------------------------------------
\* One command of the loop: F_GETLK only looks; F_SETLK fails if there is a
\* conflict, F_SETLKW waits, unless that would be a deadlock.
Typed(p) == \E c \in CmdChars, t \in {"r", "w", "u"}, R \in Regions :
    LET o == Owner(p, c)
        r == [cmd |-> c, type |-> t, region |-> R]
    IN  /\ fpc[p] = "prompt" /\ typed[p] < MaxTyped
        /\ typed' = [typed EXCEPT ![p] = @ + 1]
        /\ ofdTyped' = (ofdTyped \/ c \in {"G", "S", "W"})
        /\ \/ /\ Command(c).op # "getlk" /\ Conflicts(o, R, t) = {}
              /\ SetLock(o, R, t)
              /\ UNCHANGED <<request, fpc>>
           \/ /\ Command(c).op = "setlkw" /\ Conflicts(o, R, t) # {} /\ ~WouldDeadlock(p, r)
              /\ request' = [request EXCEPT ![p] = r] /\ fpc' = [fpc EXCEPT ![p] = "wait"]
              /\ UNCHANGED held
           \/ /\ \/ Command(c).op = "getlk"
                 \/ Command(c).op = "setlk" /\ Conflicts(o, R, t) # {}
                 \/ Command(c).op = "setlkw" /\ Conflicts(o, R, t) # {} /\ WouldDeadlock(p, r)
              /\ UNCHANGED <<held, request, fpc>>
        /\ UNCHANGED flocks

\* A waiting F_SETLKW is granted.
Granted(p) == /\ fpc[p] = "wait" /\ WaitsFor(p, request[p]) = {}
              /\ SetLock(Owner(p, request[p].cmd), request[p].region, request[p].type)
              /\ request' = [request EXCEPT ![p] = NoRequest] /\ fpc' = [fpc EXCEPT ![p] = "prompt"]
              /\ UNCHANGED <<flocks, typed, ofdTyped>>

\* End of input, or the process is killed: all of its locks are released.
Exit(p) == /\ fpc[p] \in {"prompt", "wait"}
           /\ held' = {l \in held : l.owner[1] # p}
           /\ request' = [request EXCEPT ![p] = NoRequest] /\ fpc' = [fpc EXCEPT ![p] = "exit"]
           /\ UNCHANGED <<flocks, typed, ofdTyped>>

----------------------------------------------------------------------------
\* BUG: LOCK_SH is taken as compatible with LOCK_EX.
MutFlockFree(p, t) == t = "s" \/ \A q \in Flockers \ {p} : flocks[q] = "none"

FlockFree(p, t) == \A q \in Flockers \ {p} :
                      flocks[q] = "none" \/ (t = "s" /\ flocks[q] = "s")

\* flock(): granted, or, without LOCK_NB, waited for.
Flock(p) == \E t \in {"s", "x"} :
    /\ fpc[p] = "start" /\ FlockFree(p, t)
    /\ flocks' = [flocks EXCEPT ![p] = t] /\ fpc' = [fpc EXCEPT ![p] = "hold"]
    /\ UNCHANGED <<held, request, typed, ofdTyped>>

\* With LOCK_NB: EWOULDBLOCK, fatal().
FlockFails(p) == /\ fpc[p] = "start" /\ \E t \in {"s", "x"} : ~FlockFree(p, t)
                 /\ fpc' = [fpc EXCEPT ![p] = "exit"]
                 /\ UNCHANGED <<held, request, flocks, typed, ofdTyped>>

\* sleep(), then LOCK_UN.
Unflock(p) == /\ fpc[p] = "hold"
              /\ flocks' = [flocks EXCEPT ![p] = "none"] /\ fpc' = [fpc EXCEPT ![p] = "exit"]
              /\ UNCHANGED <<held, request, typed, ofdTyped>>

LockingNext == \E p \in Users : Typed(p) \/ Granted(p) \/ Exit(p)
FlockNext == \E p \in Flockers : Flock(p) \/ FlockFails(p) \/ Unflock(p)

----------------------------------------------------------------------------
\* Users who use g, s and w only never wait for each other in a circle: the last
\* one is told "failed (deadlock)" (i_fcntl_locking.c:213) and can go on.
NoCircularWait ==
    ~ofdTyped => ~\E P \in SUBSET {p \in Users : fpc[p] = "wait"} :
                     P # {} /\ \A p \in P : \E o \in WaitsFor(p, request[p]) : o[1] \in P

\* Whatever is locked, waited for, granted and dropped: nobody shares a byte
\* with a writer, be it a process or an open file description of it, and nobody
\* shares the file with a holder of LOCK_EX.
LocksExclude ==
    /\ \A l, m \in held : l.owner # m.owner /\ l.byte = m.byte => l.type = "r" /\ m.type = "r"
    /\ \A p, q \in Flockers : p # q /\ flocks[p] = "x" => flocks[q] = "none"

----------------------------------------------------------------------------
(***************************************************************************)
(* Processes that add to the end of one file at the same time.             *)
(*   "book"      fileio/atomic_append.c: a byte at a time; a short write   *)
(*               ends the program                                          *)
(*   "exercise"  exercises/05/atomic-append.c: a buffer at a time; a short *)
(*               write is continued                                        *)
(* Each process opens the file with O_APPEND or calls lseek() to the end   *)
(* before every write().  A byte is its writer.                            *)
(***************************************************************************)
CONSTANTS Writers, NumBytes, BufferSize

ASSUME AppendAssumption == NumBytes \in Nat /\ BufferSize \in Nat

VARIABLES prog,         \* which of the two programs is run
          append,       \* the O_APPEND flag of each process
          file, offset, written, apc

appendVars == <<prog, append, file, offset, written, apc>>

AppendInit == /\ prog = "book" /\ append = [w \in Writers |-> FALSE]
              /\ file = <<>> /\ offset = [w \in Writers |-> 0]
              /\ written = [w \in Writers |-> 0] /\ apc = [w \in Writers |-> "open"]

\* open(), with O_APPEND if the arguments say so.
OpenFile(w) == /\ apc[w] = "open"
               /\ \E a \in BOOLEAN : append' = [append EXCEPT ![w] = a]
               /\ apc' = [apc EXCEPT ![w] = "loop"]
               /\ UNCHANGED <<prog, file, offset, written>>

\* Whichever program it is, it is the same for all; chosen before any runs.
Choose == /\ \A w \in Writers : apc[w] = "open" /\ prog = "book"
          /\ prog' = "exercise"
          /\ UNCHANGED <<append, file, offset, written, apc>>

\* The head of the loop; lseek(SEEK_END) if O_APPEND is not used.
Loop(w) == /\ apc[w] = "loop" /\ written[w] < NumBytes
           /\ offset' = IF append[w] THEN offset ELSE [offset EXCEPT ![w] = Len(file)]
           /\ apc' = [apc EXCEPT ![w] = "write"]
           /\ UNCHANGED <<prog, append, file, written>>

Done(w) == /\ apc[w] = "loop" /\ written[w] = NumBytes
           /\ apc' = [apc EXCEPT ![w] = "done"]
           /\ UNCHANGED <<prog, append, file, offset, written>>

\* write() of n bytes at offset o.
Put(f, o, n, w) == [i \in 1..(IF Len(f) < o + n THEN o + n ELSE Len(f)) |->
                       IF i > o /\ i <= o + n THEN w ELSE f[i]]

Chunk(w) == IF prog = "book" THEN 1
            ELSE IF NumBytes - written[w] < BufferSize THEN NumBytes - written[w] ELSE BufferSize

\* BUG: the whole chunk is counted after a short write.
MutWrite(w) == /\ apc[w] = "write"
               /\ \E n \in 1..Chunk(w) :
                     LET o == IF append[w] THEN Len(file) ELSE offset[w]
                     IN  /\ file' = Put(file, o, n, w)
                         /\ offset' = [offset EXCEPT ![w] = o + n]
                         /\ written' = [written EXCEPT ![w] = @ + Chunk(w)]
               /\ apc' = [apc EXCEPT ![w] = "loop"]
               /\ UNCHANGED <<prog, append>>

\* write(): with O_APPEND the offset is moved to the end in the same step.
Write(w) == /\ apc[w] = "write"
            /\ \E n \in 1..Chunk(w) :
                  LET o == IF append[w] THEN Len(file) ELSE offset[w]
                  IN  /\ file' = Put(file, o, n, w)
                      /\ offset' = [offset EXCEPT ![w] = o + n]
                      /\ written' = [written EXCEPT ![w] = @ + n]
            /\ apc' = [apc EXCEPT ![w] = "loop"]
            /\ UNCHANGED <<prog, append>>

\* write() fails: fatal() or errExit().
WriteFails(w) == /\ apc[w] = "write"
                 /\ apc' = [apc EXCEPT ![w] = "failed"]
                 /\ UNCHANGED <<prog, append, file, offset, written>>

AppendNext == Choose \/ \E w \in Writers : OpenFile(w) \/ Loop(w) \/ Done(w) \/ Write(w) \/ WriteFails(w)

BytesOf(w) == Cardinality({i \in 1..Len(file) : file[i] = w})

----------------------------------------------------------------------------
\* Every byte of the file is some writer's, and a process finds in it as many of
\* its bytes as it wrote, unless one that calls lseek() has written: with O_APPEND
\* no byte is lost, however the writes interleave (atomic_append.c:20-26).
NoLostAppend ==
    /\ \A i \in 1..Len(file) : file[i] \in Writers
    /\ \A w \in Writers : BytesOf(w) # written[w] =>
            \E v \in Writers \ {w} : ~append[v] /\ written[v] > 0

----------------------------------------------------------------------------
(***************************************************************************)
(* filelock/create_pid_file.c on top of filelock/region_locking.c: daemons *)
(* that call createPidFile() to make sure that one instance runs.  The     *)
(* caller "is responsible for deleting 'pidFile'"; it may also forget to.  *)
(*                                                                         *)
(* The name refers to an inode, a number; a lock belongs to a process and  *)
(* an inode.  The close-on-exec flag, which no program here uses, and      *)
(* errors other than a lock held by another process are left out.          *)
(***************************************************************************)
CONSTANTS Daemons, MaxInodes

VARIABLES pidFile,      \* the inode the name refers to, 0 if there is none
          inodes,       \* inodes created so far: 1..inodes
          content,      \* the process ID in each inode, NoPid if empty
          lock,         \* the owner of the write lock on each inode
          pfd,          \* the inode each daemon has open, 0 if none
          ppc,
          deleted       \* history: has a caller deleted the file?

pidVars == <<pidFile, inodes, content, lock, pfd, ppc, deleted>>
Nobody == "nobody"
NoPid == "none"

ASSUME PidAssumption == MaxInodes \in Nat /\ Nobody \notin Daemons

PidInit == /\ pidFile = 0 /\ inodes = 0 /\ deleted = FALSE
           /\ content = [i \in 1..MaxInodes |-> NoPid] /\ lock = [i \in 1..MaxInodes |-> Nobody]
           /\ pfd = [d \in Daemons |-> 0] /\ ppc = [d \in Daemons |-> "open"]

Goto(d, from, to) == ppc[d] = from /\ ppc' = [ppc EXCEPT ![d] = to]

\* open(O_RDWR | O_CREAT).
OpenPidFile(d) == /\ Goto(d, "open", "lock")
                  /\ IF pidFile # 0 THEN UNCHANGED <<pidFile, inodes>>
                     ELSE inodes < MaxInodes /\ inodes' = inodes + 1 /\ pidFile' = inodes'
                  /\ pfd' = [pfd EXCEPT ![d] = pidFile']
                  /\ UNCHANGED <<content, lock, deleted>>

\* lockRegion(fd, F_WRLCK, SEEK_SET, 0, 0): the whole file, without waiting.
CanLock(d) == lock[pfd[d]] = Nobody
lockRegion(d) == lock' = [lock EXCEPT ![pfd[d]] = d]

\* BUG: the file is truncated whether or not the lock could be obtained.
MutLocked(d) == /\ Goto(d, "lock", "fatal") /\ ~CanLock(d)
                /\ content' = [content EXCEPT ![pfd[d]] = NoPid]
                /\ pfd' = [pfd EXCEPT ![d] = 0]
                /\ UNCHANGED <<pidFile, inodes, lock, deleted>>

\* Another instance runs: fatal().
Locked(d) == /\ Goto(d, "lock", "fatal") /\ ~CanLock(d)
             /\ pfd' = [pfd EXCEPT ![d] = 0]
             /\ UNCHANGED <<pidFile, inodes, content, lock, deleted>>

Lock(d) == /\ Goto(d, "lock", "truncate") /\ CanLock(d)
           /\ lockRegion(d)
           /\ UNCHANGED <<pidFile, inodes, content, pfd, deleted>>

Truncate(d) == /\ Goto(d, "truncate", "write")
               /\ content' = [content EXCEPT ![pfd[d]] = NoPid]
               /\ UNCHANGED <<pidFile, inodes, lock, pfd, deleted>>

WritePid(d) == /\ Goto(d, "write", "run")
               /\ content' = [content EXCEPT ![pfd[d]] = d]
               /\ UNCHANGED <<pidFile, inodes, lock, pfd, deleted>>

\* The caller deletes the file just before it ends, as it should ...
Delete(d) == /\ Goto(d, "run", "end")
             /\ pidFile' = 0 /\ deleted' = TRUE
             /\ UNCHANGED <<inodes, content, lock, pfd>>

\* ... and it ends, or is killed at any time before: its locks go with it.
End(d) == /\ ppc[d] \notin {"open", "fatal", "gone"}
          /\ ppc' = [ppc EXCEPT ![d] = "gone"] /\ pfd' = [pfd EXCEPT ![d] = 0]
          /\ lock' = [i \in DOMAIN lock |-> IF lock[i] = d THEN Nobody ELSE lock[i]]
          /\ UNCHANGED <<pidFile, inodes, content, deleted>>

\* A daemon that failed or ended is started again.
Restart(d) == /\ ppc[d] \in {"fatal", "gone"}
              /\ ppc' = [ppc EXCEPT ![d] = "open"]
              /\ UNCHANGED <<pidFile, inodes, content, lock, pfd, deleted>>

createPidFile(d) == OpenPidFile(d) \/ Locked(d) \/ Lock(d) \/ Truncate(d) \/ WritePid(d)
PidNext == \E d \in Daemons : createPidFile(d) \/ Delete(d) \/ End(d) \/ Restart(d)

Running == {d \in Daemons : ppc[d] = "run"}

----------------------------------------------------------------------------
\* "ensure that only one instance of the program is running"
\* (create_pid_file.c:15-16): it is so as long as no caller deletes the file; a
\* daemon that opened the file before it was deleted locks the old inode, and
\* another the new one.
OneInstance == ~deleted => Cardinality(Running) <= 1

\* The file a running instance holds names that instance, whoever else tried to
\* start, failed, died or came back meanwhile.
PidRight == \A d \in Running : content[pfd[d]] = d /\ lock[pfd[d]] = d

----------------------------------------------------------------------------
\* All of them at once: they share no state.
sharingVars == <<pidVars, lockVars, appendVars>>
SharingInit == PidInit /\ LockInit /\ AppendInit
SharingNext == \/ PidNext /\ UNCHANGED <<lockVars, appendVars>>
               \/ (LockingNext \/ FlockNext) /\ UNCHANGED <<pidVars, appendVars>>
               \/ AppendNext /\ UNCHANGED <<pidVars, lockVars>>
SharingSpec == SharingInit /\ [][SharingNext]_sharingVars

\* createPidFile() lets one instance run, and the file names it; record locks and
\* flock() locks exclude each other's writers, no circle of users waits for each
\* other, and writers that open a file with O_APPEND lose nothing.
SharingRight == /\ OneInstance /\ PidRight
                /\ LocksExclude /\ NoCircularWait
                /\ NoLostAppend
=============================================================================
