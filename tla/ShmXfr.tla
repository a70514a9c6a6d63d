------------------------------- MODULE ShmXfr -------------------------------
(***************************************************************************)
(* svshm/svshm_xfr_writer.c and svshm/svshm_xfr_reader.c: the writer       *)
(* copies blocks of its input to a shared memory segment, the reader       *)
(* copies them to its output; two binary semaphores give them turns.  A    *)
(* block is its number in the input; shmp->cnt and shmp->buf are together  *)
(* the block in the segment, 0 standing for cnt = 0 (a new segment is      *)
(* zeroed) and -1 for a failed read().                                     *)
(***************************************************************************)
EXTENDS Integers, Sequences

CONSTANT NumBlocks      \* blocks read() returns before end of file

ASSUME BlocksAssumption == NumBlocks \in Nat

VARIABLES sem,          \* value of each semaphore of the set
          semSet,       \* does the semaphore set exist?
          shmSeg,       \* does the segment exist?
          block,        \* its contents
          wpc, nread,   \* writer: where it is, blocks read so far
          rpc, out,     \* reader: where it is, blocks written so far
          dead          \* processes ended by an error or a signal

vars == <<sem, semSet, shmSeg, block, wpc, nread, rpc, out, dead>>
writer == <<wpc, nread>>
reader == <<rpc, out>>

WPCs == {"semget", "initWrite", "initRead", "shmget", "reserve", "read", "release", "eof",
         "lastReserve", "rmSem", "shmdt", "rmShm", "exit"}
RPCs == {"semget", "shmget", "shmat", "reserve", "eof", "write", "release", "shmdt",
         "lastRelease", "exit"}

TypeOK == /\ sem \in [{"WRITE_SEM", "READ_SEM"} -> Nat]
          /\ semSet \in BOOLEAN /\ shmSeg \in BOOLEAN
          /\ block \in -1..NumBlocks
          /\ wpc \in WPCs /\ nread \in 0..NumBlocks
          /\ rpc \in RPCs /\ out \in Seq(Nat)
          /\ dead \subseteq {"writer", "reader"}

\* No IPC objects exist under the two keys.
Init == /\ sem = [n \in {"WRITE_SEM", "READ_SEM"} |-> 0]
        /\ semSet = FALSE /\ shmSeg = FALSE /\ block = 0
        /\ wpc = "semget" /\ nread = 0 /\ rpc = "semget" /\ out = <<>> /\ dead = {}

----------------------------------------------------------------------------
\* svsem/binary_sems.c, as the two programs use it: bsUseSemUndo FALSE and
\* bsRetryOnEintr TRUE, so that a reservation interrupted by a handler is retried
\* and the interruption changes nothing.
initSemAvailable(semNum) == sem' = [sem EXCEPT ![semNum] = 1]

initSemInUse(semNum) == sem' = [sem EXCEPT ![semNum] = 0]

\* BUG: the reservation does not wait for the semaphore to become available.
MutReserveSem(semNum) == sem' = [sem EXCEPT ![semNum] = @ - 1]

reserveSem(semNum) == sem[semNum] > 0 /\ sem' = [sem EXCEPT ![semNum] = @ - 1]

releaseSem(semNum) == sem' = [sem EXCEPT ![semNum] = @ + 1]

----------------------------------------------------------------------------
WGo(from, to) == "writer" \notin dead /\ wpc = from /\ wpc' = to /\ UNCHANGED dead
RGo(from, to) == "reader" \notin dead /\ rpc = from /\ rpc' = to /\ UNCHANGED dead

\* errExit() after a system call that failed, fatal(), or a signal: the process
\* ends where it is and undoes nothing (no SEM_UNDO).
WDie == /\ wpc # "exit" /\ "writer" \notin dead
        /\ dead' = dead \cup {"writer"}
        /\ UNCHANGED <<sem, semSet, shmSeg, block, writer, reader>>

RDie == /\ rpc # "exit" /\ "reader" \notin dead
        /\ dead' = dead \cup {"reader"}
        /\ UNCHANGED <<sem, semSet, shmSeg, block, writer, reader>>

----------------------------------------------------------------------------
\* semget(SEM_KEY, 2, IPC_CREAT): creates the set or finds an existing one.
WSemget == /\ WGo("semget", "initWrite")
           /\ semSet' = TRUE
           /\ UNCHANGED <<sem, shmSeg, block, nread, reader>>

WInitWrite == /\ WGo("initWrite", "initRead")
              /\ initSemAvailable("WRITE_SEM")
              /\ UNCHANGED <<semSet, shmSeg, block, nread, reader>>

WInitRead == /\ WGo("initRead", "shmget")
             /\ initSemInUse("READ_SEM")
             /\ UNCHANGED <<semSet, shmSeg, block, nread, reader>>

\* shmget(SHM_KEY, IPC_CREAT) and shmat().
WShmget == /\ WGo("shmget", "reserve")
           /\ shmSeg' = TRUE
           /\ UNCHANGED <<sem, semSet, block, nread, reader>>

WReserve == /\ WGo("reserve", "read")
            /\ reserveSem("WRITE_SEM")
            /\ UNCHANGED <<semSet, shmSeg, block, nread, reader>>

\* shmp->cnt = read(): a block, end of file, or an error.  An error leaves -1
\* in the segment and ends the writer with its turn never given away.
WRead == /\ \/ /\ WGo("read", "release")
               /\ nread' = IF nread < NumBlocks THEN nread + 1 ELSE nread
               /\ block' = IF nread < NumBlocks THEN nread' ELSE 0
            \/ /\ wpc = "read" /\ "writer" \notin dead
               /\ block' = -1 /\ dead' = dead \cup {"writer"}
               /\ UNCHANGED writer
         /\ UNCHANGED <<sem, semSet, shmSeg, reader>>

WRelease == /\ WGo("release", "eof")
            /\ releaseSem("READ_SEM")
            /\ UNCHANGED <<semSet, shmSeg, block, nread, reader>>

\* if (shmp->cnt == 0) break: tested after the turn was given away.
WEof == /\ WGo("eof", IF block = 0 THEN "lastReserve" ELSE "reserve")
        /\ UNCHANGED <<sem, semSet, shmSeg, block, nread, reader>>

\* BUG: the objects are deleted without waiting for the reader's last turn.
MutWLastReserve == /\ WGo("lastReserve", "rmSem")
                   /\ UNCHANGED <<sem, semSet, shmSeg, block, nread, reader>>

WLastReserve == /\ WGo("lastReserve", "rmSem")
                /\ reserveSem("WRITE_SEM")
                /\ UNCHANGED <<semSet, shmSeg, block, nread, reader>>

WRemoveSem == /\ WGo("rmSem", "shmdt")
              /\ semSet' = FALSE
              /\ UNCHANGED <<sem, shmSeg, block, nread, reader>>

WDetach == /\ WGo("shmdt", "rmShm")
           /\ UNCHANGED <<sem, semSet, shmSeg, block, nread, reader>>

WRemoveShm == /\ WGo("rmShm", "exit")
              /\ shmSeg' = FALSE
              /\ UNCHANGED <<sem, semSet, block, nread, reader>>

Writer == \/ WSemget \/ WInitWrite \/ WInitRead \/ WShmget \/ WReserve \/ WRead \/ WRelease
          \/ WEof \/ WLastReserve \/ WRemoveSem \/ WDetach \/ WRemoveShm

----------------------------------------------------------------------------
\* semget() and shmget() without IPC_CREAT fail if the object does not exist.
RSemget == /\ semSet /\ RGo("semget", "shmget")
           /\ UNCHANGED <<sem, semSet, shmSeg, block, writer, out>>

RShmget == /\ shmSeg /\ RGo("shmget", "shmat")
           /\ UNCHANGED <<sem, semSet, shmSeg, block, writer, out>>

RAttach == /\ RGo("shmat", "reserve")
           /\ UNCHANGED <<sem, semSet, shmSeg, block, writer, out>>

RReserve == /\ RGo("reserve", "eof")
            /\ reserveSem("READ_SEM")
            /\ UNCHANGED <<semSet, shmSeg, block, writer, out>>

REof == /\ RGo("eof", IF block = 0 THEN "shmdt" ELSE "write")
        /\ UNCHANGED <<sem, semSet, shmSeg, block, writer, out>>

\* write() to standard output; a partial write is fatal (RDie).
RWrite == /\ RGo("write", "release")
          /\ out' = Append(out, block)
          /\ UNCHANGED <<sem, semSet, shmSeg, block, writer>>

\* BUG: the reader keeps the turn it should give to the writer.
MutRRelease == /\ RGo("release", "reserve")
               /\ releaseSem("READ_SEM")
               /\ UNCHANGED <<semSet, shmSeg, block, writer, out>>

RRelease == /\ RGo("release", "reserve")
            /\ releaseSem("WRITE_SEM")
            /\ UNCHANGED <<semSet, shmSeg, block, writer, out>>

RDetach == /\ RGo("shmdt", "lastRelease")
           /\ UNCHANGED <<sem, semSet, shmSeg, block, writer, out>>

\* BUG: no last turn for the writer.
MutRLastRelease == /\ RGo("lastRelease", "exit")
                   /\ UNCHANGED <<sem, semSet, shmSeg, block, writer, out>>

RLastRelease == /\ RGo("lastRelease", "exit")
                /\ releaseSem("WRITE_SEM")
                /\ UNCHANGED <<semSet, shmSeg, block, writer, out>>

Reader == \/ RSemget \/ RShmget \/ RAttach \/ RReserve \/ REof \/ RWrite \/ RRelease
          \/ RDetach \/ RLastRelease

Next == Writer \/ Reader \/ WDie \/ RDie

Spec == Init /\ [][Next]_vars
\* The scheduler runs both processes.
FairSpec == Spec /\ WF_vars(Writer) /\ WF_vars(Reader)

----------------------------------------------------------------------------
\* "The writer and reader have exclusive, alternating access to the shared
\* memory" (svshm_xfr_writer.c:19): they are never both inside their turn.
Exclusive == ~(wpc \in {"read", "release"} /\
               rpc \in {"eof", "write", "release", "shmdt", "lastRelease"})

\* "Each block of data is processed in turn" (svshm_xfr_writer.c:21): the
\* output is at every moment an initial part of the input.
InOrder == \A i \in 1..Len(out) : out[i] = i

\* No reader uses a semaphore set or segment the writer has removed
\* (svshm_xfr_writer.c:85, "we then know reader has finished").
ObjectsOutliveReader ==
    rpc \in {"reserve", "eof", "write", "release", "shmdt", "lastRelease"} => semSet /\ shmSeg

\* A reader that comes to the end of file has copied everything.
CompleteAtEof == rpc = "exit" => Len(out) = NumBlocks

\* Unless one of them dies, a reader that found both objects finishes, and
\* lets the writer remove them and finish.
BothFinish == (rpc = "shmat") ~> (wpc = "exit" /\ rpc = "exit") \/ dead # {}

\* The pair implements the one-block channel of module Transfer.
Abstract == INSTANCE Transfer WITH
    put <- nread,
    got <- out,
    eof <- IF rpc \in {"shmdt", "lastRelease", "exit"} THEN "got"
           ELSE IF block = 0 /\ wpc \in {"release", "eof", "lastReserve", "rmSem", "shmdt",
                                         "rmShm", "exit"} THEN "put"
           ELSE "no"
ImplementsTransfer == Abstract!Spec
=============================================================================
