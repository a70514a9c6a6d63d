------------------------------- MODULE MCIpc -------------------------------
(***************************************************************************)
(* The programs that wait for each other through FIFOs, message queues and *)
(* semaphores, one at a time: the variable running says which one, and the *)
(* variables of the others keep their initial values. FifoSeqnum and       *)
(* PosixMq are extended, the others are instances.                         *)
(***************************************************************************)
EXTENDS FifoSeqnum, PosixMq

CONSTANTS Checked, Procs, SemOps, MAX_TRIES

ASSUME ProcsAssumption == None \notin Procs

VARIABLES running,
          mqProgram, mqPc, gotSig, pending, missed, thread, exited,
          siPc, tries, op, creator, semval, otime, total

mqAll == <<qlen, sent, received, registered,
           mqProgram, mqPc, gotSig, pending, missed, thread, exited>>
siVars == <<siPc, tries, op, creator, semval, otime, total>>
allVars == <<running, vars, mqAll, siVars>>

\* Operations of svsem_good_init.c that take, wait for zero, and give.
MCSemOps == {-1, 0, 2}

Si == INSTANCE SemInit WITH pc <- siPc

\* The mq_notify programs of pmsg/ side by side, each against the same queue and
\* the same senders: mqProgram says which one runs.
F == INSTANCE MqNotifyFlag WITH pc <- mqPc
S == INSTANCE MqNotifySuspend WITH program <- mqProgram, pc <- mqPc
T == INSTANCE MqNotifyThread WITH program <- mqProgram, pc <- mqPc

FlagProgram == mqProgram = "mq_notify_via_signal"
SuspendProgram == mqProgram \in S!Programs
ThreadPrograms == mqProgram \in T!Programs

NoThreads == thread = [i \in T!ThreadIds |-> "none"] /\ exited = FALSE

NotifyInit == \/ FlagProgram /\ F!Init /\ missed = FALSE /\ NoThreads
              \/ S!Init /\ gotSig = 1 /\ NoThreads
              \/ T!Init /\ gotSig = 1 /\ pending = FALSE

FlagMain == FlagProgram /\ F!Main /\ UNCHANGED <<mqProgram, missed, thread, exited>>
FlagHandler == FlagProgram /\ F!Handler /\ UNCHANGED <<mqProgram, missed, thread, exited>>
FlagSend == FlagProgram /\ F!Send /\ UNCHANGED <<mqProgram, missed, thread, exited>>
SuspendMain == SuspendProgram /\ S!Main /\ UNCHANGED <<gotSig, thread, exited>>
SuspendSend == SuspendProgram /\ S!Send /\ UNCHANGED <<gotSig, thread, exited>>
ThreadsMain == ThreadPrograms /\ T!Main /\ UNCHANGED <<gotSig, pending>>
ThreadsSend == ThreadPrograms /\ T!Send /\ UNCHANGED <<gotSig, pending>>
ThreadsThread(i) == ThreadPrograms /\ T!Thread(i) /\ UNCHANGED <<gotSig, pending>>

NotifyNext == \/ FlagMain \/ FlagHandler \/ FlagSend
              \/ SuspendMain \/ SuspendSend
              \/ ThreadsMain \/ ThreadsSend \/ \E i \in T!ThreadIds : ThreadsThread(i)

FInit == /\ running \in Checked /\ Init /\ NotifyInit /\ Si!Init
         /\ running # "fifo_seqnum" => seqLen = [c \in Clients |-> 1]
         /\ running # "mq_notify" => mqProgram = "mq_notify_via_signal"
         /\ running # "sem_init" => op = [p \in Procs |-> 0]

Seqnum == /\ running = "fifo_seqnum" /\ Next
          /\ UNCHANGED <<running, mqAll, siVars>>
Notify == /\ running = "mq_notify" /\ NotifyNext
          /\ UNCHANGED <<running, vars, siVars>>
Initialising == /\ running = "sem_init" /\ Si!Next
                /\ UNCHANGED <<running, vars, mqAll>>

FNext == Seqnum \/ Notify \/ Initialising

FSpec == /\ FInit /\ [][FNext]_allVars
         /\ WF_vars(running = "fifo_seqnum" /\ Server)
         /\ \A c \in Clients : WF_vars(running = "fifo_seqnum" /\ Client(c))
         /\ WF_mqAll(running = "mq_notify" /\ FlagMain)
         /\ WF_mqAll(running = "mq_notify" /\ FlagHandler)
         /\ WF_mqAll(running = "mq_notify" /\ SuspendMain)
         /\ WF_mqAll(running = "mq_notify" /\ ThreadsMain)
         /\ \A i \in 1..SendLimit : WF_mqAll(running = "mq_notify" /\ ThreadsThread(i))
         /\ \A p \in Procs : WF_siVars(running = "sem_init" /\ Si!Step(p))

----------------------------------------------------------------------------
\* The state of the program that runs is of its type.
NotifyTypeOK == /\ FlagProgram => F!TypeOK
                /\ SuspendProgram => S!TypeOK
                /\ ThreadPrograms => T!TypeOK

\* No program, and no two of its threads, ever call mq_notify() while a
\* registration is in force, which would fail with EBUSY and end the program
\* (via_signal:90, mq_notify_sig.c:83 and :93, via_thread:83).
NeverBusy == /\ FlagProgram => F!NeverBusy
             /\ SuspendProgram => S!NeverBusy
             /\ ThreadPrograms => T!NeverBusy

\* A program that goes to wait has been, or will be, notified of every message:
\* registering before draining (via_signal:84-100, mq_notify_sig.c:93-97,
\* via_thread:68-69) leaves no message behind on the queue.
NoStranded == /\ FlagProgram => F!NoStranded
              /\ SuspendProgram => S!NoStranded
              /\ ThreadPrograms => T!NoStranded

\* The comment at mq_notify_sig.c:33: if a message was on the queue at the
\* first registration, "the program would never receive a notification".
MissedIsForever == SuspendProgram => S!MissedIsForever

\* Every message is received, also one queued before the registration where
\* the program drains first; the others are excused by missed.
EventuallyDrained == /\ FlagProgram => F!EventuallyDrained
                     /\ SuspendProgram => S!EventuallyDrained
                     /\ ThreadPrograms => T!EventuallyDrained

\* pmsg/mq_notify*: no program registers twice at a time, and none goes to wait
\* with a message on the queue of which it will not be told; where a message can
\* be missed, "the program would never receive a notification"
\* (mq_notify_sig.c:33).
Notified == NotifyTypeOK /\ NeverBusy /\ NoStranded /\ MissedIsForever

\* svsem_good_init.c: no operation on the semaphore is lost to its initialisation.
NothingLost == Si!NothingLost

\* Every message of which a notification program is told is received, every
\* process of svsem_good_init.c gets past the initialisation or gives up, and
\* every client of fifo_seqnum_server.c is served or gone.
IpcProgress == /\ running = "mq_notify" => EventuallyDrained
               /\ running = "sem_init" => Si!NoEndlessWait
               /\ running = "fifo_seqnum" => Served
=============================================================================
