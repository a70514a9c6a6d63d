---------------------------- MODULE FileServer ----------------------------
(* svmsg_file_server.c and svmsg_file_client.c: a concurrent file server over System V
   message queues. Requests go to the server's queue; a child per request sends the
   file, block by block, to the queue the client has created for itself. A message
   queue holds QBYTES messages; a client may be killed (FsMortal), and msgrcv(), fork()
   and read() may fail (MaxFaults times). *)
EXTENDS Integers, Sequences, FiniteSets

CONSTANTS
    FsClients, FsMortal,
    Blocks,             \* client |-> the blocks of the file it asks for, or Unopenable
    Unopenable,
    QBYTES, MaxFaults

ASSUME BlocksAssumption == \A c \in FsClients : Blocks[c] = Unopenable \/ Blocks[c] \in Seq(Nat)

VARIABLES
    sv,                 \* the server: its place, the request it has taken, whether its queue exists
    requests,           \* the server's queue
    kid,                \* the child that serves client c: its place and the next block
    cl,                 \* client c: its place, what it has received, its queue ("none", "there", "removed")
    queue,              \* c's queue
    faults,
    zombies             \* children nobody has waited for, and whether SIGCHLD is pending

fsVars == <<sv, requests, kid, cl, queue, faults, zombies>>

Opens(c) == Blocks[c] # Unopenable
FAILURE == [mtype |-> 1, block |-> 0]
DATA(b) == [mtype |-> 2, block |-> b]
END == [mtype |-> 3, block |-> 0]

Init ==
    /\ \E stale \in BOOLEAN :            \* a server that was killed leaves its queue behind
          sv = [pc |-> "start", req |-> 0, there |-> stale]
    /\ requests = <<>>
    /\ kid = [c \in FsClients |-> [pc |-> "none", next |-> 1]]
    /\ cl = [c \in FsClients |-> [pc |-> "start", got |-> <<>>, q |-> "none"]]
    /\ queue = [c \in FsClients |-> <<>>] /\ faults = 0 /\ zombies = [dead |-> {}, pending |-> FALSE]

---------------------------------------------------------------------------
(* The server. *)
Msgget ==
    /\ sv.pc = "start" /\ ~sv.there /\ sv' = [sv EXCEPT !.pc = "msgrcv", !.there = TRUE]
    /\ UNCHANGED <<requests, kid, cl, queue, faults, zombies>>

(* IPC_EXCL: there is a queue with this key already, which stays. *)
MsggetFails ==
    /\ sv.pc = "start" /\ sv.there /\ sv' = [sv EXCEPT !.pc = "exited"]
    /\ UNCHANGED <<requests, kid, cl, queue, faults, zombies>>

Msgrcv ==
    /\ sv.pc = "msgrcv" /\ requests # <<>>
    /\ sv' = [sv EXCEPT !.pc = "fork", !.req = Head(requests)] /\ requests' = Tail(requests)
    /\ UNCHANGED <<kid, cl, queue, faults, zombies>>

(* An error other than EINTR ends the loop. *)
MsgrcvFails ==
    /\ sv.pc = "msgrcv" /\ faults < MaxFaults /\ faults' = faults + 1 /\ sv' = [sv EXCEPT !.pc = "rmid"]
    /\ UNCHANGED <<requests, kid, cl, queue, zombies>>

(* A child serves the request; when fork() fails the server removes its queue and ends. *)
Fork ==
    /\ sv.pc = "fork"
    /\ \/ /\ kid' = [kid EXCEPT ![sv.req].pc = "open"] /\ sv' = [sv EXCEPT !.pc = "msgrcv"]
          /\ UNCHANGED faults
       \/ /\ faults < MaxFaults /\ faults' = faults + 1 /\ sv' = [sv EXCEPT !.pc = "rmid"]
          /\ UNCHANGED kid
    /\ UNCHANGED <<requests, cl, queue, zombies>>

Rmid ==
    /\ sv.pc = "rmid" /\ sv' = [sv EXCEPT !.pc = "exited", !.there = FALSE] /\ requests' = <<>>
    /\ UNCHANGED <<kid, cl, queue, faults, zombies>>

(* The handler interrupts msgrcv(), which is called again (EINTR), or anything else. *)
grimReaper ==
    /\ sv.pc \in {"msgrcv", "fork"} /\ zombies.pending
    /\ zombies' = [dead |-> {}, pending |-> FALSE]
    /\ UNCHANGED <<sv, requests, kid, cl, queue, faults>>

---------------------------------------------------------------------------
(* serveRequest(), in the child. msgsnd() blocks while the queue is full and fails when
   it has been removed. *)
Exits(c) == /\ kid' = [kid EXCEPT ![c].pc = "exited"]
            /\ zombies' = [dead |-> zombies.dead \cup {c}, pending |-> TRUE]
CanSend(c) == cl[c].q = "there" /\ Len(queue[c]) < QBYTES
Gone(c) == cl[c].q = "removed"

Open(c) ==
    /\ kid[c].pc = "open"
    /\ kid' = [kid EXCEPT ![c].pc = IF Opens(c) THEN "read" ELSE "failure"]
    /\ UNCHANGED <<sv, requests, cl, queue, faults, zombies>>

Read(c) ==
    /\ kid[c].pc = "read"
    /\ \/ kid' = [kid EXCEPT ![c].pc = IF kid[c].next <= Len(Blocks[c]) THEN "data" ELSE "end"]
          /\ UNCHANGED faults
       \/ faults < MaxFaults /\ faults' = faults + 1 /\ kid' = [kid EXCEPT ![c].pc = "end"]
    /\ UNCHANGED <<sv, requests, cl, queue, zombies>>

SendData(c) ==
    /\ kid[c].pc = "data"
    /\ \/ /\ CanSend(c) /\ queue' = [queue EXCEPT ![c] = Append(@, DATA(Blocks[c][kid[c].next]))]
          /\ kid' = [kid EXCEPT ![c] = [pc |-> "read", next |-> @.next + 1]]
       \/ Gone(c) /\ kid' = [kid EXCEPT ![c].pc = "end"] /\ UNCHANGED queue                 \* EIDRM
    /\ UNCHANGED <<sv, requests, cl, faults, zombies>>

MutSendLast(c) ==                                   \* IPC_NOWAIT: a full queue loses the last message
    /\ kid[c].pc \in {"end", "failure"} /\ Exits(c)
    /\ queue' = IF CanSend(c) THEN [queue EXCEPT ![c] = Append(@, IF kid[c].pc = "end" THEN END ELSE FAILURE)]
                ELSE queue
    /\ UNCHANGED <<sv, requests, cl, faults>>

SendLast(c) ==
    /\ kid[c].pc \in {"end", "failure"} /\ Exits(c)
    /\ \/ CanSend(c) /\ queue' = [queue EXCEPT ![c] = Append(@, IF kid[c].pc = "end" THEN END ELSE FAILURE)]
       \/ Gone(c) /\ UNCHANGED queue
    /\ UNCHANGED <<sv, requests, cl, faults>>

---------------------------------------------------------------------------
(* The client. exit() runs removeQueue() once atexit() has been called. *)
removeQueue(c, how) ==
    /\ cl' = [cl EXCEPT ![c].pc = how, ![c].q = IF @ = "there" THEN "removed" ELSE @]
    /\ queue' = [queue EXCEPT ![c] = <<>>]

Connect(c) ==
    /\ cl[c].pc = "start"
    /\ IF sv.there THEN cl' = [cl EXCEPT ![c].pc = "send", ![c].q = "there"] /\ UNCHANGED queue
       ELSE removeQueue(c, "failed")
    /\ UNCHANGED <<sv, requests, kid, faults, zombies>>

Send(c) ==
    /\ cl[c].pc = "send"
    /\ \/ /\ sv.there /\ Len(requests) < QBYTES /\ requests' = Append(requests, c)
          /\ cl' = [cl EXCEPT ![c].pc = "first"] /\ UNCHANGED queue
       \/ ~sv.there /\ removeQueue(c, "failed") /\ UNCHANGED requests
    /\ UNCHANGED <<sv, kid, faults, zombies>>

Receive(c) ==
    /\ cl[c].pc \in {"first", "more"} /\ queue[c] # <<>>
    /\ LET resp == Head(queue[c]) IN
       CASE resp = FAILURE /\ cl[c].pc = "first" -> removeQueue(c, "refused")
         [] resp.mtype = 2 -> /\ cl' = [cl EXCEPT ![c].pc = "more", ![c].got = Append(@, resp.block)]
                              /\ queue' = [queue EXCEPT ![c] = Tail(@)]
         [] OTHER -> removeQueue(c, "done")
    /\ UNCHANGED <<sv, requests, kid, faults, zombies>>

(* A signal ends the client: atexit() functions are not called. *)
Killed(c) ==
    /\ c \in FsMortal /\ cl[c].pc \in {"send", "first", "more"} /\ cl' = [cl EXCEPT ![c].pc = "killed"]
    /\ UNCHANGED <<sv, requests, kid, queue, faults, zombies>>

Next == \/ Msgget \/ MsggetFails \/ Msgrcv \/ MsgrcvFails \/ Fork \/ Rmid \/ grimReaper
        \/ \E c \in FsClients : \/ Open(c) \/ Read(c) \/ SendData(c) \/ SendLast(c)
                                \/ Connect(c) \/ Send(c) \/ Receive(c) \/ Killed(c)

Spec == Init /\ [][Next]_fsVars

---------------------------------------------------------------------------
IsStart(s, t) == Len(s) <= Len(t) /\ SubSeq(t, 1, Len(s)) = s

(* A client gets its own file and nothing else: the blocks it has received are the first
   ones of its file, in order, however many children send to however many queues; when
   it ends normally and no read() has failed it has them all, and it is refused exactly
   when the file cannot be opened (svmsg_file_server.c:63-70, svmsg_file_client.c:86).
   A client waits only while its request is queued or being served, unless the server
   has given up; every client that was not killed leaves no queue behind, and no child
   waits to be reaped unless a signal is pending. *)
FilesRight ==
    /\ \A c \in FsClients :
          /\ Opens(c) => IsStart(cl[c].got, Blocks[c])
          /\ cl[c].pc = "done" => Opens(c) /\ (faults = 0 => cl[c].got = Blocks[c])
          /\ cl[c].pc = "refused" => ~Opens(c)
          /\ cl[c].pc \in {"first", "more"} /\ queue[c] = <<>> =>
                \/ \E i \in DOMAIN requests : requests[i] = c
                \/ sv.pc = "fork" /\ sv.req = c
                \/ kid[c].pc \notin {"none", "exited"}
                \/ sv.pc \in {"rmid", "exited"}
          /\ cl[c].pc \in {"done", "refused", "failed"} => cl[c].q # "there"
    /\ zombies.dead # {} => zombies.pending
=============================================================================
