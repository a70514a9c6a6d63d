------------------------------- MODULE Altio -------------------------------
(* The programs of altio/ that wait for several things at once: self_pipe.c (a signal
   and descriptors), select_mq.c (a terminal and message queues, through children and a
   pipe), epoll_input.c (several FIFOs), multithread_epoll_wait.c and epoll_flags_fork.c
   (several waiters on one epoll instance, or one instance each) and demo_sigio.c
   (signal-driven input).

   Pipes, queues, FIFOs, the signal and the epoll instances are the kernel's; a pipe
   holds PIPE_MAX items. Input is bounded by MaxInput. *)
EXTENDS Integers, Sequences, FiniteSets

CONSTANTS
    alPrograms,
    Workers,            \* select_mq's children, the epoll waiters, epoll_input's FIFOs
    MaxInput, PIPE_MAX, MAX_BUF,
    Lengths             \* the lengths of the messages sent to select_mq's queues

VARIABLES
    aprog,
    am,                 \* main(): its place and variables
    aw,                 \* worker |-> its place and what it holds
    io                  \* pipe, terminal, queues, FIFOs, signals, epoll instances

alVars == <<aprog, am, aw, io>>

Terminal == 0
FIFOs == Workers

Init ==
    /\ aprog = "none"
    /\ am = [pc |-> "start", got |-> FALSE, seen |-> {}, events |-> <<>>, numOpenFds |-> 0,
             shown |-> <<>>, header |-> <<>>, flags |-> {}, caught |-> 0, before |-> FALSE]
    /\ aw = [w \in Workers |-> [pc |-> "none", msg |-> <<>>]]
    /\ io = [pipe |-> <<>>, sent |-> 0, typed |-> <<>>, pending |-> FALSE,
             queue |-> [w \in Workers |-> <<>>], log |-> [w \in Workers |-> <<>>],
             writer |-> [w \in Workers |-> "unopened"], fds |-> {}, late |-> {},
             ready |-> [w \in Workers |-> FALSE], off |-> {}, writes |-> 0, woken |-> 0]

(* The first call of each program; the options of the two epoll experiments are free:
   epoll_flags_fork shares an instance only with -s, the threads always do. With -p each
   child opens the FIFO itself ("own"). *)
Start ==
    /\ aprog = "none" /\ aprog' \in alPrograms
    /\ \E flags \in SUBSET {"ET", "ONESHOT", "EXCLUSIVE", "shared", "own", "read", "loop"} :
          /\ aprog' \notin {"epoll_flags_fork", "multithread_epoll_wait"} => flags = {}
          /\ aprog' = "multithread_epoll_wait" => flags \in {{"shared"}, {"shared", "ET"}}
          /\ am' = [am EXCEPT !.flags = flags,
                              !.pc = CASE aprog' = "self_pipe" -> "pipe" [] aprog' = "select_mq" -> "fork"
                                       [] aprog' = "epoll_input" -> "open" [] aprog' = "demo_sigio" -> "sigaction"
                                       [] aprog' = "epoll_flags_fork" -> "ctl" [] OTHER -> "create"]
    /\ UNCHANGED <<aw, io>>

Go(pc) == [am EXCEPT !.pc = pc]

---------------------------------------------------------------------------
(* self_pipe.c: the pipe is made, nonblocking, before the handler is. *)
MakePipe == /\ aprog = "self_pipe" /\ am.pc = "pipe" /\ am' = Go("sigaction") /\ UNCHANGED <<aprog, aw, io>>

Sigaction == /\ aprog \in {"self_pipe", "demo_sigio"} /\ am.pc = "sigaction"
             /\ am' = Go(IF aprog = "self_pipe" THEN "select" ELSE "async") /\ UNCHANGED <<aprog, aw, io>>

SendSigint == /\ aprog = "self_pipe" /\ am.pc # "exited" /\ io.sent < MaxInput
              /\ io' = [io EXCEPT !.sent = @ + 1, !.pending = TRUE] /\ UNCHANGED <<aprog, am, aw>>

(* The handler writes a byte, or fails with EAGAIN when the pipe is full; without a
   handler the signal ends the program. *)
Muthandler ==                                       \* only notes the signal
    /\ aprog = "self_pipe" /\ io.pending
    /\ am' = IF am.pc \in {"pipe", "sigaction"} THEN Go("exited")
             ELSE [am EXCEPT !.caught = @ + 1, !.before = @ \/ am.pc = "select"]
    /\ io' = [io EXCEPT !.pending = FALSE] /\ UNCHANGED <<aprog, aw>>

handler ==
    /\ aprog = "self_pipe" /\ io.pending /\ am.pc # "exited"
    /\ IF am.pc \in {"pipe", "sigaction"}
       THEN am' = Go("exited") /\ io' = [io EXCEPT !.pending = FALSE]
       ELSE /\ am' = [am EXCEPT !.caught = @ + 1, !.before = @ \/ am.pc = "select"]
            /\ io' = [io EXCEPT !.pending = FALSE,
                                !.pipe = IF Len(@) < PIPE_MAX THEN Append(@, 1) ELSE @]
    /\ UNCHANGED <<aprog, aw>>

(* select() returns when a descriptor is ready or the time is over; interrupted by the
   handler it is called again. *)
SelectPipe ==
    /\ aprog = "self_pipe" /\ am.pc = "select"
    /\ am' = [am EXCEPT !.pc = IF io.pipe # <<>> THEN "drain" ELSE "report", !.got = io.pipe # <<>>]
    /\ UNCHANGED <<aprog, aw, io>>

Drain ==
    /\ aprog = "self_pipe" /\ am.pc = "drain"
    /\ IF io.pipe # <<>> THEN io' = [io EXCEPT !.pipe = Tail(@)] /\ UNCHANGED am
       ELSE am' = Go("report") /\ UNCHANGED io
    /\ UNCHANGED <<aprog, aw>>

Report == /\ aprog = "self_pipe" /\ am.pc = "report" /\ am' = Go("exited") /\ UNCHANGED <<aprog, aw, io>>

---------------------------------------------------------------------------
(* select_mq.c: a child per queue copies the messages to one pipe. *)
ForkMon ==
    /\ aprog = "select_mq" /\ am.pc = "fork"
    /\ IF \E w \in Workers : aw[w].pc = "none"
       THEN \/ /\ \E w \in Workers : aw[w].pc = "none" /\ aw' = [aw EXCEPT ![w].pc = "msgrcv"]
               /\ UNCHANGED am
            \/ am' = Go("exited") /\ aw' = [w \in Workers |-> [pc |-> "exited", msg |-> <<>>]]   \* killpg()
       ELSE am' = Go("select") /\ UNCHANGED aw
    /\ UNCHANGED <<aprog, io>>

SendMessage(w) ==
    /\ aprog = "select_mq" /\ io.sent < MaxInput
    /\ \E len \in Lengths : LET msg == <<w, len, io.sent>> IN
         io' = [io EXCEPT !.sent = @ + 1, !.queue[w] = Append(@, msg), !.log[w] = Append(@, msg)]
    /\ UNCHANGED <<aprog, am, aw>>

childMon(w) ==
    /\ aprog = "select_mq"
    /\ \/ /\ aw[w].pc = "msgrcv" /\ io.queue[w] # <<>>
          /\ aw' = [aw EXCEPT ![w] = [pc |-> "write", msg |-> Head(io.queue[w])]]
          /\ io' = [io EXCEPT !.queue[w] = Tail(@)]
       \/ /\ aw[w].pc = "write" /\ Len(io.pipe) < PIPE_MAX          \* at most PIPE_BUF bytes: atomic
          /\ io' = [io EXCEPT !.pipe = Append(@, aw[w].msg)] /\ aw' = [aw EXCEPT ![w].pc = "msgrcv"]
    /\ UNCHANGED <<aprog, am>>

Type == /\ aprog \in {"select_mq", "demo_sigio"} /\ io.sent < MaxInput /\ am.pc \notin {"start", "exited", "fatal"}
        /\ \E ch \in {"a", "#"} :
             io' = [io EXCEPT !.sent = @ + 1, !.typed = Append(@, ch), !.pending = am.pc \notin {"sigaction", "async"}]
        /\ UNCHANGED <<aprog, am, aw>>

SelectMq ==
    /\ aprog = "select_mq" /\ am.pc = "select" /\ (io.typed # <<>> \/ io.pipe # <<>>)
    /\ am' = [am EXCEPT !.seen = {f \in {"stdin", "pipe"} : IF f = "stdin" THEN io.typed # <<>> ELSE io.pipe # <<>>},
                        !.pc = "stdin"]
    /\ UNCHANGED <<aprog, aw, io>>

ReadStdin ==
    /\ aprog = "select_mq" /\ am.pc = "stdin" /\ am' = Go("header")
    /\ io' = (IF "stdin" \in am.seen THEN [io EXCEPT !.typed = <<>>] ELSE io) /\ UNCHANGED <<aprog, aw>>

(* First the header, which says how long the text is; then the text. read() of no bytes
   returns 0. *)
ReadHeader ==
    /\ aprog = "select_mq" /\ am.pc = "header"
    /\ IF "pipe" \in am.seen
       THEN am' = [am EXCEPT !.header = Head(io.pipe), !.pc = "text"] /\ io' = [io EXCEPT !.pipe = Tail(@)]
       ELSE am' = Go("select") /\ UNCHANGED io
    /\ UNCHANGED <<aprog, aw>>

ReadText ==
    /\ aprog = "select_mq" /\ am.pc = "text"
    /\ am' = IF am.header[2] = 0 THEN Go("fatal")
             ELSE [am EXCEPT !.pc = "select", !.shown = Append(@, am.header)]
    /\ UNCHANGED <<aprog, aw, io>>

---------------------------------------------------------------------------
(* epoll_input.c: open() waits for a writer. A FIFO may be opened for writing again after
   a hang-up; late are those opened when the hang-up had been returned by epoll_wait(). *)
OpenWriter(f) == /\ aprog = "epoll_input"
                 /\ io' = [io EXCEPT !.writer[f] = "open", !.sent = IF io.writer[f] = "closed" THEN @ + 1 ELSE @,
                                     !.late = IF f \in DOMAIN am.events THEN @ \cup {f} ELSE @]
                 /\ io.writer[f] = "unopened" \/ (io.writer[f] = "closed" /\ f \in io.fds /\ io.sent < MaxInput)
                 /\ UNCHANGED <<aprog, am, aw>>
WriteFifo(f) == /\ aprog = "epoll_input" /\ io.writer[f] = "open" /\ f \in io.fds /\ io.sent < MaxInput
                /\ io' = [io EXCEPT !.sent = @ + 1, !.queue[f] = Append(@, io.sent), !.log[f] = Append(@, io.sent)]
                /\ UNCHANGED <<aprog, am, aw>>
CloseWriter(f) == /\ aprog = "epoll_input" /\ io.writer[f] = "open" /\ f \in io.fds
                  /\ io' = [io EXCEPT !.writer[f] = "closed"] /\ UNCHANGED <<aprog, am, aw>>

OpenFifo ==
    /\ aprog = "epoll_input" /\ am.pc = "open"
    /\ IF am.numOpenFds = Cardinality(FIFOs) THEN am' = Go("wait") /\ UNCHANGED io
       ELSE \E f \in FIFOs \ io.fds : /\ io.writer[f] = "open" /\ io' = [io EXCEPT !.fds = @ \cup {f}]
                                      /\ am' = [am EXCEPT !.numOpenFds = @ + 1]
    /\ UNCHANGED <<aprog, aw>>

Events(f) == (IF io.queue[f] # <<>> THEN {"IN"} ELSE {}) \cup (IF io.writer[f] = "closed" THEN {"HUP"} ELSE {})

EpollWait ==
    /\ aprog = "epoll_input" /\ am.pc = "wait"
    /\ IF am.numOpenFds = 0 THEN am' = Go("exited")
       ELSE \E S \in (SUBSET {f \in io.fds : Events(f) # {}}) \ {{}} :      \* at most MAX_EVENTS of them
              am' = [am EXCEPT !.pc = "handle", !.events = [f \in S |-> Events(f)]]
    /\ UNCHANGED <<aprog, aw, io>>

HandleEvent ==
    /\ aprog = "epoll_input" /\ am.pc = "handle"
    /\ \E f \in DOMAIN am.events :
         LET rest == [am EXCEPT !.events = [g \in DOMAIN am.events \ {f} |-> am.events[g]],
                                !.pc = IF DOMAIN am.events = {f} THEN "wait" ELSE @]
             len == Len(io.queue[f])
         IN IF "IN" \in am.events[f]
            THEN /\ io' = [io EXCEPT !.queue[f] = SubSeq(@, (IF len < MAX_BUF THEN len ELSE MAX_BUF) + 1, len)]
                 /\ am' = rest
            ELSE io' = [io EXCEPT !.fds = @ \ {f}] /\ am' = [rest EXCEPT !.numOpenFds = @ - 1]
    /\ UNCHANGED <<aprog, aw>>

---------------------------------------------------------------------------
(* The epoll experiments: the instance of waiter w is w's own or the shared one. *)
Waiters == {"multithread_epoll_wait", "epoll_flags_fork"}
Shared == "shared" \in am.flags
Inst(w) == IF Shared THEN CHOOSE v \in Workers : \A u \in Workers : v <= u ELSE w

(* epoll_ctl() refuses EPOLLEXCLUSIVE with EPOLLONESHOT. *)
Refused == {"EXCLUSIVE", "ONESHOT"} \subseteq am.flags

(* -s: main() makes the instance and adds fd. With -p it has no value yet: epoll_ctl()
   fails, or adds a descriptor that is not the FIFO. *)
AddShared ==
    /\ aprog = "epoll_flags_fork" /\ am.pc = "ctl" /\ UNCHANGED <<aprog, aw>>
    /\ \/ ~Shared /\ am' = Go("create") /\ UNCHANGED io
       \/ Shared /\ (Refused \/ "own" \in am.flags) /\ am' = Go("exited") /\ UNCHANGED io
       \/ /\ Shared /\ ~Refused /\ am' = Go("create")
          /\ io' = IF "own" \in am.flags THEN [io EXCEPT !.off = Workers] ELSE io

CreateWaiter(to) ==
    /\ am.pc = "create"
    /\ IF \E w \in Workers : aw[w].pc = "none"
       THEN /\ \E w \in Workers : aw[w].pc = "none" /\ aw' = [aw EXCEPT ![w].pc = to]
            /\ UNCHANGED am
       ELSE am' = Go("sleep") /\ UNCHANGED aw
    /\ UNCHANGED <<aprog, io>>

(* main() ends, and with it its threads, when it can create no more. *)
CreateThread == aprog = "multithread_epoll_wait" /\ CreateWaiter("wait")
ForkWaiter == aprog = "epoll_flags_fork" /\ CreateWaiter(IF Refused THEN "exited" ELSE "wait")
CreateFails == /\ aprog \in Waiters /\ am.pc = "create" /\ \E w \in Workers : aw[w].pc = "none"
               /\ am' = Go("exited") /\ UNCHANGED <<aprog, io>>
               /\ aw' = IF aprog = "epoll_flags_fork" THEN aw ELSE [w \in Workers |-> [pc |-> "exited", msg |-> <<>>]]

(* The byte comes from main() or, for the children's FIFO, from outside. With
   EPOLLEXCLUSIVE one or more of the instances are told. *)
WriteByte ==
    /\ aprog \in Waiters /\ am.pc = "sleep" /\ am' = Go("written") /\ UNCHANGED <<aprog, aw>>
    /\ \E S \in (SUBSET Workers) \ {{}} :
          /\ Shared \/ "EXCLUSIVE" \notin am.flags => S = Workers
          /\ io' = [io EXCEPT !.pipe = <<1>>, !.writes = @ + 1, !.ready = [w \in Workers |-> w \in S \ io.off]]

Again == IF "loop" \in am.flags THEN "wait" ELSE "exited"

(* epoll_wait() returns what is ready: an edge once, a level as long as it lasts. *)
EpollReturn(w) ==
    /\ aw[w].pc = "wait" /\ io.ready[Inst(w)] /\ io.pipe # <<>>
    /\ aw' = [aw EXCEPT ![w].pc = IF "read" \in am.flags THEN "read" ELSE Again]
    /\ io' = [io EXCEPT !.woken = IF @ < Cardinality(Workers) THEN @ + 1 ELSE @,
                        !.ready[Inst(w)] = am.flags \cap {"ET", "ONESHOT"} = {},
                        !.off = IF "ONESHOT" \in am.flags THEN @ \cup {Inst(w)} ELSE @]
    /\ UNCHANGED <<aprog, am>>

threadFunc(w) == aprog = "multithread_epoll_wait" /\ EpollReturn(w)
WaitInChild(w) == aprog = "epoll_flags_fork" /\ EpollReturn(w)

ReadByte(w) == /\ aprog = "epoll_flags_fork" /\ aw[w].pc = "read" /\ aw' = [aw EXCEPT ![w].pc = Again]
               /\ io' = [io EXCEPT !.pipe = <<>>] /\ UNCHANGED <<aprog, am>>

WaitChildren == /\ aprog = "epoll_flags_fork" /\ am.pc = "written" /\ \A w \in Workers : aw[w].pc = "exited"
                /\ am' = Go("exited") /\ UNCHANGED <<aprog, aw, io>>

---------------------------------------------------------------------------
(* demo_sigio.c: O_ASYNC and O_NONBLOCK; the flag is cleared before the input is read. *)
SetAsync == /\ aprog = "demo_sigio" /\ am.pc = "async" /\ am' = [am EXCEPT !.pc = "loop", !.before = io.typed # <<>>]
            /\ UNCHANGED <<aprog, aw, io>>

sigioHandler == /\ aprog = "demo_sigio" /\ io.pending /\ am.pc # "exited"
                /\ am' = [am EXCEPT !.got = TRUE] /\ io' = [io EXCEPT !.pending = FALSE] /\ UNCHANGED <<aprog, aw>>

TestFlag == /\ aprog = "demo_sigio" /\ am.pc = "loop" /\ am.got
            /\ am' = [am EXCEPT !.pc = "clear"] /\ UNCHANGED <<aprog, aw, io>>
ClearFlag == /\ aprog = "demo_sigio" /\ am.pc = "clear"
             /\ am' = [am EXCEPT !.pc = "read", !.got = FALSE] /\ UNCHANGED <<aprog, aw, io>>

(* while (read() > 0 && !done): one more byte is read after the hash. *)
ReadKey ==
    /\ aprog = "demo_sigio" /\ am.pc \in {"read", "last"}
    /\ IF io.typed = <<>>
       THEN am' = [am EXCEPT !.pc = IF @ = "last" THEN "exited" ELSE "loop", !.before = FALSE] /\ UNCHANGED io
       ELSE /\ io' = [io EXCEPT !.typed = Tail(@)]
            /\ am' = [am EXCEPT !.pc = CASE am.pc = "last" -> "exited" [] Head(io.typed) = "#" -> "last" [] OTHER -> @,
                                !.shown = IF am.pc = "read" THEN Append(@, Head(io.typed)) ELSE @]
    /\ UNCHANGED <<aprog, aw>>

Next ==
    \/ Start \/ MakePipe \/ Sigaction \/ SendSigint \/ handler \/ SelectPipe \/ Drain \/ Report
    \/ ForkMon \/ Type \/ SelectMq \/ ReadStdin \/ ReadHeader \/ ReadText
    \/ OpenFifo \/ EpollWait \/ HandleEvent
    \/ AddShared \/ CreateThread \/ ForkWaiter \/ CreateFails \/ WriteByte \/ WaitChildren \/ SetAsync \/ sigioHandler \/ TestFlag \/ ClearFlag \/ ReadKey
    \/ \E w \in Workers : \/ SendMessage(w) \/ childMon(w) \/ OpenWriter(w) \/ WriteFifo(w) \/ CloseWriter(w)
                          \/ threadFunc(w) \/ WaitInChild(w) \/ ReadByte(w)

---------------------------------------------------------------------------
IsHead(s, t) == Len(s) <= Len(t) /\ SubSeq(t, 1, Len(s)) = s
Quiet == /\ aprog \in Waiters /\ am.pc = "written"
         /\ \A w \in Workers : aw[w].pc # "read" /\ ~(aw[w].pc = "wait" /\ io.ready[Inst(w)] /\ io.pipe # <<>>)

(* Nothing that becomes ready is missed. A signal caught before select() has returned is
   reported, however many there are and however full the pipe (self_pipe.c:38, :113);
   the messages shown by select_mq are whole, and in the order of each queue
   (select_mq.c:38-41); epoll_input closes a descriptor only when all its input has been
   read, unless a new writer came after the hang-up was returned (epoll_input.c:94-101);
   after a byte is written all waiters wake with level triggering and exactly one with
   EPOLLET on one instance (multithread_epoll_wait.c:15-18), and at least one of several
   instances with EPOLLEXCLUSIVE (epoll_flags_fork.c:20-35); none wakes where epoll_ctl()
   refuses the flags (-xo) or is given a descriptor that has no value (-sp);
   in demo_sigio input is waiting only while a signal or the flag says so, unless it was
   typed before O_ASYNC was set (demo_sigio.c:71-78). *)
NothingMissed ==
    /\ (aprog = "self_pipe" /\ am.pc \in {"report", "drain"} /\ am.before) => am.got
    /\ aprog = "select_mq" => \A w \in Workers :
          IsHead(SelectSeq(am.shown, LAMBDA m : m[1] = w), SelectSeq(io.log[w], LAMBDA m : m[2] > 0))
    /\ aprog = "epoll_input" =>
         /\ \A f \in FIFOs \ io.fds : io.queue[f] # <<>> => f \in io.late
         /\ am.numOpenFds = Cardinality(io.fds)
    /\ Quiet => LET none == Refused \/ {"shared", "own"} \subseteq am.flags
                    once == Shared /\ am.flags \cap {"ONESHOT", "ET"} # {}
                    some == "read" \in am.flags \/ (~Shared /\ "EXCLUSIVE" \in am.flags)
                IN  CASE none -> io.woken = 0
                      [] ~none /\ once -> io.woken = 1
                      [] ~none /\ ~once /\ some -> io.woken >= 1
                      [] OTHER -> io.woken = Cardinality(Workers)
    /\ (aprog = "demo_sigio" /\ am.pc = "loop" /\ ~am.got /\ ~io.pending /\ ~am.before) => io.typed = <<>>
=============================================================================
