--------------------------- MODULE StreamServers ---------------------------
(* The stream socket servers and their clients: sequence numbers (is_seqnum_sv.c,
   is_seqnum_v2_sv.c and the exercises' seqnum, seqnum2), the key-value server, the
   echo servers, the copy-to-stdout servers (us_xfr_sv.c, us_xfr_v2_sv.c,
   socket-namespace) and the remote execution server.

   Each program is one list of calls; the kernel below executes the calls of the
   server, of the children it forks, of the clients and, for the echo client, of the
   child that reads. Bytes are numbers: the digits stand for themselves. A client may
   be killed at any time (Mortal), accept(), fork(), read() and the write() to standard
   output may fail (MaxFail times), and a read() returns any part of what has arrived. *)
EXTENDS Integers, Sequences, FiniteSets

CONSTANTS
    stPrograms,         \* the servers of the instance
    Clients,
    Mortal,             \* the clients that may be killed
    Inputs,             \* server |-> what the clients are given to send: functions of the client
    MaxFail,            \* how many calls may fail
    Addresses,          \* how many addresses getaddrinfo() returns
    INT_LEN, REQ_MAX_LEN, BUF_SIZE   \* the sizes of the programs' buffers

VARIABLES
    stprog,             \* the server that runs
    sp,                 \* process |-> its script, place in it, descriptor, buffer
    cn,                 \* client |-> its connection
    net                 \* the listening socket, the server's data, what has been put out

stVars == <<stprog, sp, cn, net>>

NL == 10
SET == 21               \* the letter 'S' of the key-value protocol
GET == 22
UNDEF == 99             \* a byte nobody has written
IsDigit(b) == b \in 0..9

---------------------------------------------------------------------------
(* The servers. inetPassiveSocket() tries the addresses in turn. *)
inetPassiveSocket == <<[op |-> "passive"], [op |-> "listen"]>>

(* sockets/read_line.c; seqnum/readLine.c takes what a read() brings; kv_server.c has its own. *)
ReadLine(size, eof) == [op |-> "readLine", n |-> size, chunk |-> 1, eof |-> eof]
readLineBuf(size, eof) == [op |-> "readLine", n |-> size, chunk |-> BUF_SIZE, eof |-> eof]
kvReadLine(size, eof) == [op |-> "readLine", n |-> size, chunk |-> 1, eof |-> eof]

SequenceServer(readRequest) ==
    <<[op |-> "sigpipe"]>> \o inetPassiveSocket \o
    <<[op |-> "accept", fail |-> "retry"],                          \* 4
      readRequest,
      [op |-> "check", bad |-> 9],
      [op |-> "reply"], [op |-> "advance"],
      [op |-> "close", to |-> 4]>>                                  \* 9

is_seqnum_sv == SequenceServer(ReadLine(INT_LEN, 9))
is_seqnum_v2_sv == SequenceServer(ReadLine(INT_LEN, 9))
seqnum_server == SequenceServer(readLineBuf(INT_LEN, 9))
seqnum2_server == SequenceServer(ReadLine(INT_LEN, 9))

kv_server ==
    <<[op |-> "sigpipe"]>> \o inetPassiveSocket \o
    <<[op |-> "accept", fail |-> "retry"],                          \* 4
      kvReadLine(REQ_MAX_LEN, 7),
      [op |-> "keyValue", bad |-> 7],
      [op |-> "close", to |-> 4]>>                                  \* 7

Mutis_echo_sv ==                                    \* the parent keeps its copy of the connection
    <<[op |-> "sigchld"]>> \o inetPassiveSocket \o
    <<[op |-> "accept", fail |-> "exit"], [op |-> "fork", fail |-> "close", to |-> 4],
      [op |-> "accept", fail |-> "exit"], [op |-> "fork", fail |-> "close", to |-> 4],
      [op |-> "accept", fail |-> "exit"]>>

is_echo_sv ==
    <<[op |-> "sigchld"]>> \o inetPassiveSocket \o
    <<[op |-> "accept", fail |-> "exit"],                           \* 4
      [op |-> "fork", fail |-> "close", to |-> 4],
      [op |-> "close", to |-> 4]>>

is_echo_v2_sv ==
    <<[op |-> "sigchld"]>> \o inetPassiveSocket \o
    <<[op |-> "accept", fail |-> "retry"],                          \* 4
      [op |-> "fork", fail |-> "close", to |-> 4],
      [op |-> "close", to |-> 4]>>

handleRequest == <<[op |-> "read", eof |-> 3], [op |-> "writeBack", to |-> 1], [op |-> "exit"]>>

remote_execution ==                                 \* SIGCHLD is ignored; a failed fork() closes nothing
    inetPassiveSocket \o
    <<[op |-> "accept", fail |-> "retry"],                          \* 3
      [op |-> "fork", fail |-> "leave", to |-> 3],
      [op |-> "close", to |-> 3]>>

handleConn == <<ReadLine(REQ_MAX_LEN, 2), [op |-> "shell"], [op |-> "exit"]>>

us_xfr_sv ==
    <<[op |-> "bind"], [op |-> "listen"],
      [op |-> "accept", fail |-> "exit"],                           \* 3
      [op |-> "read", eof |-> 6], [op |-> "stdout"], [op |-> "close", to |-> 3]>>

us_xfr_v2_sv == us_xfr_sv                           \* unixListen() for socket(), bind() and listen()
namespace_server == us_xfr_sv                       \* an abstract name: nothing to remove

(* The clients: those of the key-value and the execution server are any program that
   sends a line and reads the answer. *)
is_seqnum_cl == <<[op |-> "connect"], [op |-> "write"], [op |-> "newline"], [op |-> "getLine"], [op |-> "exit"]>>
is_seqnum_v2_cl == is_seqnum_cl
seqnum2_client == is_seqnum_cl
LineClient == <<[op |-> "connect"], [op |-> "write"], [op |-> "getAll"], [op |-> "exit"]>>
us_xfr_cl == <<[op |-> "connect"], [op |-> "write"], [op |-> "exit"]>>
us_xfr_v2_cl == us_xfr_cl
namespace_client == us_xfr_cl
is_echo_cl == <<[op |-> "connect"], [op |-> "forkReader"], [op |-> "write"], [op |-> "shutdown"], [op |-> "exit"]>>
echoReader == <<[op |-> "getAll"], [op |-> "exit"]>>

Seqnum == {"is_seqnum", "is_seqnum_v2", "seqnum", "seqnum2"}
Echo == {"is_echo", "is_echo_v2"}
Copy == {"us_xfr", "us_xfr_v2", "namespace"}
AllServers == Seqnum \cup Echo \cup Copy \cup {"kv", "remote"}

Code(script) ==
    CASE script = "server" ->
           (CASE stprog = "is_seqnum" -> is_seqnum_sv [] stprog = "is_seqnum_v2" -> is_seqnum_v2_sv
              [] stprog = "seqnum" -> seqnum_server [] stprog = "seqnum2" -> seqnum2_server
              [] stprog = "kv" -> kv_server [] stprog = "remote" -> remote_execution
              [] stprog = "is_echo" -> is_echo_sv [] stprog = "is_echo_v2" -> is_echo_v2_sv
              [] stprog = "us_xfr" -> us_xfr_sv [] stprog = "us_xfr_v2" -> us_xfr_v2_sv
              [] OTHER -> namespace_server)
      [] script = "child" -> IF stprog \in Echo THEN handleRequest ELSE handleConn
      [] script = "client" ->
           (CASE stprog \in {"is_seqnum", "seqnum"} -> is_seqnum_cl
              [] stprog = "is_seqnum_v2" -> is_seqnum_v2_cl [] stprog = "seqnum2" -> seqnum2_client
              [] stprog = "us_xfr" -> us_xfr_cl [] stprog = "us_xfr_v2" -> us_xfr_v2_cl
              [] stprog = "namespace" -> namespace_client
              [] stprog \in Echo -> is_echo_cl [] OTHER -> LineClient)
      [] OTHER -> echoReader

---------------------------------------------------------------------------
(* The machine: processes <<"sv", 0>>, <<"child", c>>, <<"cl", c>>, <<"reader", c>>. *)
Sv == <<"sv", 0>>
Child(c) == <<"child", c>>
Cl(c) == <<"cl", c>>
Reader(c) == <<"reader", c>>
Processes == {Sv} \cup UNION {{Child(c), Cl(c), Reader(c)} : c \in Clients}

NoProc == [script |-> "none", pc |-> 0, fd |-> 0, line |-> <<>>, end |-> "none"]
NoConn == [state |-> "none", up |-> <<>>, down |-> <<>>, shut |-> FALSE, reset |-> FALSE,
           ours |-> {}, theirs |-> {}]              \* the server's and the client's processes that hold it

Init ==
    /\ stprog = "none" /\ sp = [p \in Processes |-> NoProc] /\ cn = [c \in Clients |-> NoConn]
    /\ net = [addr |-> Addresses, lfd |-> "none", sigpipe |-> "default", backlog |-> <<>>, fails |-> 0,
              seqNum |-> 0, storage |-> [k \in 0..1 |-> 0], out |-> <<>>, ran |-> <<>>,
              zombies |-> {}, pendingChld |-> FALSE, leaked |-> {}, input |-> <<>>]

Start ==
    /\ stprog = "none" /\ stprog' \in stPrograms
    /\ sp' = [p \in Processes |->
                 CASE p = Sv -> [NoProc EXCEPT !.script = "server", !.pc = 1]
                   [] p[1] = "cl" -> [NoProc EXCEPT !.script = "client", !.pc = 1, !.fd = p[2]]
                   [] OTHER -> NoProc]
    /\ \E in \in Inputs[stprog'] : net' = [net EXCEPT !.input = in]
    /\ UNCHANGED cn

Alive(p) == sp[p].script # "none" /\ sp[p].end = "none"
Call(p) == Code(sp[p].script)[sp[p].pc]
At(p, op) == Alive(p) /\ Call(p).op = op
Goto(p, to) == [sp EXCEPT ![p].pc = to]
Step(p) == Goto(p, sp[p].pc + 1)
Fd(p) == sp[p].fd

(* A process ends: its descriptors are closed. A client that leaves data unread
   resets the connection; with the listening socket its queue goes. *)
Left(c, p) ==
    LET k == [cn[c] EXCEPT !.ours = @ \ {p}, !.theirs = @ \ {p}]
    IN IF cn[c].theirs = {p} /\ cn[c].down # <<>> THEN [k EXCEPT !.reset = TRUE, !.up = <<>>] ELSE k

Closed(p) == [c \in Clients |-> IF p = Sv /\ cn[c].state = "queued"
                                THEN [Left(c, p) EXCEPT !.state = "accepted"] ELSE Left(c, p)]

Ends(p, how) ==
    /\ sp' = [sp EXCEPT ![p].end = how] /\ UNCHANGED stprog
    /\ cn' = Closed(p)
    /\ net' = IF p[1] = "child" /\ stprog \in Echo
              THEN [net EXCEPT !.zombies = @ \cup {p}, !.pendingChld = TRUE]
              ELSE IF p = Sv THEN [net EXCEPT !.lfd = "none"] ELSE net

DoSetup ==                                          \* signal(SIGPIPE, SIG_IGN), sigaction(SIGCHLD)
    /\ At(Sv, "sigpipe") \/ At(Sv, "sigchld")
    /\ net' = IF At(Sv, "sigpipe") THEN [net EXCEPT !.sigpipe = "ignored"] ELSE net
    /\ sp' = Step(Sv) /\ UNCHANGED <<stprog, cn>>

DoPassive ==
    /\ At(Sv, "passive")
    /\ \/ net.addr = 0 /\ Ends(Sv, "failed")
       \/ net.addr > 0 /\ Ends(Sv, "failed")                                    \* setsockopt() fails
       \/ /\ net.addr > 0 /\ net' = [net EXCEPT !.addr = @ - 1]                 \* socket() or bind() fails: closed
          /\ UNCHANGED <<stprog, sp, cn>>
       \/ net.addr > 0 /\ net' = [net EXCEPT !.lfd = "bound", !.addr = 0] /\ sp' = Step(Sv) /\ UNCHANGED <<stprog, cn>>

DoListen ==
    \/ At(Sv, "bind") /\ net' = [net EXCEPT !.lfd = "bound"] /\ sp' = Step(Sv) /\ UNCHANGED <<stprog, cn>>
    \/ At(Sv, "listen") /\ net' = [net EXCEPT !.lfd = "listening"] /\ sp' = Step(Sv) /\ UNCHANGED <<stprog, cn>>
    \/ (At(Sv, "bind") \/ At(Sv, "listen")) /\ Ends(Sv, "failed")

DoAccept ==
    /\ At(Sv, "accept")
    /\ \/ /\ net.backlog # <<>>
          /\ LET c == Head(net.backlog) IN
             /\ cn' = [cn EXCEPT ![c].state = "accepted", ![c].ours = {Sv}]
             /\ sp' = [Step(Sv) EXCEPT ![Sv].fd = c, ![Sv].line = <<>>]
          /\ net' = [net EXCEPT !.backlog = Tail(@)] /\ UNCHANGED stprog
       \/ /\ net.fails < MaxFail
          /\ \/ Call(Sv).fail = "retry" /\ net' = [net EXCEPT !.fails = @ + 1] /\ UNCHANGED <<stprog, sp, cn>>
             \/ Call(Sv).fail = "exit" /\ Ends(Sv, "failed")

DoFork ==
    /\ At(Sv, "fork")
    /\ LET c == Fd(Sv) IN
       \/ /\ sp' = [Step(Sv) EXCEPT ![Child(c)] = [NoProc EXCEPT !.script = "child", !.pc = 1, !.fd = c]]
          /\ cn' = [cn EXCEPT ![c].ours = @ \cup {Child(c)}] /\ UNCHANGED <<stprog, net>>
       \/ /\ net.fails < MaxFail /\ sp' = Goto(Sv, Call(Sv).to)
          /\ IF Call(Sv).fail = "close"
             THEN cn' = [cn EXCEPT ![c] = Left(c, Sv)] /\ net' = [net EXCEPT !.fails = @ + 1] /\ UNCHANGED stprog
             ELSE net' = [net EXCEPT !.fails = @ + 1, !.leaked = @ \cup {c}] /\ UNCHANGED <<stprog, cn>>

(* grimReaper() reaps every child that has ended. *)
grimReaper == /\ Alive(Sv) /\ net.pendingChld
              /\ net' = [net EXCEPT !.pendingChld = FALSE, !.zombies = {}] /\ UNCHANGED <<stprog, sp, cn>>

DoClose ==
    /\ At(Sv, "close") /\ cn' = [cn EXCEPT ![Fd(Sv)] = Left(Fd(Sv), Sv)]
    /\ sp' = Goto(Sv, Call(Sv).to) /\ UNCHANGED <<stprog, net>>

---------------------------------------------------------------------------
(* Reading. End of file: the client's last process has closed or shut down its side. *)
UpEof(c) == cn[c].up = <<>> /\ (cn[c].theirs = {} \/ cn[c].shut)
DownEof(c) == cn[c].down = <<>> /\ cn[c].state = "accepted" /\ cn[c].ours = {}

(* readLine(): at most chunk bytes at a time; at most n - 1 are kept. *)
Upto(s) == IF \E i \in 1..Len(s) : s[i] = NL
           THEN CHOOSE i \in 1..Len(s) : s[i] = NL /\ \A j \in 1..(i - 1) : s[j] # NL
           ELSE 0
Kept(line, s, n) == SubSeq(line \o s, 1, IF Len(line) + Len(s) < n - 1 THEN Len(line) + Len(s) ELSE n - 1)

readLine(p) ==
    /\ At(p, "readLine")
    /\ LET c == Fd(p)
           call == Call(p) IN
       \/ /\ cn[c].up # <<>>
          /\ \E k \in 1..Len(cn[c].up) :
                /\ k <= call.chunk
                /\ LET s == SubSeq(cn[c].up, 1, k)
                       got == IF Upto(s) = 0 THEN s ELSE SubSeq(s, 1, Upto(s)) IN
                   /\ sp' = [sp EXCEPT ![p].line = Kept(@, got, call.n),
                                       ![p].pc = IF Upto(s) = 0 THEN @ ELSE @ + 1]
                   /\ cn' = [cn EXCEPT ![c].up = SubSeq(@, k + 1, Len(@))]
          /\ UNCHANGED <<stprog, net>>
       \/ /\ UpEof(c)                                           \* or an error: the connection was reset
          /\ sp' = IF sp[p].line = <<>> \/ cn[c].reset THEN Goto(p, call.eof) ELSE Step(p)
          /\ UNCHANGED <<stprog, cn, net>>

DoRead(p) ==
    /\ At(p, "read")
    /\ LET c == Fd(p) IN
       \/ /\ \E k \in 1..Len(cn[c].up) :
                /\ k <= BUF_SIZE
                /\ sp' = [Step(p) EXCEPT ![p].line = SubSeq(cn[c].up, 1, k)]
                /\ cn' = [cn EXCEPT ![c].up = SubSeq(@, k + 1, Len(@))]
          /\ UNCHANGED <<stprog, net>>
       \/ UpEof(c) /\ sp' = Goto(p, Call(p).eof) /\ UNCHANGED <<stprog, cn, net>>
       \/ net.fails < MaxFail /\ Ends(p, "failed")

(* write() to a connection whose client is gone: the first may succeed, later ones fail
   with EPIPE; SIGPIPE ends the process unless it is ignored. *)
Written(c, s) == IF cn[c].theirs = {} THEN cn ELSE [cn EXCEPT ![c].down = @ \o s]

Decimal(n) == IF n < 10 THEN <<n>> ELSE <<n \div 10, n % 10>>
Digits(s) == CHOOSE k \in 0..Len(s) : /\ \A i \in 1..k : IsDigit(s[i])
                                      /\ k < Len(s) => ~IsDigit(s[k + 1])
atoi(s) == CASE Digits(s) = 0 -> 0 [] Digits(s) = 1 -> s[1] [] OTHER -> 10 * s[1] + s[2]

DoCheck == /\ At(Sv, "check") /\ sp' = (IF atoi(sp[Sv].line) <= 0 THEN Goto(Sv, Call(Sv).bad) ELSE Step(Sv))
           /\ UNCHANGED <<stprog, cn, net>>

DoReply ==
    /\ At(Sv, "reply")
    /\ LET c == Fd(Sv) IN
       \/ /\ cn' = Written(c, Decimal(net.seqNum) \o <<NL>>) /\ sp' = Step(Sv) /\ UNCHANGED <<stprog, net>>
       \/ /\ cn[c].theirs = {}
          /\ IF net.sigpipe = "ignored" THEN sp' = Step(Sv) /\ UNCHANGED <<stprog, cn, net>> ELSE Ends(Sv, "SIGPIPE")

MutDoAdvance == At(Sv, "advance") /\ sp' = Step(Sv) /\ net' = [net EXCEPT !.seqNum = @ + 1] /\ UNCHANGED <<stprog, cn>>
DoAdvance == /\ At(Sv, "advance") /\ sp' = Step(Sv) /\ UNCHANGED <<stprog, cn>>
             /\ net' = [net EXCEPT !.seqNum = @ + atoi(sp[Sv].line)]

(* The keys: those of the table, 2 for the ones above it, -1 for the ones below it.
   sscanf() leaves k and v uninitialised when the line does not give them: any value. *)
Field(line, i, any) == IF Len(line) >= i /\ (\A j \in 2..i : IsDigit(line[j])) THEN {line[i]} ELSE any

(* Only k >= 100 is refused: storage[k] of a negative k is memory outside the array,
   which holds anything, or is not mapped (SIGSEGV). *)
DoKeyValue ==
    /\ At(Sv, "keyValue")
    /\ LET c == Fd(Sv)
           line == sp[Sv].line
       IN \E k \in Field(line, 2, -1..2), v \in Field(line, 3, 0..2) :
          \/ k = 2 /\ sp' = Goto(Sv, Call(Sv).bad) /\ UNCHANGED <<stprog, cn, net>>
          \/ /\ k \in 0..1
             /\ net' = IF line[1] = SET THEN [net EXCEPT !.storage[k] = v] ELSE net
             /\ cn' = Written(c, <<k, net'.storage[k], NL>>) /\ sp' = Step(Sv) /\ UNCHANGED stprog
          \/ /\ k = -1 /\ \E any \in 0..2 : cn' = Written(c, <<k, any, NL>>)
             /\ sp' = Step(Sv) /\ UNCHANGED <<stprog, net>>
          \/ k = -1 /\ Ends(Sv, "SIGSEGV")

DoWriteBack(p) ==
    /\ At(p, "writeBack")
    /\ \/ cn' = Written(Fd(p), sp[p].line) /\ sp' = Goto(p, Call(p).to) /\ UNCHANGED <<stprog, net>>
       \/ cn[Fd(p)].theirs = {} /\ Ends(p, "failed")

(* A write() that fails or is short ends the server, after some of the bytes. *)
DoStdout ==
    /\ At(Sv, "stdout")
    /\ LET Out(n) == net.out \o [i \in 1..n |-> <<Fd(Sv), sp[Sv].line[i]>>]
       IN  \/ /\ net' = [net EXCEPT !.out = Out(Len(sp[Sv].line))]
              /\ sp' = Goto(Sv, sp[Sv].pc - 1) /\ UNCHANGED <<stprog, cn>>
           \/ /\ net.fails < MaxFail /\ sp' = [sp EXCEPT ![Sv].end = "failed"]
              /\ \E n \in 0..(Len(sp[Sv].line) - 1) : net' = [net EXCEPT !.out = Out(n), !.lfd = "none"]
              /\ cn' = Closed(Sv) /\ UNCHANGED stprog

(* cmd[numBytes - 1] = '\0', whatever that byte was; the buffer was never written when
   the client sent nothing. *)
DoShell(p) ==
    /\ At(p, "shell") /\ sp' = Step(p) /\ UNCHANGED <<stprog, cn>>
    /\ LET line == sp[p].line
           cmd == IF line = <<>> THEN <<UNDEF>> ELSE SubSeq(line, 1, Len(line) - 1)
       IN net' = [net EXCEPT !.ran = Append(@, <<Fd(p), cmd>>)]

DoExit(p) == At(p, "exit") /\ Ends(p, "done")

---------------------------------------------------------------------------
(* The clients. *)
inetConnect(c) ==
    /\ At(Cl(c), "connect")
    /\ IF net.lfd = "listening"
       THEN /\ cn' = [cn EXCEPT ![c].state = "queued", ![c].theirs = {Cl(c)}]
            /\ net' = [net EXCEPT !.backlog = Append(@, c)] /\ sp' = Step(Cl(c)) /\ UNCHANGED stprog
       ELSE Ends(Cl(c), "failed")                                           \* every address refuses

Input(c) == net.input[c]
SvGone(c) == cn[c].state = "accepted" /\ cn[c].ours = {}

DoWrite(c) ==
    /\ At(Cl(c), "write") \/ At(Cl(c), "newline")
    /\ IF SvGone(c) THEN Ends(Cl(c), "SIGPIPE")
       ELSE /\ cn' = [cn EXCEPT ![c].up = @ \o (IF At(Cl(c), "newline") THEN <<NL>> ELSE Input(c))]
            /\ sp' = Step(Cl(c)) /\ UNCHANGED <<stprog, net>>

DoForkReader(c) ==
    /\ At(Cl(c), "forkReader")
    /\ \/ /\ sp' = [Step(Cl(c)) EXCEPT ![Reader(c)] = [NoProc EXCEPT !.script = "reader", !.pc = 1, !.fd = c]]
          /\ cn' = [cn EXCEPT ![c].theirs = @ \cup {Reader(c)}] /\ UNCHANGED <<stprog, net>>
       \/ net.fails < MaxFail /\ Ends(Cl(c), "failed")

DoShutdown(c) ==
    At(Cl(c), "shutdown") /\ cn' = [cn EXCEPT ![c].shut = TRUE] /\ sp' = Step(Cl(c)) /\ UNCHANGED <<stprog, net>>

DoGetLine(p) ==
    /\ At(p, "getLine")
    /\ \/ /\ cn[Fd(p)].down # <<>>
          /\ LET b == Head(cn[Fd(p)].down) IN
             sp' = [sp EXCEPT ![p].line = Append(@, b), ![p].pc = IF b = NL THEN @ + 1 ELSE @]
          /\ cn' = [cn EXCEPT ![Fd(p)].down = Tail(@)] /\ UNCHANGED <<stprog, net>>
       \/ DownEof(Fd(p)) /\ sp[p].line = <<>> /\ Ends(p, "failed")              \* unexpected EOF

DoGetAll(p) ==
    /\ At(p, "getAll")
    /\ \/ /\ cn[Fd(p)].down # <<>>
          /\ sp' = [sp EXCEPT ![p].line = @ \o cn[Fd(p)].down]
          /\ cn' = [cn EXCEPT ![Fd(p)].down = <<>>] /\ UNCHANGED <<stprog, net>>
       \/ DownEof(Fd(p)) /\ sp' = Step(p) /\ UNCHANGED <<stprog, cn, net>>

Killed(c) == /\ c \in Mortal /\ Alive(Cl(c)) /\ stprog # "none" /\ ~At(Cl(c), "connect")
             /\ Ends(Cl(c), "killed")

Next ==
    \/ Start
    \/ DoSetup \/ DoPassive \/ DoListen \/ DoAccept \/ DoFork \/ grimReaper \/ DoClose
    \/ DoCheck \/ DoReply \/ DoAdvance \/ DoKeyValue \/ DoStdout
    \/ \E p \in Processes : readLine(p) \/ DoRead(p) \/ DoWriteBack(p) \/ DoShell(p) \/ DoExit(p)
                            \/ DoGetLine(p) \/ DoGetAll(p)
    \/ \E c \in Clients : inetConnect(c) \/ DoWrite(c) \/ DoForkReader(c) \/ DoShutdown(c) \/ Killed(c)

---------------------------------------------------------------------------
IsPrefixOf(s, t) == Len(s) <= Len(t) /\ SubSeq(t, 1, Len(s)) = s
OutputOf(c) == SelectSeq(net.out, LAMBDA o : o[1] = c)
Done(p) == sp[p].end = "done"
Asked(c) == atoi(SubSeq(Input(c), 1, IF Len(Input(c)) < INT_LEN - 1 THEN Len(Input(c)) ELSE INT_LEN - 1))

(* The reply to a client, whether it has read it, is about to or was killed before. *)
Reply(c) == sp[Cl(c)].line \o cn[c].down
Replied(c) == \E i \in DOMAIN Reply(c) : Reply(c)[i] = NL

(* What the clients get: the ranges of sequence numbers sent to the clients never overlap
   and lie below the counter once it is advanced, also when a client is killed before or
   after its reply (is_seqnum_sv.c:132-135); an echo client that ends with the
   server's end of file has read exactly what it sent (is_echo_sv.c:53-58); the copying
   servers put out each client's bytes complete, in order and together (us_xfr_sv.c:69);
   a stored value is answered to the client that stored it, and a client that asks for a
   key of the table gets what some client has stored under it, or 0 (kv_server.c:153-160). *)
StreamsRight ==
    /\ stprog \in Seqnum =>
         \A c \in Clients : Replied(c) =>
            /\ ~(At(Sv, "advance") /\ Fd(Sv) = c) => atoi(Reply(c)) + Asked(c) <= net.seqNum
            /\ \A e \in Clients \ {c} : Replied(e) =>
                 \/ atoi(Reply(c)) + Asked(c) <= atoi(Reply(e))
                 \/ atoi(Reply(e)) + Asked(e) <= atoi(Reply(c))
    /\ stprog \in Echo =>
         \A c \in Clients :
            /\ IsPrefixOf(sp[Reader(c)].line, Input(c))
            /\ Done(Reader(c)) /\ Done(Cl(c)) /\ Done(Child(c)) => sp[Reader(c)].line = Input(c)
    /\ stprog \in Copy =>
         /\ \A c \in Clients : IsPrefixOf([i \in 1..Len(OutputOf(c)) |-> OutputOf(c)[i][2]], Input(c))
         /\ \A c \in Clients : Done(Cl(c)) /\ SvGone(c) /\ Alive(Sv) => Len(OutputOf(c)) = Len(Input(c))
         /\ \A i, j, k \in 1..Len(net.out) : i < j /\ j < k /\ net.out[i][1] = net.out[k][1]
                                             => net.out[j][1] = net.out[i][1]
    /\ stprog = "kv" =>
         \A c \in Clients : Done(Cl(c)) /\ sp[Cl(c)].line # <<>> /\ Field(Input(c), 2, {}) # {} =>
            /\ sp[Cl(c)].line[1] = Input(c)[2]
            /\ Input(c)[1] = SET => sp[Cl(c)].line[2] = Input(c)[3]
            /\ sp[Cl(c)].line[2] \in {0} \cup {Input(e)[3] : e \in {d \in Clients :
                                            Input(d)[1] = SET /\ Input(d)[2] = Input(c)[2]}}

(* Is p waiting for bytes of its connection, or for a connection? *)
Idle(p) == \/ ~Alive(p)
           \/ (At(p, "readLine") \/ At(p, "read")) /\ cn[Fd(p)].up = <<>> /\ ~UpEof(Fd(p))
           \/ At(p, "accept")
Waiting(p) == (At(p, "getLine") \/ At(p, "getAll")) /\ cn[Fd(p)].down = <<>> /\ ~DownEof(Fd(p))

(* Nobody waits on everybody: a client that waits for an answer having sent its whole
   request is in the queue of a running server, or some server process that holds its
   connection has work to do (the parent's copy of an echo connection is closed,
   is_echo_sv.c:112); only a request without an end of line, or an echo client whose
   parent was killed before shutdown(), keeps its server waiting.
   No client ends a server that has once listened (SIGPIPE is ignored,
   is_seqnum_sv.c:54), except that a request without a key may end the key-value server,
   which then uses an uninitialised index (kv_server.c:147-158); every ended child is
   reaped, and a server that waits for a connection holds no other, except those whose
   fork() failed in the remote execution server (server.c:73). *)
NoStuckClient ==
    /\ \A c \in Clients : \A p \in {Cl(c), Reader(c)} :
          Waiting(p) /\ sp[Cl(c)].end \notin {"killed", "SIGPIPE"} /\ ~(At(Cl(c), "write") \/ At(Cl(c), "newline") \/ At(Cl(c), "shutdown"))
             /\ (stprog \notin Echo => \E i \in DOMAIN Input(c) : Input(c)[i] = NL \/ stprog \in Seqnum) =>
          \/ cn[c].state = "queued" \/ c \in net.leaked
          \/ \E q \in cn[c].ours : ~Idle(q)
    /\ sp[Sv].end # "SIGPIPE"
    /\ sp[Sv].end = "SIGSEGV" => stprog = "kv" /\ \E c \in Clients : Field(Input(c), 2, {}) = {}
    /\ sp[Sv].end = "failed" /\ stprog \notin {"is_echo"} \cup Copy => \A c \in Clients : cn[c].state # "accepted"
    /\ net.zombies # {} => net.pendingChld
    /\ At(Sv, "accept") => \A c \in Clients : Sv \in cn[c].ours => c \in net.leaked
=============================================================================
