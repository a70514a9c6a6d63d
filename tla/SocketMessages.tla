------------------------------- MODULE SocketMessages -------------------------------
(***************************************************************************)
(* Messages between sockets: the datagram servers and clients, and the     *)
(* programs that pass descriptors and credentials. Each of the two parts   *)
(* has variables and a next-state relation of its own.                     *)
(***************************************************************************)
EXTENDS Integers, Sequences

----------------------------------------------------------------------------
(***************************************************************************)
(* Servers and clients that exchange datagrams: sockets/ud_ucase_sv.c and  *)
(* _cl.c (UNIX domain: reliable, a full queue blocks the sender),          *)
(* sockets/i6d_ucase_* and id_echo_* (UDP: datagrams are lost, also when   *)
(* the queue is full, and duplicated), and the sender and receiver of      *)
(* exercises/57-sockets-unix-domain/udp-reliability.  A datagram longer    *)
(* than the buffer is cut.  Clients that are mortal may be killed.         *)
(***************************************************************************)
CONSTANTS dgPrograms,       \* a subset of {"ud_ucase", "i6d_ucase", "id_echo", "reliability"}
          Clients, Mortal,
          Messages,         \* what clients send: a set of sequences of lengths
          BUF_SIZE, QLEN,   \* the size of a buffer, and of a socket's queue
          MaxLost           \* how many datagrams are lost or duplicated

ASSUME DatagramsAssumption == /\ BUF_SIZE \in Nat /\ QLEN \in Nat
                              /\ \A m \in Messages : m \in Seq(Nat)

VARIABLES
    dprog,
    dgSv,         \* the server: [at, buf, ant]; at is "new", "recv", "send" or "ended"
    inbox,      \* the queue of its socket
    dgCl,         \* the clients: [at, args, got]; at is "new", "send", "recv", "ended" or "killed"
    answers,    \* the queues of their sockets
    lost, copied

dgVars == <<dprog, dgSv, inbox, dgCl, answers, lost, copied>>

DatagramInit == /\ dprog = "none" /\ dgSv = [at |-> "new", buf |-> <<>>, ant |-> -1] /\ inbox = <<>>
                /\ dgCl = [c \in Clients |-> [at |-> "new", args |-> <<>>, sent |-> 0, got |-> <<>>]]
                /\ answers = [c \in Clients |-> <<>>] /\ lost = 0 /\ copied = 0

Choose == dprog = "none" /\ dprog' \in dgPrograms /\ UNCHANGED <<dgSv, inbox, dgCl, answers, lost, copied>>

UDP == dprog \in {"i6d_ucase", "id_echo"}
Bound == dgSv.at \in {"recv", "send"}
Cut(len) == IF len > BUF_SIZE THEN BUF_SIZE ELSE len
SocketOpen(c) == dgCl[c].at \in {"send", "recv"}

---------------------------------------------------------------------------
(* The servers. *)
Bind == /\ dprog # "none" /\ dgSv.at = "new" /\ dgSv' = [dgSv EXCEPT !.at = "recv"]
        /\ UNCHANGED <<dprog, inbox, dgCl, answers, lost, copied>>
inetBind == dprog = "id_echo" /\ Bind

Recvfrom == /\ dgSv.at = "recv" /\ inbox # <<>> /\ dprog # "reliability"
            /\ dgSv' = [dgSv EXCEPT !.at = "send", !.buf = [Head(inbox) EXCEPT !.len = Cut(@)]]
            /\ inbox' = Tail(inbox) /\ UNCHANGED <<dprog, dgCl, answers, lost, copied>>

(* Nobody reads the answer to a client that is gone; over UDP that is not noticed. *)
Reply(text, end) ==
    /\ dgSv.at = "send"
    /\ LET c == dgSv.buf.from IN
       \/ /\ SocketOpen(c) /\ (UDP \/ Len(answers[c]) < QLEN)
          /\ answers' = [answers EXCEPT ![c] = IF Len(@) < QLEN THEN Append(@, text) ELSE @]
          /\ lost' = IF Len(answers[c]) < QLEN THEN lost ELSE lost + 1
          /\ dgSv' = [dgSv EXCEPT !.at = "recv"]
       \/ ~SocketOpen(c) /\ dgSv' = [dgSv EXCEPT !.at = IF UDP THEN "recv" ELSE end] /\ UNCHANGED <<answers, lost>>
    /\ UNCHANGED <<dprog, inbox, dgCl, copied>>

Upper(d) == [len |-> d.len, no |-> d.no, upper |-> TRUE]
Same(d) == [len |-> d.len, no |-> d.no, upper |-> FALSE]
Mutud_ucase_sv == dprog = "ud_ucase" /\ (Bind \/ Recvfrom \/ Reply(Same(dgSv.buf), "ended"))
ud_ucase_sv == dprog = "ud_ucase" /\ (Bind \/ Recvfrom \/ Reply(Upper(dgSv.buf), "ended"))
i6d_ucase_sv == dprog = "i6d_ucase" /\ (Bind \/ Recvfrom \/ Reply(Upper(dgSv.buf), "ended"))
id_echo_sv == dprog = "id_echo" /\ (inetBind \/ Recvfrom \/ Reply(Same(dgSv.buf), "recv"))

(* The receiver counts with the sender. *)
reliability_server ==
    /\ dprog = "reliability"
    /\ \/ Bind
       \/ /\ dgSv.at = "recv" /\ inbox # <<>> /\ inbox' = Tail(inbox)
          /\ LET now == Head(inbox).no - 1 IN
             dgSv' = IF now # dgSv.ant + 1 THEN [dgSv EXCEPT !.at = "ended"] ELSE [dgSv EXCEPT !.ant = now]
          /\ UNCHANGED <<dprog, dgCl, answers, lost, copied>>

---------------------------------------------------------------------------
(* The clients. *)
Start(c) == /\ dprog # "none" /\ dgCl[c].at = "new" /\ \E m \in Messages :
                 dgCl' = [dgCl EXCEPT ![c].at = "send", ![c].args = m]
            /\ UNCHANGED <<dprog, dgSv, inbox, answers, lost, copied>>

Arg(c) == [from |-> c, no |-> dgCl[c].sent + 1, len |-> dgCl[c].args[dgCl[c].sent + 1]]
SendTo(c, after) ==
    /\ dgCl[c].at = "send" /\ dgCl[c].sent < Len(dgCl[c].args) /\ UNCHANGED <<dprog, dgSv, answers, copied>>
    /\ \/ /\ ~UDP /\ ~Bound /\ dgCl' = [dgCl EXCEPT ![c].at = "ended"] /\ UNCHANGED <<inbox, lost>>   \* an error
       \/ /\ IF UDP THEN TRUE ELSE Bound /\ Len(inbox) < QLEN
          /\ dgCl' = [dgCl EXCEPT ![c].at = after, ![c].sent = @ + 1]
          /\ LET kept == Bound /\ Len(inbox) < QLEN IN
             /\ inbox' = IF kept THEN Append(inbox, Arg(c)) ELSE inbox
             /\ lost' = IF kept THEN lost ELSE lost + 1

ReceiveAnswer(c) ==
    /\ dgCl[c].at = "recv" /\ answers[c] # <<>>
    /\ dgCl' = [dgCl EXCEPT ![c].at = "send",
                            ![c].got = Append(@, [Head(answers[c]) EXCEPT !.len = Cut(@)])]
    /\ answers' = [answers EXCEPT ![c] = Tail(@)]
    /\ UNCHANGED <<dprog, dgSv, inbox, lost, copied>>

Exit(c) == /\ dgCl[c].at = "send" /\ dgCl[c].sent = Len(dgCl[c].args) /\ dgCl' = [dgCl EXCEPT ![c].at = "ended"]
           /\ answers' = [answers EXCEPT ![c] = <<>>] /\ UNCHANGED <<dprog, dgSv, inbox, lost, copied>>

(* The socket of id_echo_cl is connected: that nobody is bound is reported to it. *)
Refused(c) == /\ dprog = "id_echo" /\ dgCl[c].at = "recv" /\ ~Bound /\ dgCl' = [dgCl EXCEPT ![c].at = "ended"]
              /\ UNCHANGED <<dprog, dgSv, inbox, answers, lost, copied>>

ud_ucase_cl(c) == dprog = "ud_ucase" /\ (Start(c) \/ SendTo(c, "recv") \/ ReceiveAnswer(c) \/ Exit(c))
i6d_ucase_cl(c) == dprog = "i6d_ucase" /\ (Start(c) \/ SendTo(c, "recv") \/ ReceiveAnswer(c) \/ Exit(c))
id_echo_cl(c) == dprog = "id_echo" /\ (Start(c) \/ SendTo(c, "recv") \/ ReceiveAnswer(c) \/ Refused(c) \/ Exit(c))
reliability_client(c) == dprog = "reliability" /\ (Start(c) \/ SendTo(c, "send"))

---------------------------------------------------------------------------
(* The network, and the user. *)
Lose == /\ UDP /\ lost + copied < MaxLost /\ inbox # <<>> /\ inbox' = Tail(inbox) /\ lost' = lost + 1
        /\ UNCHANGED <<dprog, dgSv, dgCl, answers, copied>>
Copy == /\ UDP /\ lost + copied < MaxLost /\ inbox # <<>> /\ Len(inbox) < QLEN
        /\ inbox' = Append(inbox, Head(inbox)) /\ copied' = copied + 1
        /\ UNCHANGED <<dprog, dgSv, dgCl, answers, lost>>
Kill(c) == /\ c \in Mortal /\ SocketOpen(c) /\ dgCl' = [dgCl EXCEPT ![c].at = "killed"]
           /\ answers' = [answers EXCEPT ![c] = <<>>] /\ UNCHANGED <<dprog, dgSv, inbox, lost, copied>>

DatagramNext == \/ Choose \/ ud_ucase_sv \/ i6d_ucase_sv \/ id_echo_sv \/ reliability_server \/ Lose \/ Copy
                \/ \E c \in Clients : \/ ud_ucase_cl(c) \/ i6d_ucase_cl(c) \/ id_echo_cl(c) \/ reliability_client(c)
                                      \/ Kill(c)

DatagramSpec == DatagramInit /\ [][DatagramNext]_dgVars

---------------------------------------------------------------------------
(* The k-th answer a client shows is the one to its k-th argument, cut at the size of
   the buffer and in upper case where the server promises that, unless the network has
   copied a datagram: nothing in a datagram says what it answers (ud_ucase_cl.c:61,
   i6d_ucase_cl.c:52, id_echo_cl.c:47). *)
AnswersInOrder ==
    copied = 0 => \A c \in Clients : \A k \in DOMAIN dgCl[c].got :
        dgCl[c].got[k] = [len |-> Cut(dgCl[c].args[k]), no |-> k, upper |-> dprog # "id_echo"]

(* A client that waits has a datagram on its way, unless the network lost one or the
   server has ended; and the server ends only because a client was killed before it was
   answered (ud_ucase_sv.c:70) or because two senders count at the same time
   (udp-reliability/server.c:47). *)
AnswerOnItsWay ==
    /\ \A c \in Clients : dgCl[c].at = "recv" /\ lost = 0 /\ dgSv.at # "ended" =>
         \/ answers[c] # <<>> \/ (dgSv.at = "send" /\ dgSv.buf.from = c)
         \/ \E i \in DOMAIN inbox : inbox[i].from = c
    /\ dgSv.at = "ended" =>
           \/ dprog = "ud_ucase" /\ \E c \in Clients : dgCl[c].at = "killed"
           \/ dprog = "reliability" /\ \E c, d \in Clients : c # d /\ dgCl[c].sent > 0 /\ dgCl[d].sent > 0

DatagramsRight == AnswersInOrder /\ AnswerOnItsWay

----------------------------------------------------------------------------
(***************************************************************************)
(* Passing descriptors and credentials over a UNIX domain socket: the      *)
(* three pairs of programs scm_rights_send/recv.c, scm_cred_send/recv.c    *)
(* and scm_multi_send/recv.c of sockets/, with unixConnect() and           *)
(* unixBind() of unix_sockets.c.  Sender and receiver start in any order   *)
(* and interleave freely.  The kernel attaches the credentials of a sender *)
(* that gives none only when the receiving socket has SO_PASSCRED, or is   *)
(* still waiting to be accepted; sizes of ancillary data are in bytes.     *)
(***************************************************************************)
CONSTANTS ScmPrograms,   \* subset of {"rights", "cred", "multi"}
          ScmFiles,         \* lists of files given to a sender
          ControlSizes   \* values of scm_multi_recv -n; NoLimit is none

(* The number of files given to a sender is limited by MAX_FDS.            *)
ASSUME ScmAssumption == /\ ControlSizes \subseteq Nat
                        /\ \A f \in ScmFiles : f \in Seq(STRING) /\ Len(f) <= 1024

Self == "sender"         \* the sender's own credentials
Nobody == "nobody"

VARIABLES scm,   \* the pair of programs
          snd,   \* the sender
          rcv,   \* the receiver
          sock   \* the socket at SOCK_PATH

scmVars == <<scm, snd, rcv, sock>>

CMSG_LEN(n) == 16 + n
CMSG_SPACE(n) == 16 + 8 * ((n + 7) \div 8)
UCRED == 12
MAX_FDS == 1024
NoLimit == CMSG_SPACE(4 * MAX_FDS) + CMSG_SPACE(UCRED)

ScmInit ==
       /\ scm = "none"
       /\ snd = [pc |-> "start", dgram |-> FALSE, files |-> <<>>, creds |-> "none", data |-> TRUE,
                 fds |-> <<>>]
       /\ rcv = [pc |-> "start", dgram |-> FALSE, limit |-> NoLimit, header |-> <<>>, fds |-> <<>>,
                 creds |-> "none", out |-> <<>>]
       /\ sock = [state |-> "none", passcred |-> FALSE, accepted |-> FALSE, queue |-> <<>>,
                  connected |-> FALSE, eof |-> FALSE]

(* The command lines: one file; credentials, which are the sender's own    *)
(* without arguments, those of another process when it may send them, or   *)
(* none at all with -n; files and credentials, with -n no real data.  A    *)
(* socket file of an earlier run may be there.                             *)
StartScm(p, dgram, files, creds, data, limit) ==
       /\ scm = "none"
       /\ scm' = p
       /\ snd' = [snd EXCEPT !.pc = "open", !.dgram = dgram, !.data = data, !.files = files,
                             !.creds = creds]
       /\ rcv' = [rcv EXCEPT !.pc = "remove", !.dgram = dgram, !.limit = limit]
       /\ \E stale \in BOOLEAN : sock' = [sock EXCEPT !.state = IF stale THEN "stale" ELSE "none"]

rightsOptions ==
    /\ "rights" \in ScmPrograms
    /\ \E dgram \in BOOLEAN, files \in ScmFiles :
          Len(files) = 1 /\ StartScm("rights", dgram, files, "none", TRUE, NoLimit)

credOptions ==
    /\ "cred" \in ScmPrograms
    /\ \E dgram \in BOOLEAN, creds \in {"none", Self, "other"} :
          StartScm("cred", dgram, <<>>, creds, TRUE, NoLimit)

multiOptions ==
    /\ "multi" \in ScmPrograms
    /\ \E dgram, data \in BOOLEAN, files \in ScmFiles, creds \in {Self, "other"}, limit \in ControlSizes :
          files # <<>> /\ StartScm("multi", dgram, files, creds, data, limit)

----------------------------------------------------------------------------
(* The sender.                                                             *)

SendFails == snd' = [snd EXCEPT !.pc = "failed", !.fds = <<>>]

(* The files of the command line are opened; one may not be there.         *)
OpenFile ==
        /\ snd.pc = "open"
        /\ \/ snd' = [snd EXCEPT !.pc = "connect", !.fds = snd.files]
           \/ snd.files # <<>> /\ SendFails
        /\ UNCHANGED <<scm, rcv, sock>>

(* unixConnect() needs a socket that listens, or a bound datagram socket.  *)
unixConnect ==
    /\ snd.pc = "connect"
    /\ IF sock.state = (IF snd.dgram THEN "bound" ELSE "listening")
       THEN /\ snd' = [snd EXCEPT !.pc = "send"]
            /\ sock' = [sock EXCEPT !.connected = TRUE]
       ELSE SendFails /\ UNCHANGED sock
    /\ UNCHANGED <<scm, rcv>>

(* The credentials that travel with the message.                           *)
Attached ==
    IF snd.creds # "none" THEN snd.creds
    ELSE IF sock.passcred \/ (~snd.dgram /\ ~sock.accepted) THEN Self ELSE Nobody

(* The ancillary data: one descriptor; a ucred or nothing; or the          *)
(* descriptors of all files and a ucred.                                   *)
rightsMsg == [fds |-> snd.fds, creds |-> Attached]
credMsg == [fds |-> <<>>, creds |-> Attached]
multiMsg == [fds |-> snd.fds, creds |-> snd.creds]

(* sendmsg(): over a stream nothing is sent without a byte of real data.   *)
Sendmsg ==
    /\ snd.pc = "send"
    /\ snd' = [snd EXCEPT !.pc = "close"]
    /\ LET msg == CASE scm = "rights" -> rightsMsg [] scm = "cred" -> credMsg [] OTHER -> multiMsg IN
       sock' = IF snd.data \/ snd.dgram
               THEN [sock EXCEPT !.queue = Append(@, msg)] ELSE sock
    /\ UNCHANGED <<scm, rcv>>

(* close() of the descriptor that was sent, and the end of the process.    *)
SenderExits ==
    /\ snd.pc = "close"
    /\ snd' = [snd EXCEPT !.pc = "end", !.fds = <<>>]
    /\ sock' = [sock EXCEPT !.eof = ~snd.dgram]
    /\ UNCHANGED <<scm, rcv>>

----------------------------------------------------------------------------
(* The receiver.                                                           *)

Remove ==
    /\ rcv.pc = "remove"
    /\ rcv' = [rcv EXCEPT !.pc = "bind"]
    /\ sock' = [sock EXCEPT !.state = "none"]
    /\ UNCHANGED <<scm, snd>>

unixBind ==
    /\ rcv.pc = "bind"
    /\ rcv' = [rcv EXCEPT !.pc = IF rcv.dgram THEN "option" ELSE "listen"]
    /\ sock' = [sock EXCEPT !.state = "bound"]
    /\ UNCHANGED <<scm, snd>>

Listen ==
    /\ rcv.pc = "listen"
    /\ rcv' = [rcv EXCEPT !.pc = "accept"]
    /\ sock' = [sock EXCEPT !.state = "listening"]
    /\ UNCHANGED <<scm, snd>>

Accept ==
    /\ rcv.pc = "accept" /\ sock.connected
    /\ rcv' = [rcv EXCEPT !.pc = "option"]
    /\ sock' = [sock EXCEPT !.accepted = TRUE]
    /\ UNCHANGED <<scm, snd>>

(* SO_PASSCRED, in the programs that receive credentials.                  *)
Setsockopt ==
    /\ rcv.pc = "option"
    /\ rcv' = [rcv EXCEPT !.pc = "recv"]
    /\ sock' = [sock EXCEPT !.passcred = scm # "rights"]
    /\ UNCHANGED <<scm, snd>>

(* The kernel's side of recvmsg(): the credentials come first, cut to the  *)
(* space there is, then as many descriptors as fit; the others are closed. *)
rightsSpace == CMSG_SPACE(4)
credSpace == CMSG_SPACE(UCRED)
multiSpace == rcv.limit
Space == CASE scm = "rights" -> rightsSpace [] scm = "cred" -> credSpace [] OTHER -> multiSpace

CredHeader(space, creds) ==
    IF ~sock.passcred \/ space < 16 THEN <<>>
    ELSE <<[type |-> "SCM_CREDENTIALS", len |-> IF space < CMSG_LEN(UCRED) THEN space ELSE CMSG_LEN(UCRED),
            creds |-> creds, fds |-> <<>>]>>

RightsHeader(space, fds) ==
    LET room == IF space > 16 THEN (space - 16) \div 4 ELSE 0
        n == IF Len(fds) < room THEN Len(fds) ELSE room IN
    IF n = 0 THEN <<>>
    ELSE <<[type |-> "SCM_RIGHTS", len |-> CMSG_LEN(4 * n), creds |-> "none", fds |-> SubSeq(fds, 1, n)]>>

Headers(msg) ==
    LET used == IF ~sock.passcred THEN 0
                ELSE IF Space < CMSG_SPACE(UCRED) THEN Space ELSE CMSG_SPACE(UCRED) IN
    CredHeader(Space, msg.creds) \o RightsHeader(Space - used, msg.fds)

(* The descriptors the receiver now has open are those of the last header. *)
(* At the end of the stream the kernel may still report credentials, of    *)
(* nobody.                                                                 *)
Recvmsg ==
    /\ rcv.pc = "recv"
    /\ \/ /\ sock.queue # <<>>
          /\ LET headers == Headers(Head(sock.queue)) IN
             rcv' = [rcv EXCEPT !.pc = "walk", !.header = headers,
                                !.fds = IF headers = <<>> THEN <<>> ELSE headers[Len(headers)].fds]
          /\ sock' = [sock EXCEPT !.queue = Tail(@)]
       \/ /\ sock.queue = <<>> /\ sock.eof
          /\ \E headers \in {<<>>, CredHeader(Space, Nobody)} :
                rcv' = [rcv EXCEPT !.pc = "walk", !.header = headers, !.fds = <<>>]
          /\ UNCHANGED sock
    /\ UNCHANGED <<scm, snd>>

RecvFails == rcv' = [rcv EXCEPT !.pc = "failed", !.fds = <<>>]

(* scm_rights_recv.c and scm_cred_recv.c look at the first header only.    *)
rightsCheck ==
    /\ rcv.pc = "walk" /\ scm = "rights"
    /\ IF rcv.header = <<>> \/ Head(rcv.header).len # CMSG_LEN(4)
          \/ Head(rcv.header).type # "SCM_RIGHTS"
       THEN RecvFails
       ELSE rcv' = [rcv EXCEPT !.pc = "end", !.out = rcv.fds]
    /\ UNCHANGED <<scm, snd, sock>>

credCheck ==
    /\ rcv.pc = "walk" /\ scm = "cred"
    /\ IF rcv.header = <<>> \/ Head(rcv.header).len # CMSG_LEN(UCRED)
          \/ Head(rcv.header).type # "SCM_CREDENTIALS"
       THEN RecvFails
       ELSE rcv' = [rcv EXCEPT !.pc = "end", !.creds = Head(rcv.header).creds]
    /\ UNCHANGED <<scm, snd, sock>>

(* scm_multi_recv.c walks through all headers; it copies and closes every  *)
(* descriptor of a header.                                                 *)
MutmultiWalk ==
    /\ rcv.pc = "walk" /\ scm = "multi"
    /\ IF rcv.header = <<>> THEN rcv' = [rcv EXCEPT !.pc = "end"]
       ELSE LET h == Head(rcv.header) IN
            IF h.type = "SCM_RIGHTS"
            THEN LET fdCnt == h.len \div 4 IN
                 rcv' = [rcv EXCEPT !.header = Tail(@),
                                    !.out = @ \o [j \in 1 .. fdCnt |-> IF j <= Len(h.fds) THEN h.fds[j] ELSE "junk"],
                                    !.fds = SubSeq(@, fdCnt + 1, Len(@))]
            ELSE rcv' = [rcv EXCEPT !.header = Tail(@), !.creds = h.creds]
    /\ UNCHANGED <<scm, snd, sock>>
multiWalk ==
    /\ rcv.pc = "walk" /\ scm = "multi"
    /\ IF rcv.header = <<>> THEN rcv' = [rcv EXCEPT !.pc = "end"]
       ELSE LET h == Head(rcv.header) IN
            IF h.type = "SCM_RIGHTS"
            THEN LET fdCnt == (h.len - CMSG_LEN(0)) \div 4 IN
                 rcv' = [rcv EXCEPT !.header = Tail(@), !.out = @ \o SubSeq(h.fds, 1, fdCnt),
                                    !.fds = SubSeq(@, fdCnt + 1, Len(@))]
            ELSE IF h.len # CMSG_LEN(UCRED) THEN RecvFails
            ELSE rcv' = [rcv EXCEPT !.header = Tail(@), !.creds = h.creds]
    /\ UNCHANGED <<scm, snd, sock>>

(* CMSG_NXTHDR(), depending on the C library, does not return a header     *)
(* whose padding does not fit the buffer, which happens only with -n: the  *)
(* walk ends and the descriptors of that header stay open.                 *)
multiUnseen ==
    /\ rcv.pc = "walk" /\ scm = "multi" /\ rcv.limit # NoLimit
    /\ rcv.header # <<>> /\ Head(rcv.header).type = "SCM_RIGHTS"
    /\ rcv.limit < CMSG_SPACE(UCRED) + CMSG_SPACE(4 * Len(rcv.fds))
    /\ rcv' = [rcv EXCEPT !.pc = "end"]
    /\ UNCHANGED <<scm, snd, sock>>

ScmNext ==
       \/ rightsOptions \/ credOptions \/ multiOptions
       \/ OpenFile \/ unixConnect \/ Sendmsg \/ SenderExits
       \/ Remove \/ unixBind \/ Listen \/ Accept \/ Setsockopt \/ Recvmsg
       \/ rightsCheck \/ credCheck \/ multiWalk \/ multiUnseen

ScmSpec == ScmInit /\ [][ScmNext]_scmVars

----------------------------------------------------------------------------
(* What arrives is what was sent.  scm_rights_recv copies the file that    *)
(* was sent, whether or not the sender has closed it or ended meanwhile    *)
(* (scm_rights_send.c:137); scm_multi_recv copies the files in their order *)
(* and stops early only where -n leaves no room, and without -n it keeps   *)
(* no descriptor open (scm_multi_recv.c:221); credentials given explicitly *)
(* arrive unchanged, and those of nobody appear only where no byte of data *)
(* was sent.                                                               *)
Passed ==
    /\ (rcv.pc = "end" /\ scm = "rights") => rcv.out = snd.files
    /\ (rcv.pc = "end" /\ scm = "multi") =>
          /\ Len(rcv.out) <= Len(snd.files) /\ rcv.out = SubSeq(snd.files, 1, Len(rcv.out))
          /\ rcv.limit = NoLimit => rcv.fds = <<>>
          /\ rcv.creds \in {snd.creds, "none"} \/ (~snd.data /\ rcv.creds = Nobody)
          /\ (rcv.limit = NoLimit /\ snd.data) => rcv.out = snd.files /\ rcv.creds = snd.creds
    /\ (rcv.pc = "end" /\ scm = "cred" /\ snd.creds # "none") => rcv.creds = snd.creds
=============================================================================
