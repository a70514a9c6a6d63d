----------------------------- MODULE FifoSeqnum -----------------------------
(***************************************************************************)
(* pipes/fifo_seqnum_server.c and pipes/fifo_seqnum_client.c: an iterative *)
(* server hands out ranges of sequence numbers.  Clients write requests to *)
(* one well-known FIFO (atomically: a request is shorter than PIPE_BUF)    *)
(* and each reads its reply from a FIFO of its own.  open() of a FIFO      *)
(* waits until the other end is opened too.                                *)
(***************************************************************************)
EXTENDS Integers, Sequences

CONSTANTS Clients,      \* pids
          SeqLens,      \* lengths a client may ask for
          INT_MAX,      \* the largest int
          None          \* no client

ASSUME ClientsAssumption == None \notin Clients
ASSUME SeqLensAssumption == INT_MAX \in Nat \ {0} /\ SeqLens \subseteq 1..INT_MAX  \* getInt(..., GN_GT_0)

VARIABLES spc, req, seqNum, \* server: where it is, the client it serves, its counter
          serverFifo,   \* requests not yet read: clients, in order
          cpc,          \* where each client is
          seqLen,       \* what each client asks for
          clientFifos,  \* clients whose FIFO exists
          replied, resp,\* clients whose reply is in their FIFO or read from it, and the replies
          wrapped       \* the counter has passed INT_MAX

vars == <<spc, req, seqNum, serverFifo, cpc, seqLen, clientFifos, replied, resp, wrapped>>
server == <<spc, req, seqNum, wrapped>>
replies == <<replied, resp>>

SPCs == {"mkfifo", "openServer", "openDummy", "read", "openClient", "blocked", "write",
         "advance"}
CPCs == {"mkfifo", "openServer", "send", "openClient", "read", "exit", "failed", "killed"}

TypeOK == /\ spc \in SPCs /\ req \in Clients \cup {None} /\ seqNum \in Int
          /\ spc \in {"openClient", "blocked", "write", "advance"} => req \in Clients
          /\ serverFifo \in Seq(Clients)
          /\ cpc \in [Clients -> CPCs] /\ seqLen \in [Clients -> SeqLens]
          /\ clientFifos \subseteq Clients
          /\ replied \subseteq Clients /\ resp \in [Clients -> Int]

Init == /\ spc = "mkfifo" /\ req = None /\ seqNum = 0
        /\ serverFifo = <<>>
        /\ cpc = [c \in Clients |-> "mkfifo"]
        /\ seqLen \in [Clients -> SeqLens]
        /\ clientFifos = {}
        /\ replied = {} /\ resp = [c \in Clients |-> 0] /\ wrapped = FALSE

SGo(from, to) == spc = from /\ spc' = to
CGo(c, from, to) == cpc[c] = from /\ cpc' = [cpc EXCEPT ![c] = to] /\ UNCHANGED seqLen

----------------------------------------------------------------------------
SMkfifo == /\ SGo("mkfifo", "openServer")
           /\ UNCHANGED <<req, seqNum, wrapped, serverFifo, cpc, seqLen, clientFifos, replies>>

\* The server's open(O_RDONLY) returns when a client opens the other end.
SOpenServer == /\ SGo("openServer", "openDummy")
               /\ \E c \in Clients : cpc[c] = "openServer"
               /\ UNCHANGED <<req, seqNum, wrapped, serverFifo, cpc, seqLen, clientFifos, replies>>

\* The extra write descriptor, "so that we never see EOF"; SIGPIPE is ignored.
SOpenDummy == /\ SGo("openDummy", "read")
              /\ UNCHANGED <<req, seqNum, wrapped, serverFifo, cpc, seqLen, clientFifos, replies>>

\* read() of one request; waits while there is none.
SRead == /\ SGo("read", "openClient")
         /\ serverFifo # <<>>
         /\ req' = Head(serverFifo) /\ serverFifo' = Tail(serverFifo)
         /\ UNCHANGED <<seqNum, wrapped, cpc, seqLen, clientFifos, replies>>

\* open(clientFifo, O_WRONLY) fails if the FIFO is gone: "give up on client".
SGiveUp == /\ SGo("openClient", "read")
           /\ req \notin clientFifos
           /\ UNCHANGED <<req, seqNum, wrapped, serverFifo, cpc, seqLen, clientFifos, replies>>

\* The FIFO is there: open() waits for its reader, and goes on waiting even if
\* the FIFO is removed meanwhile.
SOpenClient == /\ SGo("openClient", "blocked")
               /\ req \in clientFifos
               /\ UNCHANGED <<req, seqNum, wrapped, serverFifo, cpc, seqLen, clientFifos, replies>>

\* The server's and the client's open() of the client's FIFO return together.
OpenClientFifo == /\ req \in clientFifos
                  /\ SGo("blocked", "write") /\ CGo(req, "openClient", "read")
                  /\ UNCHANGED <<req, seqNum, wrapped, serverFifo, clientFifos, replies>>

\* write() of the reply; with no reader left it fails with EPIPE and the server
\* goes on all the same.
SWrite == /\ SGo("write", "advance")
          /\ IF cpc[req] = "read"
             THEN replied' = replied \cup {req} /\ resp' = [resp EXCEPT ![req] = seqNum]
             ELSE UNCHANGED replies
          /\ UNCHANGED <<req, seqNum, wrapped, serverFifo, cpc, seqLen, clientFifos>>

\* BUG: the counter is advanced by one, not by the requested length.
MutSAdvance == /\ SGo("advance", "read")
               /\ seqNum' = seqNum + 1
               /\ UNCHANGED <<req, wrapped, serverFifo, cpc, seqLen, clientFifos, replies>>

\* close() and seqNum += req.seqLen. Nothing checks for overflow of the int.
SAdvance == /\ SGo("advance", "read")
            /\ \/ /\ seqNum + seqLen[req] <= INT_MAX
                  /\ seqNum' = seqNum + seqLen[req] /\ UNCHANGED wrapped
               \/ /\ seqNum + seqLen[req] > INT_MAX
                  /\ seqNum' = seqNum + seqLen[req] - 2 * (INT_MAX + 1) /\ wrapped' = TRUE
            /\ UNCHANGED <<req, serverFifo, cpc, seqLen, clientFifos, replies>>

----------------------------------------------------------------------------
\* BUG: the client creates its FIFO only after it has sent the request.
MutCMkfifo(c) == /\ CGo(c, "mkfifo", "openServer")
                 /\ UNCHANGED <<server, serverFifo, clientFifos, replies>>

\* "Create our FIFO (before sending request, to avoid a race)".
CMkfifo(c) == /\ CGo(c, "mkfifo", "openServer")
              /\ clientFifos' = clientFifos \cup {c}
              /\ UNCHANGED <<server, serverFifo, replies>>

\* open(SERVER_FIFO, O_WRONLY) waits for the server's end.
COpenServer(c) == /\ CGo(c, "openServer", "send")
                  /\ spc \notin {"mkfifo", "openServer"}
                  /\ UNCHANGED <<server, serverFifo, clientFifos, replies>>

CSend(c) == /\ CGo(c, "send", "openClient")
            /\ serverFifo' = Append(serverFifo, c)
            /\ UNCHANGED <<server, clientFifos, replies>>

\* BUG: the client reads before a reply is there.
MutCRead(c) == /\ CGo(c, "read", "exit")
               /\ clientFifos' = clientFifos \ {c}
               /\ UNCHANGED <<server, serverFifo, replies>>

\* read() of the reply; exit() removes the FIFO.
CRead(c) == /\ CGo(c, "read", "exit")
            /\ c \in replied
            /\ clientFifos' = clientFifos \ {c}
            /\ UNCHANGED <<server, serverFifo, replies>>

\* A system call fails: errExit() removes the FIFO.
CFail(c) == /\ cpc[c] \in {"openServer", "send", "openClient", "read"}
            /\ cpc' = [cpc EXCEPT ![c] = "failed"]
            /\ clientFifos' = clientFifos \ {c}
            /\ UNCHANGED <<server, serverFifo, seqLen, replies>>

\* A signal kills the client: its FIFO stays.
CKilled(c) == /\ cpc[c] \in {"openServer", "send", "openClient", "read"}
              /\ cpc' = [cpc EXCEPT ![c] = "killed"]
              /\ UNCHANGED <<server, serverFifo, seqLen, clientFifos, replies>>

Server == \/ SMkfifo \/ SOpenServer \/ SOpenDummy \/ SRead
          \/ SGiveUp \/ SOpenClient \/ OpenClientFifo \/ SWrite \/ SAdvance
Client(c) == CMkfifo(c) \/ COpenServer(c) \/ CSend(c) \/ CRead(c)
Next == Server \/ \E c \in Clients : Client(c) \/ CFail(c) \/ CKilled(c)

Spec == Init /\ [][Next]_vars
\* The scheduler runs the server and the clients.
FairSpec == Spec /\ WF_vars(Server) /\ \A c \in Clients : WF_vars(Client(c))

----------------------------------------------------------------------------
\* "The allocation of unique sequential numbers" (fifo_seqnum_server.c:16): the
\* ranges of two clients that got a reply do not overlap, whichever clients
\* failed or were killed in between, as long as the counter fits an int.
UniqueRanges == ~wrapped => \A c, d \in replied : c # d =>
                    resp[c] + seqLen[c] <= resp[d] \/ resp[d] + seqLen[d] <= resp[c]

\* The number a client prints was allocated to it: it was sent to this client,
\* and its range lies below the counter, except while the server has still to
\* advance it for this client.
RepliesAllocated == \A c \in Clients : cpc[c] = "exit" =>
    c \in replied /\ (wrapped \/ (spc = "advance" /\ req = c) \/ resp[c] + seqLen[c] <= seqNum)

\* Every client is served, fails or is killed, unless the server waits for a
\* client that is gone: a client that dies at any other moment does not stop it.
Served == \A c \in Clients :
              cpc[c] = "openServer" ~> \/ cpc[c] \in {"exit", "failed", "killed"}
                                       \/ spc = "blocked" /\ cpc[req] \in {"failed", "killed"}
=============================================================================
