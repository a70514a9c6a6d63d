----------------------------- MODULE IpcProofs -----------------------------
(***************************************************************************)
(* Proofs about programs that wait for each other: the sequence number     *)
(* server for any clients, the mq_notify programs for any queue and any    *)
(* senders, and svsem_good_init.c for any processes.  Each has an          *)
(* inductive invariant, which the steps of the others leave alone.         *)
(***************************************************************************)
EXTENDS MCIpc, TLAPS

----------------------------------------------------------------------------
\* fifo_seqnum_server.c: as long as the counter fits an int, every range handed
\* out ends at or below it, except the one whose reply was just written, which
\* starts at it.
Below(c) == \/ resp[c] + seqLen[c] <= seqNum
            \/ spc = "advance" /\ c = req /\ resp[c] = seqNum

Apart(c, d) == resp[c] + seqLen[c] <= resp[d] \/ resp[d] + seqLen[d] <= resp[c]

SeqRanges == /\ \A c \in replied : Below(c)
             /\ \A c, d \in replied : c # d => Apart(c, d)

SeqGot == \A c \in Clients : cpc[c] = "exit" => c \in replied

SeqInv == TypeOK /\ SeqGot /\ (wrapped \/ SeqRanges)

\* Before any request there is no reply.
LEMMA SeqInit == Init => SeqInv
<1> SUFFICES ASSUME Init PROVE SeqInv
  OBVIOUS
<1>1. /\ spc = "mkfifo" /\ req = None /\ seqNum = 0 /\ serverFifo = <<>> /\ clientFifos = {}
      /\ cpc = [c \in Clients |-> "mkfifo"] /\ seqLen \in [Clients -> SeqLens]
      /\ replied = {} /\ resp = [c \in Clients |-> 0]
  BY DEF Init
<1>2. resp \in [Clients -> Int] /\ serverFifo \in Seq(Clients)
  BY <1>1
<1>3. TypeOK
  BY <1>1, <1>2 DEF TypeOK, SPCs, CPCs
<1>4. SeqGot /\ SeqRanges
  BY <1>1, Zenon DEF SeqGot, SeqRanges
<1>5. QED
  BY <1>3, <1>4, Zenon DEF SeqInv

\* Lengths are positive numbers.
LEMMA Lengths == ASSUME TypeOK, NEW c \in Clients PROVE seqLen[c] \in Nat /\ seqLen[c] > 0
<1>1. seqLen[c] \in 1..INT_MAX /\ INT_MAX \in Nat
  BY SeqLensAssumption, Zenon DEF TypeOK
<1>2. QED
  BY <1>1

\* A step that leaves the counter and the replies alone keeps the ranges, unless
\* it ends the moment between the reply and the advance.
LEMMA SeqKeep == ASSUME wrapped \/ SeqRanges, UNCHANGED <<seqNum, seqLen, replied, resp, wrapped>>,
                        spc # "advance" \/ UNCHANGED <<spc, req>>
                 PROVE  (wrapped \/ SeqRanges)'
  BY Zenon DEF SeqRanges, Below, Apart

\* Every step of the server and of a client preserves the invariant.
LEMMA SeqNext == SeqInv /\ [Next]_vars => SeqInv'
<1> SUFFICES ASSUME SeqInv, [Next]_vars PROVE SeqInv'
  OBVIOUS
<1> USE DEF SeqInv
<1>0. \A c \in Clients : seqLen[c] \in Nat /\ seqLen[c] > 0
  BY Lengths
<1>1. CASE SMkfifo \/ SOpenServer \/ SOpenDummy \/ SGiveUp \/ SOpenClient
  <2>1. /\ UNCHANGED <<req, seqNum, serverFifo, cpc, seqLen, clientFifos, replied, resp, wrapped>>
        /\ spc # "advance" /\ spc' \in {"openServer", "openDummy", "read", "blocked"}
        /\ spc' = "blocked" => spc = "openClient"
    BY <1>1, ZenonT(60) DEF SMkfifo, SOpenServer, SOpenDummy, SGiveUp, SOpenClient, SGo, replies
  <2>2. TypeOK' /\ SeqGot'
    BY <2>1, SMTT(60) DEF TypeOK, SPCs, SeqGot
  <2>3. QED
    BY <2>1, <2>2, SeqKeep, Zenon
<1>2. CASE SRead
  <2>1. /\ UNCHANGED <<seqNum, cpc, seqLen, clientFifos, replied, resp, wrapped>>
        /\ spc = "read" /\ spc' = "openClient" /\ serverFifo # <<>>
        /\ req' = Head(serverFifo) /\ serverFifo' = Tail(serverFifo)
    BY <1>2, Zenon DEF SRead, SGo, replies
  <2>2. req' \in Clients /\ serverFifo' \in Seq(Clients)
    BY <2>1 DEF TypeOK
  <2>3. TypeOK' /\ SeqGot'
    BY <2>1, <2>2, SMTT(60) DEF TypeOK, SPCs, SeqGot
  <2>4. QED
    BY <2>1, <2>3, SeqKeep, Zenon
<1>3. CASE OpenClientFifo
  <2>1. /\ UNCHANGED <<req, seqNum, serverFifo, seqLen, clientFifos, replied, resp, wrapped>>
        /\ spc = "blocked" /\ spc' = "write"
        /\ cpc' = [cpc EXCEPT ![req] = "read"]
    BY <1>3, Zenon DEF OpenClientFifo, SGo, CGo, replies
  <2>2. TypeOK' /\ SeqGot'
    BY <2>1, SMTT(60) DEF TypeOK, SPCs, CPCs, SeqGot
  <2>3. QED
    BY <2>1, <2>2, SeqKeep, Zenon
<1>4. CASE SWrite
  <2>1. /\ spc = "write" /\ spc' = "advance" /\ req \in Clients
        /\ UNCHANGED <<req, seqNum, serverFifo, cpc, seqLen, clientFifos, wrapped>>
        /\ \/ UNCHANGED <<replied, resp>>
           \/ replied' = replied \cup {req} /\ resp' = [resp EXCEPT ![req] = seqNum]
    BY <1>4, Zenon DEF SWrite, SGo, replies, TypeOK
  <2>2. TypeOK' /\ SeqGot'
    BY <2>1, SMTT(60) DEF TypeOK, SPCs, SeqGot
  <2>3. CASE UNCHANGED <<replied, resp>>
    BY <2>1, <2>2, <2>3, SeqKeep, Zenon
  <2>4. CASE replied' = replied \cup {req} /\ resp' = [resp EXCEPT ![req] = seqNum]
    <3>1. /\ resp'[req] = seqNum /\ seqNum \in Int /\ replied \subseteq Clients
          /\ \A c \in Clients : c # req => resp'[c] = resp[c]
      BY <2>1, <2>4 DEF TypeOK
    <3>2. ASSUME SeqRanges PROVE SeqRanges'
      <4>1. ASSUME NEW c \in replied' PROVE Below(c)'
        BY <2>1, <2>4, <3>1, <3>2, Zenon DEF SeqRanges, Below
      <4>2. ASSUME NEW c \in replied, c # req PROVE Apart(c, req)' /\ Apart(req, c)'
        <5>1. resp[c] + seqLen[c] <= seqNum
          BY <2>1, <3>2, <4>2, Zenon DEF SeqRanges, Below
        <5>2. QED
          BY <2>1, <3>1, <4>2, <5>1, Zenon DEF Apart
      <4>3. ASSUME NEW c \in replied, NEW d \in replied, c # d, c # req, d # req PROVE Apart(c, d)'
        BY <2>1, <3>1, <3>2, <4>3, Zenon DEF SeqRanges, Apart
      <4>4. ASSUME NEW c \in replied', NEW d \in replied', c # d PROVE Apart(c, d)'
        <5>1. c \in replied \/ c = req
          BY <2>4
        <5>2. d \in replied \/ d = req
          BY <2>4
        <5>3. CASE c = req
          BY <2>1, <4>2, <4>4, <5>2, <5>3, Zenon DEF Apart
        <5>4. CASE d = req
          BY <2>1, <4>2, <4>4, <5>1, <5>4, Zenon DEF Apart
        <5>5. QED
          BY <4>3, <4>4, <5>1, <5>2, <5>3, <5>4, Zenon
      <4>5. QED
        BY <4>1, <4>4, Zenon DEF SeqRanges
    <3>3. QED
      BY <2>1, <2>2, <3>2, Zenon
  <2>5. QED
    BY <2>1, <2>3, <2>4, Zenon
<1>5. CASE SAdvance
  <2>1. /\ spc = "advance" /\ spc' = "read" /\ req \in Clients
        /\ UNCHANGED <<req, serverFifo, cpc, seqLen, clientFifos, replied, resp>>
        /\ \/ seqNum' = seqNum + seqLen[req] /\ wrapped' = wrapped
           \/ seqNum' = seqNum + seqLen[req] - 2 * (INT_MAX + 1) /\ wrapped'
    BY <1>5, Zenon DEF SAdvance, SGo, replies, TypeOK
  <2>2. seqNum \in Int /\ seqLen[req] \in Nat /\ INT_MAX \in Nat
    BY <1>0, <2>1, SeqLensAssumption DEF TypeOK
  <2>3. TypeOK' /\ SeqGot'
    BY <2>1, <2>2, SMTT(60) DEF TypeOK, SPCs, SeqGot
  <2>4. ASSUME SeqRanges, seqNum' = seqNum + seqLen[req] PROVE SeqRanges'
    <3>1. ASSUME NEW c \in replied PROVE Below(c)'
      <4>1. resp[c] \in Int /\ seqLen[c] \in Nat
        BY <1>0 DEF TypeOK
      <4>2. resp[c] + seqLen[c] <= seqNum \/ (c = req /\ resp[c] = seqNum)
        BY <2>4, Zenon DEF SeqRanges, Below
      <4>3. resp[c] + seqLen[c] <= seqNum + seqLen[req]
        BY <2>2, <4>1, <4>2
      <4>4. QED
        BY <2>1, <2>4, <4>3, Zenon DEF Below
    <3>2. QED
      BY <2>1, <2>4, <3>1, Zenon DEF SeqRanges, Apart
  <2>5. CASE wrapped'
    BY <2>3, <2>5, Zenon
  <2>6. CASE seqNum' = seqNum + seqLen[req] /\ wrapped' = wrapped
    BY <2>3, <2>4, <2>6, Zenon
  <2>7. QED
    BY <2>1, <2>5, <2>6, Zenon
<1>6. ASSUME NEW c \in Clients, CMkfifo(c) \/ COpenServer(c) \/ CSend(c) \/ CRead(c)
                                \/ CFail(c) \/ CKilled(c)
      PROVE  SeqInv'
  <2>1. UNCHANGED <<spc, req, seqNum, seqLen, replied, resp, wrapped>>
    BY <1>6, ZenonT(60) DEF CMkfifo, COpenServer, CSend, CRead, CFail, CKilled, CGo, server, replies
  <2>2. /\ clientFifos' \in {clientFifos, clientFifos \cup {c}, clientFifos \ {c}}
        /\ serverFifo' \in {serverFifo, Append(serverFifo, c)}
    BY <1>6, ZenonT(60) DEF CMkfifo, COpenServer, CSend, CRead, CFail, CKilled, CGo
  <2>3. /\ \/ cpc' = [cpc EXCEPT ![c] = "openServer"] \/ cpc' = [cpc EXCEPT ![c] = "send"]
           \/ cpc' = [cpc EXCEPT ![c] = "openClient"] \/ cpc' = [cpc EXCEPT ![c] = "failed"]
           \/ cpc' = [cpc EXCEPT ![c] = "killed"]
           \/ cpc' = [cpc EXCEPT ![c] = "exit"] /\ c \in replied
    BY <1>6, ZenonT(60) DEF CMkfifo, COpenServer, CSend, CRead, CFail, CKilled, CGo
  <2>4. clientFifos' \subseteq Clients
    BY <1>0, <1>6, <2>2, Zenon DEF TypeOK
  <2>5. serverFifo' \in Seq(Clients)
    <3>1. serverFifo \in Seq(Clients)
      BY <1>0, Zenon DEF TypeOK
    <3>2. Append(serverFifo, c) \in Seq(Clients)
      BY <1>6, <3>1
    <3>3. QED
      BY <2>2, <3>1, <3>2, Zenon
  <2>6. cpc' \in [Clients -> CPCs] /\ SeqGot'
    <3>1. cpc \in [Clients -> CPCs] /\ replied' = replied /\ SeqGot
      BY <1>0, <2>1, Zenon DEF TypeOK
    <3>2. PICK p \in CPCs : cpc' = [cpc EXCEPT ![c] = p] /\ (p = "exit" => c \in replied)
      BY <2>3, ZenonT(60) DEF CPCs
    <3>3. QED
      BY <3>1, <3>2 DEF SeqGot
  <2>7. TypeOK'
    BY <1>0, <2>1, <2>4, <2>5, <2>6, ZenonT(60) DEF TypeOK
  <2>8. QED
    BY <2>1, <2>6, <2>7, SeqKeep, Zenon
<1>7. CASE UNCHANGED vars
  <2>1. TypeOK' /\ SeqGot'
    BY <1>7 DEF vars, TypeOK, SeqGot
  <2>2. QED
    BY <1>7, <2>1, SeqKeep, Zenon DEF vars
<1>8. QED
  BY <1>1, <1>2, <1>3, <1>4, <1>5, <1>6, <1>7, ZenonT(60) DEF Next, Server, Client

\* As long as the counter fits an int the ranges of any two clients are disjoint,
\* and a client prints only what the server allocated to it.
THEOREM FifoSeqnumCorrect == Spec => [](TypeOK /\ UniqueRanges /\ RepliesAllocated)
<1>1. SeqInv => TypeOK /\ UniqueRanges /\ RepliesAllocated
  BY ZenonT(60) DEF SeqInv, SeqRanges, SeqGot, Below, Apart, UniqueRanges, RepliesAllocated
<1>2. QED
  BY SeqInit, SeqNext, <1>1, PTL DEF Spec

\* The same of the server and its clients run beside the other programs.
LEMMA SeqInRun == FInit /\ [][FNext]_allVars => Spec
<1>1. FInit => Init
  BY DEF FInit
<1>2. [FNext]_allVars => [Next]_vars
  BY DEF FNext, Seqnum, Notify, Initialising, allVars, vars
<1>3. QED
  BY <1>1, <1>2, PTL DEF Spec

\* "The allocation of unique sequential numbers" (fifo_seqnum_server.c:16).
THEOREM SeqUnique == FSpec => []UniqueRanges
  BY FifoSeqnumCorrect, SeqInRun, PTL DEF FSpec

\* The number a client prints was allocated to it and to nobody after it.
THEOREM SeqAllocated == FSpec => []RepliesAllocated
  BY FifoSeqnumCorrect, SeqInRun, PTL DEF FSpec

----------------------------------------------------------------------------
\* The right to register for notification is a token.  In via_signal it is at
\* every moment in one place: in the kernel (registered), in a pending signal,
\* in gotSig, or with the loop between clearing gotSig and registering.
FlagToken == /\ registered \/ pending \/ gotSig = 1 \/ mqPc = "notify"
             /\ registered => ~pending /\ gotSig = 0 /\ mqPc # "notify"
             /\ pending => gotSig = 0 /\ mqPc # "notify"
             /\ gotSig = 1 => mqPc # "notify"

\* The loop clears only a flag that is set, and a message waits behind a
\* registration only while the loop is draining.
FlagOrder == /\ mqPc = "clear" => gotSig = 1
             /\ registered /\ qlen > 0 => mqPc = "drain"

FlagInv == F!TypeOK /\ FlagToken /\ FlagOrder

\* In mq_notify_sig.c and mq_notify_sigwaitinfo.c: before the first registration
\* there is neither a signal nor a missed message; while the program waits or
\* drains, the token is either with the kernel or in the pending signal; a
\* missed message keeps it with the kernel for ever.
Early == {"open", "block", "sigaction", "notify", "failed"}
SuspendToken ==
    /\ mqPc \in Early => ~registered /\ ~pending /\ ~missed /\ received = 0
    /\ mqPc = "renotify" => ~registered /\ ~pending /\ ~missed
    /\ mqPc = "drain" => (registered <=> ~pending) /\ ~missed
    /\ mqPc = "wait" => /\ registered <=> ~pending
                        /\ missed => registered /\ qlen > 0 /\ received = 0
                        /\ registered /\ ~missed => qlen = 0
SuspendInv == S!TypeOK /\ SuspendToken

\* In mq_notify_thread.c and mq_notify_via_thread.c: until main() has registered
\* there are no threads; afterwards the token is with the kernel or with one
\* thread, which is about to register.
ThreadToken ==
    /\ mqPc \in {"open", "notify"} => /\ ~registered /\ ~missed
                                      /\ \A i \in T!ThreadIds : thread[i] = "none"
    /\ mqPc \in {"drain", "pause"} => /\ ~exited
                                      /\ registered \/ \E i \in T!ThreadIds : thread[i] = "notify"
    /\ registered => \A i \in T!ThreadIds : thread[i] # "notify"
    /\ \A i, k \in T!ThreadIds : thread[i] = "notify" /\ thread[k] = "notify" => i = k
    /\ \A i \in T!ThreadIds : i > sent => thread[i] = "none"

\* A message waits behind a registration only while somebody drains.
ThreadDrained == mqPc = "pause" /\ ~missed /\ registered /\ qlen > 0 =>
                     \E i \in T!ThreadIds : thread[i] = "drain"

ThreadInv == T!TypeOK /\ ThreadToken /\ ThreadDrained

\* The program that runs has its invariant.
MqInv == /\ FlagProgram => FlagInv
         /\ SuspendProgram => SuspendInv
         /\ ThreadPrograms => ThreadInv

\* Every step of mq_notify_via_signal.c and of a sender keeps its invariant.
LEMMA FlagNext == ASSUME FlagInv, F!Next PROVE FlagInv'
<1> USE DEF FlagInv, F!TypeOK, F!MqTypeOK, F!PCs, FlagToken, FlagOrder, F!mqVars
<1>1. CASE F!Send
  BY <1>1, SMTT(60) DEF F!Send, F!MqSend, F!SendNotifies
<1>2. CASE F!Handler
  <2>1. ~pending' /\ pending' \in BOOLEAN
    BY <1>2, Zenon DEF F!Handler
  <2>2. QED
    BY <1>2, <2>1, SMTT(60) DEF F!Handler
<1>3. CASE F!Open
  BY <1>3 DEF F!Open
<1>4. CASE F!EstablishHandler
  BY <1>4, SMTT(60) DEF F!EstablishHandler
<1>5. CASE F!Test
  BY <1>5 DEF F!Test
<1>6. CASE F!Clear
  BY <1>6 DEF F!Clear
<1>7. CASE F!Register
  <2>1. registered' /\ registered' \in BOOLEAN
    BY <1>7 DEF F!Register, F!MqNotify
  <2>2. QED
    BY <1>7, <2>1 DEF F!Register, F!MqNotify
<1>8. CASE F!Drain
  BY <1>8, SMTT(60) DEF F!Drain, F!ReceiveOK, F!ReceiveAgain
<1>9. CASE F!Sleep
  BY <1>9, SMTT(60) DEF F!Sleep
<1>10. QED
  BY <1>1, <1>2, <1>3, <1>4, <1>5, <1>6, <1>7, <1>8, <1>9, SMTT(60) DEF F!Next, F!Main

\* Every step of mq_notify_sigwaitinfo.c and of a sender keeps its invariant.
LEMMA SuspendNext == ASSUME SuspendInv, S!Next PROVE SuspendInv'
<1> USE DEF SuspendInv, S!TypeOK, S!MqTypeOK, S!Programs, S!PCs, SuspendToken, Early, S!mqVars
<1>1. CASE S!Send
  BY <1>1, SMTT(60) DEF S!Send, S!MqSend, S!SendNotifies
<1>2. CASE S!Open
  BY <1>2, SMTT(60) DEF S!Open
<1>3. CASE S!BlockSignal
  BY <1>3, SMTT(60) DEF S!BlockSignal
<1>4. CASE S!EstablishHandler
  BY <1>4, SMTT(60) DEF S!EstablishHandler
<1>5. CASE S!Register
  <2>1. /\ mqPc = "notify" /\ mqPc' = "wait" /\ qlen' = qlen /\ received' = received
        /\ UNCHANGED <<sent, mqProgram, pending>> /\ ~pending /\ received = 0
    BY <1>5 DEF S!Register, S!MqNotify
  <2>2. registered' /\ registered' \in BOOLEAN
    BY <1>5 DEF S!Register, S!MqNotify
  <2>3. missed' \in BOOLEAN /\ (missed' <=> qlen > 0)
    <3>1. missed' = (qlen > 0)
      BY <1>5 DEF S!Register
    <3>2. (qlen > 0) \in BOOLEAN
      OBVIOUS
    <3>3. QED
      BY <3>1, <3>2, Zenon
  <2>4. QED
    BY <2>1, <2>2, <2>3, SMTT(60)
<1>6. CASE S!Wait
  <2>1. ~pending' /\ pending' \in BOOLEAN
    BY <1>6, Zenon DEF S!Wait
  <2>2. QED
    BY <1>6, <2>1, SMTT(60) DEF S!Wait
<1>7. CASE S!Reregister
  <2>1. registered' /\ registered' \in BOOLEAN
    BY <1>7 DEF S!Reregister, S!MqNotify
  <2>2. QED
    BY <1>7, <2>1, SMTT(60) DEF S!Reregister, S!MqNotify
<1>8. CASE S!Drain
  BY <1>8, SMTT(60) DEF S!Drain, S!ReceiveOK, S!ReceiveAgain
<1>9. QED
  BY <1>1, <1>2, <1>3, <1>4, <1>5, <1>6, <1>7, <1>8, SMTT(60) DEF S!Next, S!Main

\* Every step of the programs notified through a thread keeps their invariant.
LEMMA ThreadNext == ASSUME ThreadInv, T!Next PROVE ThreadInv'
<1> USE MqAssumption DEF ThreadInv, T!TypeOK, T!MqTypeOK, T!Programs, T!ThreadIds, ThreadToken,
        ThreadDrained, T!mqVars
<1>1. CASE T!Send
  <2>1. CASE T!SendNotifies
    <3>1. /\ registered /\ qlen = 0 /\ qlen' = 1 /\ sent' = sent + 1 /\ sent' \in T!ThreadIds
          /\ thread' = [thread EXCEPT ![sent'] = "notify"]
          /\ UNCHANGED <<received, mqProgram, mqPc, missed, exited>>
      BY <1>1, <2>1, SMTT(60) DEF T!Send, T!MqSend, T!SendNotifies
    <3>2. ~registered' /\ registered' \in BOOLEAN
      BY <1>1, <2>1, SMTT(60) DEF T!Send
    <3>3. QED
      BY <3>1, <3>2, SMTT(60)
  <2>2. CASE ~T!SendNotifies
    <3>1. /\ qlen' = qlen + 1 /\ sent' = sent + 1
          /\ UNCHANGED <<thread, received, mqProgram, mqPc, missed, exited>>
      BY <1>1, <2>2, SMTT(60) DEF T!Send, T!MqSend
    <3>2. registered' = registered /\ (registered => qlen > 0)
      BY <1>1, <2>2, SMTT(60) DEF T!Send, T!SendNotifies
    <3>3. QED
      BY <3>1, <3>2, SMTT(60)
  <2>3. QED
    BY <2>1, <2>2, SMTT(60)
<1>2. CASE T!Open
  <2>1. CASE mqPc' = "notify" /\ UNCHANGED exited
    BY <1>2, <2>1, SMTT(60) DEF T!Open
  <2>2. CASE exited' = TRUE /\ UNCHANGED mqPc
    <3>1. exited' \in BOOLEAN /\ mqPc' = "open"
      BY <1>2, <2>2, SMTT(60) DEF T!Open
    <3>2. QED
      BY <1>2, <3>1, SMTT(60) DEF T!Open
  <2>3. QED
    BY <1>2, <2>1, <2>2, Zenon DEF T!Open
<1>3. CASE T!MainNotify
  <2>1. registered' /\ registered' \in BOOLEAN /\ ~exited' /\ exited' \in BOOLEAN
    BY <1>3 DEF T!MainNotify, T!notifySetup, T!MqNotify
  <2>2. /\ mqPc = "notify" /\ mqPc' \in {"drain", "pause"}
        /\ mqPc' = "pause" => mqProgram = "mq_notify_thread"
        /\ UNCHANGED <<qlen, sent, received, mqProgram, thread>>
    BY <1>3, SMTT(60) DEF T!MainNotify, T!notifySetup, T!MqNotify
  <2>3. missed' \in BOOLEAN /\ (mqPc' = "pause" /\ qlen > 0 => missed')
    BY <1>3, <2>2, Zenon DEF T!MainNotify
  <2>4. QED
    BY <2>1, <2>2, <2>3, SMTT(60)
<1>4. CASE T!MainDrain
  BY <1>4, SMTT(60) DEF T!MainDrain, T!ReceiveOK, T!ReceiveAgain
<1>5. ASSUME NEW i \in T!ThreadIds, T!ThreadNotify(i) PROVE ThreadInv'
  <2>1. registered' /\ registered' \in BOOLEAN /\ ~exited' /\ exited' \in BOOLEAN
    BY <1>5, SMTT(60) DEF T!ThreadNotify, T!notifySetup, T!MqNotify
  <2>2. /\ thread[i] = "notify" /\ thread' = [thread EXCEPT ![i] = "drain"]
        /\ UNCHANGED <<qlen, sent, received, mqProgram, mqPc, missed>>
    BY <1>5, SMTT(60) DEF T!ThreadNotify, T!notifySetup, T!MqNotify
  <2>3. QED
    BY <2>1, <2>2, SMTT(60)
<1>6. ASSUME NEW i \in T!ThreadIds, T!ThreadDrain(i) PROVE ThreadInv'
  BY <1>6, SMTT(60) DEF T!ThreadDrain, T!ReceiveOK, T!ReceiveAgain
<1>7. QED
  BY <1>1, <1>2, <1>3, <1>4, <1>5, <1>6, SMTT(60) DEF T!Next, T!Main, T!Thread

\* The three families of programs are disjoint.
LEMMA OneProgram == /\ FlagProgram => ~SuspendProgram /\ ~ThreadPrograms
                    /\ SuspendProgram => ~FlagProgram /\ ~ThreadPrograms
                    /\ ThreadPrograms => ~FlagProgram /\ ~SuspendProgram
  BY DEF FlagProgram, SuspendProgram, ThreadPrograms, S!Programs, T!Programs

\* Whichever of the six programs runs, the queue is empty and nothing is registered.
LEMMA MqInitInv == FInit => MqInv
<1> SUFFICES ASSUME NotifyInit PROVE MqInv
  BY DEF FInit
<1>1. CASE FlagProgram /\ F!Init
  <2>1. registered = FALSE /\ registered \in BOOLEAN /\ pending = FALSE /\ pending \in BOOLEAN
    BY <1>1, Zenon DEF F!Init, F!MqInit
  <2>2. F!TypeOK
    BY <1>1, <2>1 DEF F!Init, F!MqInit, F!TypeOK, F!MqTypeOK, F!PCs
  <2>3. FlagInv
    BY <1>1, <2>1, <2>2 DEF F!Init, F!MqInit, FlagInv, FlagToken, FlagOrder
  <2>4. QED
    BY <1>1, <2>3, OneProgram DEF MqInv
<1>2. CASE S!Init
  <2>1. /\ registered = FALSE /\ registered \in BOOLEAN /\ pending = FALSE /\ pending \in BOOLEAN
        /\ missed = FALSE /\ missed \in BOOLEAN
    BY <1>2, Zenon DEF S!Init, S!MqInit
  <2>2. S!TypeOK /\ SuspendProgram
    BY <1>2, <2>1, SMTT(60) DEF S!Init, S!MqInit, S!TypeOK, S!MqTypeOK, S!PCs, SuspendProgram
  <2>3. SuspendInv
    BY <1>2, <2>1, <2>2, SMTT(60) DEF S!Init, S!MqInit, SuspendInv, SuspendToken, Early
  <2>4. QED
    BY <2>2, <2>3, OneProgram DEF MqInv
<1>3. CASE T!Init
  <2>1. /\ registered = FALSE /\ registered \in BOOLEAN /\ exited = FALSE /\ exited \in BOOLEAN
        /\ missed = FALSE /\ missed \in BOOLEAN
    BY <1>3, Zenon DEF T!Init, T!MqInit
  <2>2. T!TypeOK /\ ThreadPrograms
    BY <1>3, <2>1 DEF T!Init, T!MqInit, T!TypeOK, T!MqTypeOK, ThreadPrograms
  <2>3. ThreadInv
    BY <1>3, <2>1, <2>2, SMTT(60) DEF T!Init, T!MqInit, ThreadInv, ThreadToken, ThreadDrained
  <2>4. QED
    BY <2>2, <2>3, OneProgram DEF MqInv
<1>4. QED
  BY <1>1, <1>2, <1>3 DEF NotifyInit

\* A step is one of the program that runs, or leaves the queue's variables alone.
LEMMA MqNextInv == MqInv /\ [FNext]_allVars => MqInv'
<1> SUFFICES ASSUME MqInv, [FNext]_allVars PROVE MqInv'
  OBVIOUS
<1>1. CASE UNCHANGED mqAll
  BY <1>1, SMTT(60) DEF mqAll, MqInv, FlagProgram, SuspendProgram, ThreadPrograms,
     FlagInv, FlagToken, FlagOrder, F!TypeOK, F!MqTypeOK, SuspendInv, SuspendToken, S!TypeOK, S!MqTypeOK,
     ThreadInv, ThreadToken, ThreadDrained, T!TypeOK, T!MqTypeOK
<1>2. CASE NotifyNext
  <2>1. CASE FlagMain \/ FlagHandler \/ FlagSend
    <3>1. FlagProgram /\ F!Next /\ mqProgram' = mqProgram
      BY <2>1, SMTT(60) DEF FlagMain, FlagHandler, FlagSend, F!Next
    <3>2. FlagInv'
      BY <3>1, FlagNext, SMTT(60) DEF MqInv
    <3>3. QED
      BY <3>1, <3>2, SMTT(60) DEF MqInv, FlagProgram, SuspendProgram, ThreadPrograms, S!Programs, T!Programs
  <2>2. CASE SuspendMain \/ SuspendSend
    <3>1. SuspendProgram /\ S!Next
      BY <2>2, SMTT(60) DEF SuspendMain, SuspendSend, S!Next
    <3>2. SuspendInv'
      BY <3>1, SuspendNext, SMTT(60) DEF MqInv
    <3>3. QED
      BY <3>2, SMTT(60) DEF MqInv, FlagProgram, SuspendProgram, ThreadPrograms, S!Programs, T!Programs,
         SuspendInv, S!TypeOK
  <2>3. CASE ThreadsMain \/ ThreadsSend \/ \E i \in T!ThreadIds : ThreadsThread(i)
    <3>1. ThreadPrograms /\ T!Next
      BY <2>3, SMTT(60) DEF ThreadsMain, ThreadsSend, ThreadsThread, T!Next
    <3>2. ThreadInv'
      BY <3>1, ThreadNext, SMTT(60) DEF MqInv
    <3>3. QED
      BY <3>2, SMTT(60) DEF MqInv, FlagProgram, SuspendProgram, ThreadPrograms, S!Programs, T!Programs,
         ThreadInv, T!TypeOK
  <2>4. QED
    BY <1>2, <2>1, <2>2, <2>3 DEF NotifyNext
<1>3. QED
  BY <1>1, <1>2, SMTT(60) DEF FNext, Seqnum, Notify, Initialising, allVars

\* pmsg/mq_notify*.c, all six programs with any queue and any senders:
\* mq_notify() never finds a registration in force, no message is stranded on
\* the queue of a waiting program, and a message missed at the first
\* registration is missed for ever.
THEOREM MqNotifyCorrect == FSpec => []Notified
<1>1. MqInv => Notified
  <2> SUFFICES ASSUME MqInv PROVE Notified
    OBVIOUS
  <2>1. FlagProgram => F!TypeOK /\ F!NeverBusy /\ F!NoStranded
    BY SMTT(60) DEF MqInv, FlagInv, F!TypeOK, F!MqTypeOK, F!PCs, FlagToken, FlagOrder, F!NeverBusy, F!NoStranded
  <2>2. SuspendProgram => S!TypeOK /\ S!NeverBusy /\ S!NoStranded /\ S!MissedIsForever
    BY SMTT(60) DEF MqInv, SuspendInv, S!TypeOK, S!MqTypeOK, S!PCs, SuspendToken, Early, S!NeverBusy,
       S!NoStranded, S!MissedIsForever
  <2>3. ThreadPrograms => T!TypeOK /\ T!NeverBusy /\ T!NoStranded
    BY SMTT(60) DEF MqInv, ThreadInv, T!TypeOK, T!MqTypeOK, ThreadToken, ThreadDrained, T!NeverBusy,
       T!NoStranded, T!Active
  <2>4. QED
    BY <2>1, <2>2, <2>3, SMTT(60) DEF Notified, NotifyTypeOK, NeverBusy, NoStranded, MissedIsForever
<1>2. QED
  BY MqInitInv, MqNextInv, <1>1, PTL DEF FSpec

----------------------------------------------------------------------------
\* svsem_good_init.c: only the creator initialises, and nobody performs an
\* operation before sem_otime says that it has finished.
SemInv == /\ siPc \in [Procs -> Si!PCs]
          /\ \A p \in Procs : siPc[p] \in {"setval", "dummy"} => creator = p /\ ~otime
          /\ \A p \in Procs : siPc[p] = "semop" => otime
          /\ otime => creator # None
          /\ ~otime => total = 0
          /\ semval = total

\* A step of any process, its death included, keeps the invariant.
LEMMA SemNext == SemInv /\ [Si!Next]_siVars => SemInv'
<1> SUFFICES ASSUME SemInv, [Si!Next]_siVars PROVE SemInv'
  OBVIOUS
<1> USE ProcsAssumption DEF SemInv, Si!PCs, Si!Go, Si!set
<1>1. CASE UNCHANGED siVars
  BY <1>1, SMTT(60) DEF siVars
<1>2. ASSUME NEW p \in Procs, Si!Semget(p) PROVE SemInv'
  BY <1>2, SMTT(60) DEF Si!Semget
<1>3. ASSUME NEW p \in Procs, Si!Setval(p) PROVE SemInv'
  BY <1>3, SMTT(60) DEF Si!Setval
<1>4. ASSUME NEW p \in Procs, Si!Dummy(p) PROVE SemInv'
  BY <1>4, Zenon DEF Si!Dummy
<1>5. ASSUME NEW p \in Procs, Si!Semget2(p) PROVE SemInv'
  BY <1>5, SMTT(60) DEF Si!Semget2
<1>6. ASSUME NEW p \in Procs, Si!Stat(p) PROVE SemInv'
  BY <1>6, SMTT(60) DEF Si!Stat
<1>7. ASSUME NEW p \in Procs, Si!Semop(p) PROVE SemInv'
  BY <1>7, SMTT(60) DEF Si!Semop
<1>8. ASSUME NEW p \in Procs, Si!Die(p) PROVE SemInv'
  BY <1>8, SMTT(60) DEF Si!Die
<1>9. QED
  BY <1>1, <1>2, <1>3, <1>4, <1>5, <1>6, <1>7, <1>8 DEF Si!Next, Si!Step

\* However many processes start at once, whatever operations they perform and
\* whichever of them die, no operation is lost to the initialisation: it
\* "avoids race conditions" (svsem_good_init.c:15-16).
THEOREM SemInitCorrect == FSpec => []NothingLost
<1>1. FInit => SemInv
  BY SMTT(60) DEF FInit, Si!Init, SemInv, Si!PCs
<1>2. SemInv /\ [FNext]_allVars => SemInv'
  BY SemNext, SMTT(60) DEF FNext, Seqnum, Notify, Initialising, allVars, siVars
<1>3. SemInv => NothingLost
  BY SMTT(60) DEF SemInv, NothingLost, Si!NothingLost
<1>4. QED
  BY <1>1, <1>2, <1>3, PTL DEF FSpec
=============================================================================
