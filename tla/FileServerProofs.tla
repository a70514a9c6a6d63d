-------------------------- MODULE FileServerProofs --------------------------
(***************************************************************************)
(* svmsg_file_server.c and its clients: proved for any clients and files,  *)
(* any size of the queues and any number of faults.                        *)
(***************************************************************************)
EXTENDS FileServer, TLAPS

----------------------------------------------------------------------------
\* svmsg_file_server.c.
KidPCs == {"none", "open", "read", "data", "end", "failure", "exited"}
ClPCs == {"start", "send", "first", "more", "done", "refused", "failed", "killed"}
Message == [mtype : {1, 2, 3}, block : Nat]

FsType ==
    /\ sv = [pc |-> sv.pc, req |-> sv.req, there |-> sv.there]
    /\ sv.pc = "fork" => sv.req \in FsClients
    /\ requests \in Seq(FsClients)
    /\ kid \in [FsClients -> [pc : KidPCs, next : Nat]]
    /\ cl \in [FsClients -> [pc : ClPCs, got : Seq(Nat), q : {"none", "there", "removed"}]]
    /\ queue \in [FsClients -> Seq(Message)]
    /\ faults \in Nat

\* A request is in one place: on its way, with the server, or with a child.
Queued(c) == \E i \in 1..Len(requests) : requests[i] = c
Taken(c) == sv.pc = "fork" /\ sv.req = c
OnePlace ==
    /\ \A i, j \in 1..Len(requests) : requests[i] = requests[j] => i = j
    /\ \A c \in FsClients :
          /\ kid[c].pc # "none" => ~Queued(c) /\ ~Taken(c)
          /\ Taken(c) => ~Queued(c)
          /\ cl[c].pc \in {"start", "send"} => ~Queued(c) /\ ~Taken(c) /\ kid[c].pc = "none"
          /\ cl[c].pc \in {"first", "more"} =>
                Queued(c) \/ Taken(c) \/ kid[c].pc # "none" \/ sv.pc \in {"rmid", "exited"}

\* The client's queue exists from Connect to the end, and a killed client's stays.
QueueThere ==
    \A c \in FsClients : /\ cl[c].pc \in {"send", "first", "more", "killed"} => cl[c].q = "there"
                         /\ cl[c].pc = "start" => cl[c].q = "none"
                         /\ cl[c].pc \in {"done", "refused", "failed"} => cl[c].q # "there"
                         /\ cl[c].q # "there" => queue[c] = <<>>

\* What a child sends: the blocks before next, and the last message when it has exited.
Exited(c) == kid[c].pc = "exited"
LastMessage(c) == IF Opens(c) THEN END ELSE FAILURE
InFlight(c) ==
    /\ kid[c].next >= 1
    /\ kid[c].pc = "none" => kid[c].next = 1
    /\ kid[c].pc \in {"read", "data", "end"} => Opens(c)
    /\ kid[c].pc = "failure" => ~Opens(c)
    /\ Opens(c) => kid[c].next <= Len(Blocks[c]) + 1
    /\ kid[c].pc = "data" => kid[c].next <= Len(Blocks[c])
    /\ ~Opens(c) => kid[c].next = 1
    /\ cl[c].q = "there" =>
          /\ Len(cl[c].got) + Len(queue[c]) = kid[c].next - (IF Exited(c) THEN 0 ELSE 1)
          /\ \A i \in 1..Len(queue[c]) :
                queue[c][i] = IF Exited(c) /\ i = Len(queue[c]) THEN LastMessage(c)
                              ELSE DATA(Blocks[c][Len(cl[c].got) + i])
          /\ Exited(c) => queue[c] # <<>>
          /\ kid[c].pc = "end" \/ (Exited(c) /\ Opens(c)) =>
                (faults = 0 => kid[c].next = Len(Blocks[c]) + 1)

\* What a client has received.
Received(c) ==
    /\ Opens(c) => /\ Len(cl[c].got) <= Len(Blocks[c])
                      /\ \A i \in 1..Len(cl[c].got) : cl[c].got[i] = Blocks[c][i]
    /\ ~Opens(c) => cl[c].got = <<>>
    /\ cl[c].pc = "more" => cl[c].got # <<>>
    /\ cl[c].pc \in {"start", "send"} => cl[c].got = <<>>
    /\ cl[c].pc = "done" => Opens(c) /\ (faults = 0 => Len(cl[c].got) = Len(Blocks[c]))
    /\ cl[c].pc = "refused" => ~Opens(c)

FsInv == /\ FsType /\ OnePlace /\ QueueThere
         /\ \A c \in FsClients : InFlight(c) /\ Received(c)
         /\ zombies.dead # {} => zombies.pending

\* Two sequences of one length with the same elements are equal.
LEMMA SameElements == ASSUME NEW S, NEW s \in Seq(S), NEW t \in Seq(S), Len(s) = Len(t),
                             \A i \in 1..Len(s) : s[i] = t[i]
                      PROVE  s = t
  BY SMTT(60)

\* A block appended to blocks.
LEMMA Appended == ASSUME NEW S, NEW q \in Seq(S), NEW x \in S PROVE Append(q, x) \in Seq(S)
  BY SMTT(60)

\* Before the server and the clients start nothing is queued.
LEMMA FsInitInv == Init => FsInv
<1> SUFFICES ASSUME Init PROVE FsInv
  OBVIOUS
<1>0. PICK stale \in BOOLEAN : sv = [pc |-> "start", req |-> 0, there |-> stale]
  BY DEF Init
<1>1. /\ sv.pc = "start" /\ sv = [pc |-> sv.pc, req |-> sv.req, there |-> sv.there]
      /\ requests = <<>>
      /\ kid = [c \in FsClients |-> [pc |-> "none", next |-> 1]]
      /\ cl = [c \in FsClients |-> [pc |-> "start", got |-> <<>>, q |-> "none"]]
      /\ queue = [c \in FsClients |-> <<>>] /\ faults = 0
      /\ zombies = [dead |-> {}, pending |-> FALSE]
  BY <1>0, Zenon DEF Init
<1>2. FsType
  BY <1>1 DEF FsType, KidPCs, ClPCs, Message
<1>3. OnePlace /\ QueueThere
  BY <1>1 DEF OnePlace, QueueThere, Queued, Taken
<1>4. ASSUME NEW c \in FsClients PROVE InFlight(c) /\ Received(c)
  BY <1>1, BlocksAssumption, SMTT(60) DEF InFlight, Received, Exited, Opens
<1>5. QED
  BY <1>1, <1>2, <1>3, <1>4, SMTT(60) DEF FsInv

\* A client whose child, place and queue a step leaves alone keeps its part; a
\* failing read() or fork() only weakens what is said of it.
LEMMA FsKeep == ASSUME NEW d \in FsClients, InFlight(d), Received(d), kid'[d] = kid[d], cl'[d] = cl[d],
                       queue'[d] = queue[d], faults \in Nat, faults' = faults \/ faults' = faults + 1
                PROVE InFlight(d)' /\ Received(d)'
<1>1. faults' = 0 => faults = 0
  OBVIOUS
<1>2. Received(d)'
  BY <1>1, Zenon DEF Received, Opens
<1>3. InFlight(d)'
  BY <1>1, ZenonT(60) DEF InFlight, Exited, LastMessage, Opens
<1>4. QED
  BY <1>2, <1>3

\* Requests stay where they are.
LEMMA FsStay == ASSUME OnePlace, requests' = requests, sv' = sv,
                       \A d \in FsClients :
                          /\ kid'[d].pc = "none" <=> kid[d].pc = "none"
                          /\ cl'[d].pc \in {"start", "send"} => cl[d].pc \in {"start", "send"}
                          /\ cl'[d].pc \in {"first", "more"} => cl[d].pc \in {"first", "more"}
                PROVE OnePlace'
  BY SMTT(60) DEF OnePlace, Queued, Taken

\* The steps of the server.
LEMMA FsServerNext ==
    ASSUME FsInv, Msgget \/ MsggetFails \/ Msgrcv \/ MsgrcvFails \/ Fork \/ Rmid \/ grimReaper PROVE FsInv'
<1> USE DEF FsInv
<1>1. CASE Msgget
  <2>1. FsType'
    BY <1>1, Zenon DEF Msgget, FsType
  <2>2. OnePlace' /\ QueueThere'
    BY <1>1 DEF Msgget, OnePlace, Queued, Taken, QueueThere, FsType
  <2>3. QED
    BY <1>1, <2>1, <2>2, FsKeep, SMTT(60) DEF Msgget, FsType
<1>2. CASE Msgrcv
  <2>1. /\ requests # <<>> /\ sv.pc = "msgrcv"
        /\ requests' = Tail(requests) /\ sv'.pc = "fork" /\ sv'.req = requests[1]
        /\ sv' = [sv EXCEPT !.pc = "fork", !.req = requests[1]]
    BY <1>2 DEF Msgrcv, FsType
  <2>2. /\ requests[1] \in FsClients /\ Len(requests) \in Nat \ {0} /\ requests' \in Seq(FsClients)
        /\ Len(requests') = Len(requests) - 1
        /\ \A i \in 1..Len(requests') : i + 1 \in 1..Len(requests) /\ requests'[i] = requests[i + 1]
    <3>1. requests \in Seq(FsClients)
      BY DEF FsType
    <3>2. QED
      BY <2>1, <3>1
  <2>3. FsType'
    BY <1>2, <2>1, <2>2, Zenon DEF Msgrcv, FsType
  <2>4. ASSUME NEW c \in FsClients PROVE Queued(c) <=> Queued(c)' \/ c = requests[1]
    <3>1. ASSUME NEW i \in 1..Len(requests), requests[i] = c, i # 1 PROVE Queued(c)'
      <4>1. i - 1 \in 1..Len(requests') /\ requests'[i - 1] = c
        BY <3>1, <2>2
      <4>2. QED
        BY <4>1 DEF Queued
    <3>2. Queued(c)' => Queued(c)
      BY <2>2, SMTT(60) DEF Queued
    <3>3. c = requests[1] => Queued(c)
      BY <2>2 DEF Queued
    <3>4. QED
      BY <3>1, <3>2, <3>3, Zenon DEF Queued
  <2>5. ASSUME NEW c \in FsClients PROVE c = requests[1] => ~Queued(c)'
    BY <2>2, SMTT(60) DEF Queued, OnePlace
  <2>6. ASSUME NEW i \in 1..Len(requests'), NEW j \in 1..Len(requests'), requests'[i] = requests'[j] PROVE i = j
    BY <2>2, <2>6, SMTT(60) DEF OnePlace
  <2>7. OnePlace'
    BY <1>2, <2>1, <2>2, <2>4, <2>5, <2>6, SMTT(60) DEF OnePlace, Taken, Msgrcv
  <2>8. QED
    BY <1>2, <2>3, <2>7, FsKeep, SMTT(60) DEF Msgrcv, FsType, QueueThere
<1>3. CASE Fork
  <2>1. PICK c \in FsClients : c = sv.req /\ kid[c].pc = "none" /\ ~Queued(c) /\ sv.pc = "fork"
    BY <1>3, SMTT(60) DEF Fork, FsType, OnePlace, Taken
  <2>2. CASE kid' = [kid EXCEPT ![c].pc = "open"] /\ sv' = [sv EXCEPT !.pc = "msgrcv"] /\ UNCHANGED faults
    <3>1. /\ sv'.pc = "msgrcv" /\ kid'[c].pc = "open" /\ kid'[c].next = kid[c].next
          /\ \A d \in FsClients : d # c => kid'[d] = kid[d]
      BY <2>1, <2>2 DEF FsType
    <3>2. FsType'
      <4>1. sv' = [pc |-> sv'.pc, req |-> sv'.req, there |-> sv'.there]
        BY <2>2, Zenon DEF FsType
      <4>2. kid' \in [FsClients -> [pc : KidPCs, next : Nat]]
        <5>1. kid \in [FsClients -> [pc : KidPCs, next : Nat]] /\ "open" \in KidPCs
          BY DEF FsType, KidPCs
        <5>2. QED
          BY <2>2, <5>1
      <4>3. QED
        BY <1>3, <2>2, <3>1, <4>1, <4>2, SMTT(60) DEF Fork, FsType
    <3>3. OnePlace'
      BY <1>3, <2>1, <3>1, SMTT(60) DEF Fork, OnePlace, Queued, Taken
    <3>4. InFlight(c)' /\ Received(c)'
      <4>1. InFlight(c) /\ Received(c) /\ UNCHANGED <<cl, queue, faults>>
        BY <1>3, <2>1, <2>2 DEF Fork
      <4>2. Received(c)'
        BY <4>1, Zenon DEF Received, Opens
      <4>3. InFlight(c)'
        BY <2>1, <3>1, <4>1, ZenonT(60) DEF InFlight, Exited, LastMessage
      <4>4. QED
        BY <4>2, <4>3
    <3>5. QED
      BY <1>3, <2>2, <3>1, <3>2, <3>3, <3>4, FsKeep, SMTT(60) DEF Fork, QueueThere, FsType
  <2>3. CASE faults' = faults + 1 /\ sv' = [sv EXCEPT !.pc = "rmid"] /\ UNCHANGED kid
    <3>1. FsType'
      <4>1. sv'.pc = "rmid" /\ sv' = [pc |-> sv'.pc, req |-> sv'.req, there |-> sv'.there]
        BY <2>3, Zenon DEF FsType
      <4>2. QED
        BY <1>3, <2>3, <4>1, SMTT(60) DEF Fork, FsType
    <3>2. OnePlace' /\ QueueThere'
      BY <1>3, <2>3, SMTT(60) DEF Fork, OnePlace, Queued, Taken, QueueThere, FsType
    <3>3. QED
      BY <1>3, <2>3, <3>1, <3>2, FsKeep, SMTT(60) DEF Fork, FsType
  <2>4. QED
    BY <1>3, <2>1, <2>2, <2>3 DEF Fork
<1>4. CASE Rmid
  <2>1. FsType'
    <3>1. /\ sv'.pc = "exited" /\ sv' = [pc |-> sv'.pc, req |-> sv'.req, there |-> sv'.there]
          /\ requests' = <<>>
      BY <1>4, Zenon DEF FsType, Rmid
    <3>2. QED
      BY <1>4, <3>1 DEF Rmid, FsType
  <2>2. OnePlace' /\ QueueThere'
    BY <1>4, SMTT(60) DEF Rmid, OnePlace, Queued, Taken, QueueThere, FsType
  <2>3. QED
    BY <1>4, <2>1, <2>2, FsKeep DEF Rmid, FsType
<1>5. CASE grimReaper
  <2>1. FsType'
    BY <1>5, SMTT(60) DEF grimReaper, FsType
  <2>2. OnePlace' /\ QueueThere'
    BY <1>5, FsStay, SMTT(60) DEF grimReaper, QueueThere
  <2>3. QED
    BY <1>5, <2>1, <2>2, FsKeep, SMTT(60) DEF grimReaper, FsType
<1>6. CASE MsggetFails \/ MsgrcvFails
  <2>1. /\ sv.pc # "fork" /\ UNCHANGED <<requests, kid, cl, queue, zombies>>
        /\ faults' = faults \/ faults' = faults + 1
        /\ sv' = [sv EXCEPT !.pc = "exited"] \/ sv' = [sv EXCEPT !.pc = "rmid"]
    BY <1>6, Zenon DEF MsggetFails, MsgrcvFails
  <2>2. /\ sv'.pc \in {"rmid", "exited"}
        /\ sv' = [pc |-> sv'.pc, req |-> sv'.req, there |-> sv'.there]
    BY <2>1, Zenon DEF FsType
  <2>3. FsType'
    BY <2>1, <2>2, SMTT(60) DEF FsType
  <2>4. OnePlace' /\ QueueThere'
    BY <2>1, <2>2, SMTT(60) DEF OnePlace, Queued, Taken, QueueThere
  <2>5. QED
    BY <2>1, <2>3, <2>4, FsKeep, SMTT(60) DEF FsType
<1>7. QED
  BY <1>1, <1>2, <1>3, <1>4, <1>5, <1>6, Zenon

\* A child changes nothing but its own place, its client's queue and the counts.
LEMMA FsChild ==
    ASSUME FsInv, NEW c \in FsClients, kid[c].pc # "none", UNCHANGED <<sv, requests, cl>>,
           kid' \in [FsClients -> [pc : KidPCs, next : Nat]], kid'[c].pc # "none",
           queue' \in [FsClients -> Seq(Message)], cl[c].q # "there" => queue'[c] = <<>>,
           \A d \in FsClients : d # c => kid'[d] = kid[d] /\ queue'[d] = queue[d],
           InFlight(c)' /\ Received(c)', faults' = faults \/ faults' = faults + 1,
           zombies' = zombies \/ zombies'.pending
    PROVE  FsInv'
<1> USE DEF FsInv
<1>1. faults \in Nat
  BY DEF FsType
<1>2. FsType'
  BY SMTT(60) DEF FsType
<1>3. OnePlace'
  BY FsStay, SMTT(60)
<1>4. QueueThere'
  BY SMTT(60) DEF QueueThere
<1>5. ASSUME NEW d \in FsClients, d # c PROVE InFlight(d)' /\ Received(d)'
  BY <1>1, <1>5, FsKeep
<1>6. QED
  BY <1>2, <1>3, <1>4, <1>5

\* A message at the end of the queue.
LEMMA FsAppend ==
    ASSUME NEW c \in FsClients, NEW m \in Message, queue \in [FsClients -> Seq(Message)],
           queue' = [queue EXCEPT ![c] = Append(@, m)]
    PROVE  /\ queue' \in [FsClients -> Seq(Message)]
           /\ \A d \in FsClients : d # c => queue'[d] = queue[d]
           /\ Len(queue[c]) \in Nat /\ Len(queue'[c]) = Len(queue[c]) + 1
           /\ queue'[c][Len(queue[c]) + 1] = m /\ queue'[c] # <<>>
           /\ \A i \in 1..Len(queue[c]) : queue'[c][i] = queue[c][i]
<1>1. queue[c] \in Seq(Message) /\ queue'[c] = Append(queue[c], m)
  OBVIOUS
<1>2. QED
  BY <1>1, SMTT(60)

\* serveRequest().
LEMMA FsChildNext ==
    ASSUME FsInv, NEW c \in FsClients, Open(c) \/ Read(c) \/ SendData(c) \/ SendLast(c) PROVE FsInv'
<1>1. kid \in [FsClients -> [pc : KidPCs, next : Nat]] /\ queue \in [FsClients -> Seq(Message)] /\ faults \in Nat
  BY SMTT(60) DEF FsInv, FsType
<1>2. InFlight(c) /\ Received(c) /\ (cl[c].q # "there" => queue[c] = <<>>)
  BY SMTT(60) DEF FsInv, QueueThere
<1>3. Opens(c) => Blocks[c] \in Seq(Nat)
  BY BlocksAssumption DEF Opens
<1>4. PICK g \in Nat, l \in Nat, n \in Nat : g = Len(cl[c].got) /\ l = Len(queue[c]) /\ n = kid[c].next
  <2>1. cl[c].got \in Seq(Nat) /\ queue[c] \in Seq(Message) /\ kid[c].next \in Nat
    BY SMTT(60) DEF FsInv, FsType
  <2>2. QED
    BY <2>1, SMTT(60)
<1>5. CASE Open(c)
  <2>1. /\ kid[c].pc = "open" /\ UNCHANGED <<cl, queue, faults, sv, requests, zombies>>
        /\ kid' = [kid EXCEPT ![c].pc = IF Opens(c) THEN "read" ELSE "failure"]
    BY <1>5 DEF Open
  <2>2. /\ kid' \in [FsClients -> [pc : KidPCs, next : Nat]] /\ kid'[c].next = kid[c].next
        /\ kid'[c].pc = IF Opens(c) THEN "read" ELSE "failure"
        /\ \A d \in FsClients : d # c => kid'[d] = kid[d]
    BY <1>1, <2>1, Zenon DEF KidPCs
  <2>3. Received(c)'
    BY <1>2, <2>1, Zenon DEF Received, Opens
  <2>4. InFlight(c)'
    BY <1>2, <2>1, <2>2, ZenonT(60) DEF InFlight, Exited, LastMessage, Opens
  <2>5. QED
    BY <1>1, <1>2, <2>1, <2>2, <2>3, <2>4, FsChild, ZenonT(60)
<1>6. CASE Read(c)
  <2>1. PICK p \in {"data", "end"} :
            /\ kid' = [kid EXCEPT ![c].pc = p]
            /\ \/ UNCHANGED faults /\ (p = "data" <=> kid[c].next <= Len(Blocks[c]))
               \/ faults' = faults + 1 /\ p = "end"
    BY <1>1, <1>6, SMTT(60) DEF Read
  <2>2. kid[c].pc = "read" /\ UNCHANGED <<cl, queue, sv, requests, zombies>> /\ (faults' = 0 => faults = 0)
    BY <1>1, <1>6, <2>1 DEF Read
  <2>3. /\ kid' \in [FsClients -> [pc : KidPCs, next : Nat]] /\ kid'[c].next = kid[c].next /\ kid'[c].pc = p
        /\ \A d \in FsClients : d # c => kid'[d] = kid[d]
    BY <1>1, <2>1, SMTT(60) DEF KidPCs
  <2>4. Received(c)'
    BY <1>2, <2>2, Zenon DEF Received, Opens
  <2>5. InFlight(c)'
    BY <1>1, <1>2, <1>3, <1>4, <2>1, <2>2, <2>3, SMTT(60) DEF InFlight, Exited, LastMessage, Opens
  <2>6. QED
    BY <1>1, <1>2, <2>1, <2>2, <2>3, <2>4, <2>5, FsChild, Zenon
<1>7. CASE SendData(c)
  <2>1. kid[c].pc = "data" /\ UNCHANGED <<cl, faults, sv, requests, zombies>>
    BY <1>7, SMTT(60) DEF SendData
  <2>2. Received(c)'
    BY <1>2, <2>1, Zenon DEF Received, Opens
  <2>3. CASE /\ CanSend(c) /\ queue' = [queue EXCEPT ![c] = Append(@, DATA(Blocks[c][kid[c].next]))]
             /\ kid' = [kid EXCEPT ![c] = [pc |-> "read", next |-> @.next + 1]]
    <3>1. PICK m \in Message : m = DATA(Blocks[c][n])
      <4>1. Opens(c) /\ n \in 1..Len(Blocks[c])
        BY <1>2, <1>3, <1>4, <2>1, SMTT(60) DEF InFlight
      <4>2. Blocks[c][n] \in Nat
        BY <1>3, <4>1, SMTT(60)
      <4>3. QED
        BY <4>2, Zenon DEF DATA, Message
    <3>2. cl[c].q = "there" /\ Opens(c) /\ n <= Len(Blocks[c])
      BY <1>2, <1>4, <2>1, <2>3, SMTT(60) DEF InFlight, CanSend
    <3>3. /\ kid' \in [FsClients -> [pc : KidPCs, next : Nat]] /\ kid'[c].next = n + 1 /\ kid'[c].pc = "read"
          /\ \A d \in FsClients : d # c => kid'[d] = kid[d]
      BY <1>1, <1>4, <2>3, SMTT(60) DEF KidPCs
    <3>4. /\ queue' \in [FsClients -> Seq(Message)] /\ \A d \in FsClients : d # c => queue'[d] = queue[d]
          /\ Len(queue'[c]) = l + 1 /\ queue'[c][l + 1] = m /\ \A i \in 1..l : queue'[c][i] = queue[c][i]
      BY <1>1, <1>4, <2>3, <3>1, FsAppend, SMTT(60)
    <3>5. g + l = n - 1 /\ \A i \in 1..l : queue[c][i] = DATA(Blocks[c][g + i])
      BY <1>2, <1>4, <2>1, <3>2, Zenon DEF InFlight, Exited
    <3>6. ASSUME NEW i \in 1..(l + 1) PROVE queue'[c][i] = DATA(Blocks[c][g + i])
      <4>1. CASE i = l + 1
        <5>1. g + i = n
          BY <3>5, <4>1, SMTT(60)
        <5>2. QED
          BY <3>1, <3>4, <4>1, <5>1, Zenon
      <4>2. CASE i # l + 1
        <5>1. i \in 1..l
          BY <4>2
        <5>2. QED
          BY <3>4, <3>5, <5>1, Zenon
      <4>3. QED
        BY <4>1, <4>2, SMTT(60)
    <3>7. InFlight(c)'
      <4>1. n + 1 >= 1 /\ n + 1 <= Len(Blocks[c]) + 1 /\ g + (l + 1) = (n + 1) - 1
        <5>1. Len(Blocks[c]) \in Nat
          BY <1>3, <3>2
        <5>2. QED
          BY <3>2, <3>5, <5>1, SMTT(60)
      <4>2. ~Exited(c)' /\ Opens(c)'
        BY <3>2, <3>3, SMTT(60) DEF Exited, Opens
      <4>3. /\ Len(cl'[c].got) + Len(queue'[c]) = kid'[c].next - 1
            /\ \A i \in 1..Len(queue'[c]) : queue'[c][i] = DATA(Blocks[c][Len(cl'[c].got) + i])
        BY <1>4, <2>1, <3>3, <3>4, <3>6, <4>1, Zenon
      <4>4. QED
        BY <3>2, <3>3, <4>1, <4>2, <4>3, Zenon DEF InFlight
    <3>8. QED
      BY <2>1, <2>2, <3>2, <3>3, <3>4, <3>7, FsChild, Zenon
  <2>4. CASE Gone(c) /\ kid' = [kid EXCEPT ![c].pc = "end"] /\ UNCHANGED queue
    <3>1. /\ kid' \in [FsClients -> [pc : KidPCs, next : Nat]] /\ kid'[c].next = kid[c].next /\ kid'[c].pc = "end"
          /\ \A d \in FsClients : d # c => kid'[d] = kid[d]
      BY <1>1, <2>4, Zenon DEF KidPCs
    <3>2. InFlight(c)'
      BY <1>2, <2>1, <2>4, <3>1 DEF InFlight, Exited, Opens, Gone
    <3>3. QED
      BY <1>1, <1>2, <2>1, <2>2, <2>4, <3>1, <3>2, FsChild, Zenon
  <2>5. QED
    BY <1>7, <2>3, <2>4, SMTT(60) DEF SendData
<1>8. CASE SendLast(c)
  <2>1. /\ kid[c].pc \in {"end", "failure"} /\ UNCHANGED <<cl, faults, sv, requests>> /\ zombies'.pending
        /\ kid' = [kid EXCEPT ![c].pc = "exited"]
    BY <1>8 DEF SendLast, Exits
  <2>2. Received(c)'
    BY <1>2, <2>1, Zenon DEF Received, Opens
  <2>3. /\ kid' \in [FsClients -> [pc : KidPCs, next : Nat]] /\ kid'[c].next = kid[c].next /\ kid'[c].pc = "exited"
        /\ \A d \in FsClients : d # c => kid'[d] = kid[d]
    BY <1>1, <2>1, Zenon DEF KidPCs
  <2>4. CASE CanSend(c) /\ queue' = [queue EXCEPT ![c] = Append(@, IF kid[c].pc = "end" THEN END ELSE FAILURE)]
    <3>1. PICK m \in Message : m = LastMessage(c) /\ m = IF kid[c].pc = "end" THEN END ELSE FAILURE
      BY <1>2, <2>1, SMTT(60) DEF InFlight, LastMessage, END, FAILURE, Message
    <3>2. /\ queue' \in [FsClients -> Seq(Message)] /\ \A d \in FsClients : d # c => queue'[d] = queue[d]
          /\ Len(queue'[c]) = l + 1 /\ queue'[c][l + 1] = m /\ \A i \in 1..l : queue'[c][i] = queue[c][i]
          /\ queue'[c] # <<>>
      BY <1>1, <1>4, <2>4, <3>1, FsAppend, SMTT(60)
    <3>3. /\ cl[c].q = "there" /\ g + l = n - 1
          /\ \A i \in 1..l : queue[c][i] = DATA(Blocks[c][g + i])
      BY <1>2, <1>4, <2>1, <2>4, Zenon DEF InFlight, Exited, CanSend
    <3>4. ASSUME NEW i \in 1..(l + 1)
          PROVE  queue'[c][i] = IF i = l + 1 THEN m ELSE DATA(Blocks[c][g + i])
      BY <3>2, <3>3, SMTT(60)
    <3>5. InFlight(c)'
      <4>1. g + (l + 1) = n
        BY <3>3, SMTT(60)
      <4>2. Exited(c)' /\ (Opens(c)' <=> Opens(c)) /\ LastMessage(c)' = m
        BY <2>3, <3>1, SMTT(60) DEF Exited, Opens, LastMessage
      <4>3. /\ Len(cl'[c].got) + Len(queue'[c]) = kid'[c].next
            /\ \A i \in 1..Len(queue'[c]) :
                  queue'[c][i] = IF i = Len(queue'[c]) THEN m ELSE DATA(Blocks[c][Len(cl'[c].got) + i])
        BY <1>4, <2>1, <2>3, <3>2, <3>4, <4>1, ZenonT(60)
      <4>4. Opens(c) => kid[c].pc = "end"
        BY <1>2, <2>1, SMTT(60) DEF InFlight
      <4>5. QED
        BY <1>2, <2>1, <2>3, <3>2, <3>3, <4>2, <4>3, <4>4, SMTT(60) DEF InFlight
    <3>6. QED
      BY <2>1, <2>2, <2>3, <3>2, <3>3, <3>5, FsChild, ZenonT(60)
  <2>5. CASE Gone(c) /\ UNCHANGED queue
    <3>1. InFlight(c)'
      BY <1>2, <2>1, <2>3, <2>5, SMTT(60) DEF InFlight, Exited, Opens, Gone
    <3>2. QED
      BY <1>1, <1>2, <2>1, <2>2, <2>3, <2>5, <3>1, FsChild, Zenon
  <2>6. QED
    BY <1>8, <2>4, <2>5, SMTT(60) DEF SendLast
<1>9. QED
  BY <1>5, <1>6, <1>7, <1>8

\* A client changes nothing but its own place and queue, and the requests.
ClType == [FsClients -> [pc : ClPCs, got : Seq(Nat), q : {"none", "there", "removed"}]]
LEMMA FsClient ==
    ASSUME FsInv, NEW c \in FsClients, UNCHANGED <<kid, sv, faults, zombies>>, requests' \in Seq(FsClients),
           cl' \in ClType, queue' \in [FsClients -> Seq(Message)],
           \A d \in FsClients : d # c => cl'[d] = cl[d] /\ queue'[d] = queue[d],
           cl'[c].pc \in {"send", "first", "more", "killed"} => cl'[c].q = "there",
           cl'[c].pc = "start" => cl'[c].q = "none",
           cl'[c].pc \in {"done", "refused", "failed"} => cl'[c].q # "there",
           cl'[c].q # "there" => queue'[c] = <<>>,
           OnePlace', InFlight(c)', Received(c)'
    PROVE  FsInv'
<1> USE DEF FsInv
<1>1. faults \in Nat
  BY SMTT(60) DEF FsType
<1>2. FsType'
  BY SMTT(60) DEF FsType, ClType
<1>3. QueueThere'
  BY ZenonT(60) DEF QueueThere
<1>4. ASSUME NEW d \in FsClients, d # c PROVE InFlight(d)' /\ Received(d)'
  BY <1>1, <1>4, FsKeep, SMTT(60)
<1>5. QED
  BY <1>2, <1>3, <1>4, SMTT(60)

\* exit(), after atexit(removeQueue).
LEMMA FsRemoved ==
    ASSUME FsInv, NEW c \in FsClients, NEW how \in {"done", "refused", "failed"}, removeQueue(c, how),
           UNCHANGED <<kid, sv, faults, zombies, requests>>,
           how = "done" => Opens(c) /\ (faults = 0 => Len(cl[c].got) = Len(Blocks[c])),
           how = "refused" => ~Opens(c)
    PROVE  FsInv'
<1>1. /\ cl \in ClType /\ queue \in [FsClients -> Seq(Message)] /\ requests \in Seq(FsClients)
      /\ InFlight(c) /\ Received(c) /\ OnePlace
  BY DEF FsInv, FsType, ClType
<1>2. /\ cl' = [cl EXCEPT ![c].pc = how, ![c].q = IF @ = "there" THEN "removed" ELSE @]
      /\ queue' = [queue EXCEPT ![c] = <<>>]
  BY DEF removeQueue
<1>3. /\ cl' \in ClType /\ cl'[c].pc = how /\ cl'[c].got = cl[c].got /\ cl'[c].q # "there"
      /\ \A d \in FsClients : d # c => cl'[d] = cl[d]
  BY <1>1, <1>2, ZenonT(60) DEF ClType, ClPCs
<1>4. /\ queue' \in [FsClients -> Seq(Message)] /\ queue'[c] = <<>>
      /\ \A d \in FsClients : d # c => queue'[d] = queue[d]
  BY <1>1, <1>2
<1>5. OnePlace'
  BY <1>1, <1>3, FsStay, Zenon
<1>6. Received(c)'
  BY <1>1, <1>3, SMTT(60) DEF Received, Opens
<1>7. InFlight(c)'
  BY <1>1, <1>3, Zenon DEF InFlight, Opens
<1>8. QED
  BY <1>1, <1>3, <1>4, <1>5, <1>6, <1>7, FsClient, Zenon

\* The client's steps.
LEMMA FsClientNext ==
    ASSUME FsInv, NEW c \in FsClients, Connect(c) \/ Send(c) \/ Receive(c) \/ Killed(c) PROVE FsInv'
<1>1. /\ cl \in ClType /\ queue \in [FsClients -> Seq(Message)] /\ requests \in Seq(FsClients)
      /\ InFlight(c) /\ Received(c) /\ OnePlace /\ QueueThere /\ faults \in Nat
  BY SMTT(60) DEF FsInv, FsType, ClType
<1>2. Opens(c) => Blocks[c] \in Seq(Nat)
  BY BlocksAssumption DEF Opens
<1>3. PICK g \in Nat, l \in Nat, n \in Nat : g = Len(cl[c].got) /\ l = Len(queue[c]) /\ n = kid[c].next
  <2>1. cl[c].got \in Seq(Nat) /\ queue[c] \in Seq(Message) /\ kid[c].next \in Nat
    BY SMTT(60) DEF FsInv, FsType
  <2>2. QED
    BY <2>1, SMTT(60)
<1>4. CASE Connect(c)
  <2>1. cl[c].pc = "start" /\ UNCHANGED <<sv, requests, kid, faults, zombies>>
    BY <1>4 DEF Connect
  <2>2. CASE cl' = [cl EXCEPT ![c].pc = "send", ![c].q = "there"] /\ UNCHANGED queue
    <3>1. /\ cl' \in ClType /\ cl'[c].pc = "send" /\ cl'[c].got = cl[c].got /\ cl'[c].q = "there"
          /\ \A d \in FsClients : d # c => cl'[d] = cl[d]
      BY <1>1, <2>2, ZenonT(60) DEF ClType, ClPCs
    <3>2. kid[c].pc = "none" /\ cl[c].got = <<>> /\ queue[c] = <<>> /\ n = 1
      BY <1>1, <1>3, <2>1, SMTT(60) DEF OnePlace, QueueThere, Received, InFlight
    <3>3. OnePlace'
      BY <1>1, <2>1, <3>1, FsStay, Zenon
    <3>4. Received(c)'
      BY <1>1, <2>1, <3>1, <3>2, SMTT(60) DEF Received, Opens
    <3>5. InFlight(c)'
      <4>1. Len(cl'[c].got) = 0 /\ Len(queue'[c]) = 0 /\ kid'[c].next = 1 /\ kid'[c].pc = "none"
        BY <1>3, <2>1, <2>2, <3>1, <3>2, SMTT(60)
      <4>2. QED
        BY <1>1, <2>1, <4>1, SMTT(60) DEF InFlight, Opens, Exited
    <3>6. QED
      BY <1>1, <2>1, <2>2, <3>1, <3>3, <3>4, <3>5, FsClient, Zenon
  <2>3. CASE removeQueue(c, "failed")
    BY <2>1, <2>3, FsRemoved, SMTT(60)
  <2>4. QED
    BY <1>4, <2>2, <2>3 DEF Connect
<1>5. CASE Send(c)
  <2>1. cl[c].pc = "send" /\ UNCHANGED <<sv, kid, faults, zombies>>
    BY <1>5 DEF Send
  <2>2. CASE requests' = Append(requests, c) /\ cl' = [cl EXCEPT ![c].pc = "first"] /\ UNCHANGED queue
    <3>1. /\ cl' \in ClType /\ cl'[c].pc = "first" /\ cl'[c].got = cl[c].got /\ cl'[c].q = cl[c].q
          /\ \A d \in FsClients : d # c => cl'[d] = cl[d]
      BY <1>1, <2>2, Zenon DEF ClType, ClPCs
    <3>2. PICK r \in Nat : r = Len(requests)
      BY <1>1
    <3>3. /\ requests' \in Seq(FsClients) /\ Len(requests') = r + 1 /\ requests'[r + 1] = c
          /\ \A i \in 1..r : requests'[i] = requests[i]
      BY <1>1, <2>2, <3>2
    <3>4. OnePlace'
      <4>1. ~Queued(c) /\ ~Taken(c) /\ kid[c].pc = "none"
        BY <1>1, <2>1, SMTT(60) DEF OnePlace
      <4>2. \A i \in 1..r : requests[i] # c
        BY <3>2, <4>1, SMTT(60) DEF Queued
      <4>3. \A i, j \in 1..(r + 1) : requests'[i] = requests'[j] => i = j
        <5>1. \A i, j \in 1..r : requests[i] = requests[j] => i = j
          BY <1>1, <3>2, Zenon DEF OnePlace
        <5>2. QED
          BY <3>3, <4>2, <5>1, SMTT(60)
      <4>4. ASSUME NEW d \in FsClients, d # c PROVE Queued(d)' <=> Queued(d)
        <5>1. \A i \in 1..(r + 1) : requests'[i] = d => i \in 1..r
          BY <3>3, <4>4, SMTT(60)
        <5>2. QED
          BY <3>2, <3>3, <5>1, SMTT(60) DEF Queued
      <4>5. Queued(c)'
        BY <3>3, SMTT(60) DEF Queued
      <4>6. \A d \in FsClients : Taken(d)' <=> Taken(d)
        BY <2>1, SMTT(60) DEF Taken
      <4>7. QED
        BY <1>1, <2>1, <3>1, <3>3, <4>1, <4>3, <4>4, <4>5, <4>6, ZenonT(60) DEF OnePlace
    <3>5. Received(c)'
      BY <1>1, <2>1, <3>1, SMTT(60) DEF Received, Opens
    <3>6. InFlight(c)'
      BY <1>1, <2>1, <2>2, <3>1, SMTT(60) DEF InFlight, Opens, Exited, LastMessage
    <3>7. QED
      BY <1>1, <2>1, <2>2, <3>1, <3>3, <3>4, <3>5, <3>6, FsClient, Zenon DEF QueueThere
  <2>3. CASE removeQueue(c, "failed") /\ UNCHANGED requests
    BY <2>1, <2>3, FsRemoved, SMTT(60)
  <2>4. QED
    BY <1>5, <2>2, <2>3 DEF Send
<1>6. CASE Killed(c)
  <2>1. /\ cl[c].pc \in {"send", "first", "more"} /\ cl' = [cl EXCEPT ![c].pc = "killed"]
        /\ UNCHANGED <<sv, requests, kid, queue, faults, zombies>>
    BY <1>6, SMTT(60) DEF Killed
  <2>2. /\ cl' \in ClType /\ cl'[c].pc = "killed" /\ cl'[c].got = cl[c].got /\ cl'[c].q = cl[c].q
        /\ \A d \in FsClients : d # c => cl'[d] = cl[d]
    BY <1>1, <2>1, ZenonT(60) DEF ClType, ClPCs
  <2>3. OnePlace'
    BY <1>1, <2>1, <2>2, FsStay, SMTT(60)
  <2>4. Received(c)'
    BY <1>1, <2>1, <2>2, SMTT(60) DEF Received, Opens
  <2>5. InFlight(c)'
    BY <1>1, <2>1, <2>2, SMTT(60) DEF InFlight, Opens, Exited, LastMessage
  <2>6. QED
    BY <1>1, <2>1, <2>2, <2>3, <2>4, <2>5, FsClient, Zenon DEF QueueThere
<1>7. CASE Receive(c)
  <2>1. /\ cl[c].pc \in {"first", "more"} /\ queue[c] # <<>> /\ cl[c].q = "there"
        /\ UNCHANGED <<sv, requests, kid, faults, zombies>>
    BY <1>1, <1>7, SMTT(60) DEF Receive, QueueThere
  <2> DEFINE resp == Head(queue[c])
  <2>2. l \in Nat \ {0} /\ resp = queue[c][1]
    BY <1>1, <1>3, <2>1, SMTT(60)
  <2>3. /\ g + l = n - (IF Exited(c) THEN 0 ELSE 1)
        /\ \A i \in 1..l : queue[c][i] = IF Exited(c) /\ i = l THEN LastMessage(c) ELSE DATA(Blocks[c][g + i])
    BY <1>1, <1>3, <2>1, SMTT(60) DEF InFlight
  <2>4. CASE Exited(c) /\ l = 1
    <3>1. resp = LastMessage(c)
      BY <2>2, <2>3, <2>4, SMTT(60)
    <3>2. CASE Opens(c)
      <4>1. resp # FAILURE /\ resp.mtype # 2
        BY <3>1, <3>2 DEF LastMessage, END, FAILURE
      <4>2. removeQueue(c, "done")
        BY <1>7, <4>1, SMTT(60) DEF Receive
      <4>3. faults = 0 => n = Len(Blocks[c]) + 1
        BY <1>1, <1>3, <2>1, <2>4, <3>2, SMTT(60) DEF InFlight
      <4>4. Len(Blocks[c]) \in Nat
        BY <1>2, <3>2
      <4>5. faults = 0 => g = Len(Blocks[c])
        BY <2>3, <2>4, <4>3, <4>4, SMTT(60)
      <4>6. QED
        BY <1>3, <2>1, <3>2, <4>2, <4>5, FsRemoved, SMTT(60)
    <3>3. CASE ~Opens(c)
      <4>1. resp = FAILURE /\ cl[c].pc = "first" /\ resp.mtype # 2
        BY <1>1, <2>1, <3>1, <3>3, SMTT(60) DEF LastMessage, Received, FAILURE
      <4>2. removeQueue(c, "refused")
        BY <1>7, <4>1, SMTT(60) DEF Receive
      <4>3. QED
        BY <2>1, <3>3, <4>2, FsRemoved, SMTT(60)
    <3>4. QED
      BY <3>2, <3>3, SMTT(60)
  <2>5. CASE ~(Exited(c) /\ l = 1)
    <3>1. resp = DATA(Blocks[c][g + 1])
      BY <2>2, <2>3, <2>5, SMTT(60)
    <3>2. g + 1 <= n - 1
      BY <2>2, <2>3, <2>5, SMTT(60)
    <3>3. Opens(c)
      BY <1>1, <1>3, <3>2, SMTT(60) DEF InFlight
    <3>4. PICK b \in Nat : b = Len(Blocks[c])
      BY <1>2, <3>3, SMTT(60)
    <3>5. g + 1 \in 1..b /\ Blocks[c][g + 1] \in Nat
      <4>1. n <= b + 1
        BY <1>1, <1>3, <3>3, <3>4, SMTT(60) DEF InFlight
      <4>2. g + 1 \in 1..b
        BY <3>2, <4>1, SMTT(60)
      <4>3. QED
        BY <1>2, <3>3, <3>4, <4>2, SMTT(60)
    <3>6. /\ cl' = [cl EXCEPT ![c].pc = "more", ![c].got = Append(@, Blocks[c][g + 1])]
          /\ queue' = [queue EXCEPT ![c] = Tail(@)]
      BY <1>7, <3>1, SMTT(60) DEF Receive, DATA, FAILURE
    <3>7. /\ cl' \in ClType /\ cl'[c].pc = "more" /\ cl'[c].got = Append(cl[c].got, Blocks[c][g + 1])
          /\ cl'[c].q = cl[c].q /\ \A d \in FsClients : d # c => cl'[d] = cl[d]
      <4>1. PICK more \in Seq(Nat) : more = Append(cl[c].got, Blocks[c][g + 1])
        <5>1. cl[c].got \in Seq(Nat)
          BY <1>1, SMTT(60) DEF ClType
        <5>2. QED
          BY <3>5, <5>1, Appended, Zenon
      <4>2. cl' = [cl EXCEPT ![c].pc = "more", ![c].got = more]
        BY <3>6, <4>1, SMTT(60)
      <4>3. QED
        BY <1>1, <4>1, <4>2, ZenonT(60) DEF ClType, ClPCs
    <3>8. /\ Len(cl'[c].got) = g + 1 /\ cl'[c].got[g + 1] = Blocks[c][g + 1] /\ cl'[c].got # <<>>
          /\ \A i \in 1..g : cl'[c].got[i] = cl[c].got[i]
      <4>1. cl[c].got \in Seq(Nat)
        BY <1>1, SMTT(60) DEF ClType
      <4>2. QED
        BY <1>3, <3>5, <3>7, <4>1, SMTT(60)
    <3>9. /\ queue' \in [FsClients -> Seq(Message)] /\ \A d \in FsClients : d # c => queue'[d] = queue[d]
          /\ Len(queue'[c]) = l - 1 /\ \A i \in 1..(l - 1) : queue'[c][i] = queue[c][i + 1]
      <4>1. queue[c] \in Seq(Message) /\ queue'[c] = Tail(queue[c])
        BY <1>1, <3>6
      <4>2. /\ queue'[c] \in Seq(Message) /\ Len(queue'[c]) = l - 1
            /\ \A i \in 1..(l - 1) : queue'[c][i] = queue[c][i + 1]
        BY <1>3, <2>1, <4>1, SMTT(60)
      <4>3. QED
        BY <1>1, <3>6, <4>2, SMTT(60)
    <3>10. OnePlace'
      BY <1>1, <2>1, <3>7, FsStay, SMTT(60)
    <3>11. Received(c)'
      <4>1. Opens(c)' /\ \A i \in 1..g : cl[c].got[i] = Blocks[c][i]
        BY <1>1, <1>3, <3>3, SMTT(60) DEF Received, Opens
      <4>2. \A i \in 1..(g + 1) : cl'[c].got[i] = Blocks[c][i]
        BY <3>8, <4>1, SMTT(60)
      <4>3. Len(cl'[c].got) <= Len(Blocks[c])
        BY <3>4, <3>5, <3>8, SMTT(60)
      <4>4. Len(cl'[c].got) = g + 1 /\ cl'[c].got # <<>> /\ cl'[c].pc = "more"
        BY <3>7, <3>8, Zenon
      <4>5. cl'[c].pc \notin {"start", "send", "done", "refused"}
        BY <4>4
      <4>6. \A i \in 1..Len(cl'[c].got) : cl'[c].got[i] = Blocks[c][i]
        BY <4>2, <4>4, Zenon
      <4>7. QED
        BY <4>1, <4>3, <4>4, <4>5, <4>6, Zenon DEF Received
    <3>12. InFlight(c)'
      <4>1. (Exited(c)' <=> Exited(c)) /\ (Opens(c)' <=> Opens(c)) /\ LastMessage(c)' = LastMessage(c)
        BY <2>1, SMTT(60) DEF Exited, Opens, LastMessage
      <4>2. (g + 1) + (l - 1) = n - (IF Exited(c) THEN 0 ELSE 1)
        BY <2>2, <2>3, SMTT(60)
      <4>3. ASSUME NEW i \in 1..(l - 1)
            PROVE  queue'[c][i] = IF Exited(c) /\ i = l - 1 THEN LastMessage(c)
                                  ELSE DATA(Blocks[c][(g + 1) + i])
        <5>1. i + 1 \in 1..l /\ g + (i + 1) = (g + 1) + i /\ (i + 1 = l <=> i = l - 1)
          BY <2>2
        <5>2. queue'[c][i] = queue[c][i + 1]
          BY <3>9
        <5>3. QED
          BY <2>3, <5>1, <5>2, SMTT(60)
      <4>4. Exited(c) => queue'[c] # <<>>
        <5>1. Exited(c) => l - 1 # 0
          BY <2>5
        <5>2. QED
          BY <3>9, <5>1, SMTT(60)
      <4>5. /\ Len(cl'[c].got) + Len(queue'[c]) = kid'[c].next - (IF Exited(c)' THEN 0 ELSE 1)
            /\ \A i \in 1..Len(queue'[c]) :
                  queue'[c][i] = IF Exited(c)' /\ i = Len(queue'[c]) THEN LastMessage(c)'
                                 ELSE DATA(Blocks[c][Len(cl'[c].got) + i])
        BY <1>3, <2>1, <3>8, <3>9, <4>1, <4>2, <4>3, ZenonT(60)
      <4>6. QED
        BY <1>1, <2>1, <4>1, <4>4, <4>5, Zenon DEF InFlight
    <3>13. QED
      BY <1>1, <2>1, <3>7, <3>9, <3>10, <3>11, <3>12, FsClient, Zenon
  <2>6. QED
    BY <2>4, <2>5, SMTT(60)
<1>8. QED
  BY <1>4, <1>5, <1>6, <1>7

\* svmsg_file_server.c and svmsg_file_client.c, for every set of clients, every
\* file, queue size and number of failing calls: a client receives its own file,
\* in order and whole, and no client waits for a child that will not answer.
THEOREM FileServerCorrect == Spec => []FilesRight
<1>1. FsInv /\ [Next]_fsVars => FsInv'
  <2> SUFFICES ASSUME FsInv, [Next]_fsVars PROVE FsInv'
    OBVIOUS
  <2>1. CASE UNCHANGED fsVars
    <3>1. FsType' /\ OnePlace' /\ QueueThere'
      BY <2>1, SMTT(60) DEF fsVars, FsInv, FsType, OnePlace, QueueThere, Queued, Taken
    <3>2. QED
      BY <2>1, <3>1, FsKeep, SMTT(60) DEF fsVars, FsInv, FsType
  <2>2. QED
    BY <2>1, FsServerNext, FsChildNext, FsClientNext DEF Next
<1>2. FsInv => FilesRight
  <2> SUFFICES ASSUME FsInv PROVE FilesRight
    OBVIOUS
  <2>1. ASSUME NEW c \in FsClients, Opens(c)
        PROVE  IsStart(cl[c].got, Blocks[c]) /\ (Len(cl[c].got) = Len(Blocks[c]) => cl[c].got = Blocks[c])
    <3>1. cl[c].got \in Seq(Nat) /\ Blocks[c] \in Seq(Nat)
      BY <2>1, BlocksAssumption, SMTT(60) DEF FsInv, FsType, Opens
    <3>2. Len(cl[c].got) <= Len(Blocks[c]) /\ \A i \in 1..Len(cl[c].got) : cl[c].got[i] = Blocks[c][i]
      BY <2>1, SMTT(60) DEF FsInv, Received
    <3>3. SubSeq(Blocks[c], 1, Len(cl[c].got)) = cl[c].got
      <4> DEFINE t == SubSeq(Blocks[c], 1, Len(cl[c].got))
      <4>1. /\ t \in Seq(Nat) /\ Len(t) = Len(cl[c].got) /\ \A i \in 1..Len(t) : t[i] = Blocks[c][i]
        BY <3>1, <3>2, SMTT(60)
      <4>2. QED
        BY <3>1, <3>2, <4>1, SameElements, ZenonT(60)
    <3>4. Len(cl[c].got) = Len(Blocks[c]) => cl[c].got = Blocks[c]
      BY <3>1, <3>2, SameElements, Zenon
    <3>5. QED
      BY <3>2, <3>3, <3>4, SMTT(60) DEF IsStart
  <2>2. ASSUME NEW c \in FsClients, cl[c].pc \in {"first", "more"}, queue[c] = <<>>
        PROVE  Queued(c) \/ Taken(c) \/ kid[c].pc \notin {"none", "exited"} \/ sv.pc \in {"rmid", "exited"}
    BY <2>2, Zenon DEF FsInv, OnePlace, QueueThere, InFlight, Exited
  <2>3. ASSUME NEW c \in FsClients, Queued(c) PROVE \E i \in DOMAIN requests : requests[i] = c
    <3>1. DOMAIN requests = 1..Len(requests)
      BY DEF FsInv, FsType
    <3>2. QED
      BY <2>3, <3>1 DEF Queued
  <2>4. QED
    BY <2>1, <2>2, <2>3, ZenonT(60) DEF FilesRight, FsInv, Received, QueueThere, Taken
<1>3. QED
  BY FsInitInv, <1>1, <1>2, PTL DEF Spec
=============================================================================
