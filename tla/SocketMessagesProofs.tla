------------------------ MODULE SocketMessagesProofs ------------------------
(***************************************************************************)
(* The datagram servers and their clients, for any clients and messages,   *)
(* and the programs that pass descriptors and credentials, for any files   *)
(* and any size of the buffer for them.                                    *)
(***************************************************************************)
EXTENDS SocketMessages, TLAPS

----------------------------------------------------------------------------
\* The datagram servers and their clients.
Datagram == [from : Clients, no : Nat, len : Nat]
Answer == [len : Nat, no : Nat, upper : BOOLEAN]
DgPCs == {"new", "send", "recv", "ended", "killed"}

DgType ==
    /\ dgSv = [at |-> dgSv.at, buf |-> dgSv.buf, ant |-> dgSv.ant]
    /\ dgSv.at \in {"new", "recv", "send", "ended"} /\ dgSv.ant \in Int
    /\ dgSv.at = "send" => dgSv.buf \in Datagram
    /\ inbox \in Seq(Datagram) /\ lost \in Nat /\ copied \in Nat
    /\ dgCl \in [Clients -> [at : DgPCs, args : Seq(Nat), sent : Nat, got : Seq(Answer)]]
    /\ answers \in [Clients -> Seq(Answer)]

\* Where a datagram of client c can be.
InBox(c) == \E i \in 1..Len(inbox) : inbox[i].from = c
AtServer(c) == dgSv.at = "send" /\ dgSv.buf.from = c
Answered(c) == answers[c] # <<>>

\* Which programs do what: nothing runs before one is chosen, only UDP copies
\* datagrams, the sender of udp-reliability/ waits for nothing.
DgPrograms ==
    /\ dgSv.at = "new" => inbox = <<>> /\ \A c \in Clients : answers[c] = <<>>
    /\ dprog = "none" => /\ dgSv.at = "new" /\ dgSv.ant = -1
                         /\ \A c \in Clients : dgCl[c].at = "new" /\ dgCl[c].sent = 0
    /\ copied > 0 => UDP
    /\ dgSv.at = "ended" => dprog \in {"ud_ucase", "reliability"}
    /\ dprog = "reliability" =>
          dgSv.at # "send" /\ \A c \in Clients : dgCl[c].at # "recv" /\ dgCl[c].got = <<>>
    /\ \A c \in Clients : dgCl[c].at = "new" => dgCl[c].sent = 0 /\ dgCl[c].got = <<>>
    /\ \A c \in Clients : dgCl[c].sent <= Len(dgCl[c].args)

\* A client that waits has a datagram somewhere, unless one was lost.
OnItsWay == \A c \in Clients : dgCl[c].at = "recv" /\ lost = 0 /\ dgSv.at # "ended" =>
                                   InBox(c) \/ AtServer(c) \/ Answered(c)

\* As long as the network copies nothing, a client has one datagram on its way
\* at most, in one place, and only while it waits for the answer.
SingleOf(c) == /\ InBox(c) => ~AtServer(c) /\ ~Answered(c)
               /\ AtServer(c) => ~Answered(c)
               /\ Len(answers[c]) <= 1
               /\ InBox(c) \/ AtServer(c) => dgCl[c].at \in {"recv", "killed"}
               /\ Answered(c) => dgCl[c].at = "recv"
Single == /\ \A i, j \in 1..Len(inbox) : inbox[i].from = inbox[j].from => i = j
          /\ \A c \in Clients : SingleOf(c)

\* It carries the argument sent last, whose answer is the next to be shown.
Reply1(c, k) == [len |-> Cut(dgCl[c].args[k]), no |-> k, upper |-> dprog # "id_echo"]
ContentOf(c) ==
    /\ \A i \in 1..Len(inbox) : inbox[i].from = c =>
          inbox[i].no = dgCl[c].sent /\ inbox[i].len = dgCl[c].args[dgCl[c].sent]
    /\ AtServer(c) => dgSv.buf.no = dgCl[c].sent /\ dgSv.buf.len = Cut(dgCl[c].args[dgCl[c].sent])
    /\ Answered(c) => answers[c][1] = Reply1(c, dgCl[c].sent)
Content == \A c \in Clients : ContentOf(c)

ShownOf(c) == /\ dgCl[c].at = "send" => Len(dgCl[c].got) = dgCl[c].sent
              /\ dgCl[c].at = "recv" => Len(dgCl[c].got) + 1 = dgCl[c].sent
              /\ Len(dgCl[c].got) <= dgCl[c].sent
              /\ \A k \in 1..Len(dgCl[c].got) : dgCl[c].got[k] = Reply1(c, k)
Shown == \A c \in Clients : ShownOf(c)

\* udp-reliability: as long as one client sends, the receiver counts with it.
OneSender == \A c, d \in Clients : dgCl[c].sent > 0 /\ dgCl[d].sent > 0 => c = d
Counting == dprog = "reliability" /\ OneSender =>
    /\ dgSv.at # "ended"
    /\ \A i \in 1..Len(inbox) : inbox[i].no = dgSv.ant + 1 + i
    /\ \A c \in Clients : dgCl[c].sent > 0 => dgCl[c].sent = dgSv.ant + 1 + Len(inbox)
    /\ (\A c \in Clients : dgCl[c].sent = 0) => dgSv.ant = -1 /\ inbox = <<>>

KilledOne == dgSv.at = "ended" /\ dprog = "ud_ucase" => \E c \in Clients : dgCl[c].at = "killed"

DgInv == /\ DgType /\ DgPrograms /\ OnItsWay /\ Counting /\ KilledOne
         /\ copied = 0 /\ dprog # "reliability" => Single /\ Content /\ Shown

\* Nothing has been sent.
LEMMA DgInitInv == DatagramInit => DgInv
<1> SUFFICES ASSUME DatagramInit PROVE DgInv
  OBVIOUS
<1>1. /\ dprog = "none" /\ dgSv = [at |-> "new", buf |-> <<>>, ant |-> -1] /\ inbox = <<>>
      /\ dgCl = [c \in Clients |-> [at |-> "new", args |-> <<>>, sent |-> 0, got |-> <<>>]]
      /\ answers = [c \in Clients |-> <<>>] /\ lost = 0 /\ copied = 0
  BY DEF DatagramInit
<1>2. DgType
  BY <1>1 DEF DgType, DgPCs
<1>3. DgPrograms /\ OnItsWay /\ Counting /\ KilledOne
  BY <1>1 DEF DgPrograms, OnItsWay, Counting, KilledOne
<1>4. Single /\ Content /\ Shown
  BY <1>1, SMTT(60) DEF Single, Content, Shown, SingleOf, ContentOf, ShownOf, InBox, AtServer, Answered
<1>5. QED
  BY <1>1, <1>2, <1>3, <1>4, SMTT(60) DEF DgInv

\* The first datagram leaves the queue of the server's socket ...
LEMMA DgPop ==
    ASSUME inbox \in Seq(Datagram), inbox # <<>>, inbox' = Tail(inbox)
    PROVE  /\ inbox' \in Seq(Datagram) /\ Head(inbox) = inbox[1] /\ inbox[1] \in Datagram
           /\ Len(inbox) \in Nat \ {0} /\ Len(inbox') = Len(inbox) - 1
           /\ \A i \in 1..Len(inbox') : i + 1 \in 1..Len(inbox) /\ inbox'[i] = inbox[i + 1]
           /\ \A c \in Clients : InBox(c) <=> InBox(c)' \/ c = inbox[1].from
           /\ \A c \in Clients : Single /\ c = inbox[1].from => ~InBox(c)'
<1>1. /\ inbox' \in Seq(Datagram) /\ Head(inbox) = inbox[1] /\ inbox[1] \in Datagram
      /\ Len(inbox) \in Nat \ {0} /\ Len(inbox') = Len(inbox) - 1
      /\ \A i \in 1..Len(inbox') : i + 1 \in 1..Len(inbox) /\ inbox'[i] = inbox[i + 1]
  OBVIOUS
<1>2. ASSUME NEW c \in Clients PROVE InBox(c) <=> InBox(c)' \/ c = inbox[1].from
  <2>1. ASSUME NEW i \in 1..Len(inbox), inbox[i].from = c, i # 1 PROVE InBox(c)'
    <3>1. i - 1 \in 1..Len(inbox') /\ (i - 1) + 1 = i
      BY <1>1, <2>1
    <3>2. inbox'[i - 1] = inbox[i]
      BY <1>1, <3>1
    <3>3. QED
      BY <2>1, <3>1, <3>2 DEF InBox
  <2>2. InBox(c)' => InBox(c)
    BY <1>1 DEF InBox
  <2>3. 1 \in 1..Len(inbox)
    BY <1>1
  <2>4. c = inbox[1].from => InBox(c)
    BY <2>3 DEF InBox
  <2>5. QED
    BY <2>1, <2>2, <2>4, Zenon DEF InBox
<1>3. ASSUME NEW c \in Clients, Single, c = inbox[1].from PROVE ~InBox(c)'
  <2> SUFFICES ASSUME NEW i \in 1..Len(inbox'), inbox'[i].from = c PROVE FALSE
    BY DEF InBox
  <2>1. i + 1 \in 1..Len(inbox) /\ 1 \in 1..Len(inbox) /\ inbox[i + 1].from = inbox[1].from /\ i + 1 # 1
    BY <1>1, <1>3
  <2>2. QED
    BY <1>3, <2>1 DEF Single
<1>4. QED
  BY <1>1, <1>2, <1>3

\* ... and another one joins it.
LEMMA DgPush ==
    ASSUME inbox \in Seq(Datagram), NEW d \in Datagram, inbox' = Append(inbox, d)
    PROVE  /\ inbox' \in Seq(Datagram)
           /\ Len(inbox) \in Nat /\ Len(inbox') = Len(inbox) + 1 /\ inbox'[Len(inbox) + 1] = d
           /\ \A i \in 1..Len(inbox) : inbox'[i] = inbox[i]
           /\ \A c \in Clients : InBox(c)' <=> InBox(c) \/ c = d.from
<1>1. /\ inbox' \in Seq(Datagram) /\ Len(inbox) \in Nat
      /\ Len(inbox') = Len(inbox) + 1 /\ inbox'[Len(inbox) + 1] = d
      /\ \A i \in 1..Len(inbox) : inbox'[i] = inbox[i]
  OBVIOUS
<1>2. 1..Len(inbox') = (1..Len(inbox)) \cup {Len(inbox) + 1}
  BY <1>1
<1>3. ASSUME NEW c \in Clients PROVE InBox(c)' <=> InBox(c) \/ c = d.from
  BY <1>1, <1>2 DEF InBox
<1>4. QED
  BY <1>1, <1>3

\* What a step leaves alone of a client keeps what is known of it.
LEMMA DgKeepContent ==
    ASSUME NEW d \in Clients, dprog' = dprog,
           dgCl'[d].args = dgCl[d].args, dgCl'[d].sent = dgCl[d].sent, dgCl'[d].got = dgCl[d].got,
           \A i \in 1..Len(inbox') : inbox'[i].from = d => \E j \in 1..Len(inbox) : inbox[j] = inbox'[i],
           AtServer(d)' => AtServer(d) /\ dgSv'.buf = dgSv.buf,
           Answered(d)' => answers'[d] = answers[d]
    PROVE  /\ ContentOf(d) => ContentOf(d)'
           /\ dgCl'[d].at \in {dgCl[d].at, "ended", "killed"} => (ShownOf(d) => ShownOf(d)')
<1>1. \A k : Reply1(d, k)' = Reply1(d, k)
  BY Zenon DEF Reply1, Cut
<1>2. ContentOf(d) => ContentOf(d)'
  <2> SUFFICES ASSUME ContentOf(d) PROVE ContentOf(d)'
    OBVIOUS
  <2>1. \A i \in 1..Len(inbox') : inbox'[i].from = d =>
          inbox'[i].no = dgCl'[d].sent /\ inbox'[i].len = dgCl'[d].args[dgCl'[d].sent]
    BY ZenonT(60) DEF ContentOf
  <2>2. AtServer(d)' => dgSv'.buf.no = dgCl'[d].sent /\ dgSv'.buf.len = Cut(dgCl'[d].args[dgCl'[d].sent])
    BY Zenon DEF ContentOf
  <2>3. PICK n : n = dgCl[d].sent /\ n = dgCl'[d].sent
    BY Zenon
  <2>4. Answered(d)' => answers'[d][1] = Reply1(d, n)'
    BY <1>1, <2>3, ZenonT(60) DEF ContentOf, Answered
  <2>5. QED
    BY <2>1, <2>2, <2>3, <2>4, ZenonT(60) DEF ContentOf, Cut, Reply1
<1>3. ASSUME dgCl'[d].at \in {dgCl[d].at, "ended", "killed"}, ShownOf(d) PROVE ShownOf(d)'
  <2>1. /\ dgCl'[d].at = "send" => dgCl[d].at = "send"
        /\ dgCl'[d].at = "recv" => dgCl[d].at = "recv"
    BY <1>3, SMTT(60)
  <2>2. QED
    BY <1>1, <1>3, <2>1, ZenonT(60) DEF ShownOf
<1>4. QED
  BY <1>2, <1>3, SMTT(60)

LEMMA DgKeepSingle ==
    ASSUME NEW d \in Clients, dgCl'[d].at = dgCl[d].at, InBox(d)' => InBox(d), AtServer(d)' => AtServer(d),
           Answered(d)' => answers'[d] = answers[d]
    PROVE  SingleOf(d) => SingleOf(d)'
<1>1. ~Answered(d)' => Len(answers'[d]) <= 1
  BY DEF Answered
<1>2. QED
  BY <1>1, Zenon DEF SingleOf, Answered

\* recvfrom() cuts a datagram once.
LEMMA CutOnce == ASSUME NEW n \in Nat PROVE Cut(n) \in Nat /\ Cut(Cut(n)) = Cut(n)
  BY DatagramsAssumption DEF Cut

\* What the server's record becomes when it has read a request.
LEMMA SvRecord ==
    ASSUME NEW r, NEW x, NEW y, NEW z, NEW a, NEW b, r = [at |-> x, buf |-> y, ant |-> z]
    PROVE  [r EXCEPT !.at = a, !.buf = b] = [at |-> a, buf |-> b, ant |-> z]
<1>1. [[at |-> x, buf |-> y, ant |-> z] EXCEPT !.at = a] = [at |-> a, buf |-> y, ant |-> z]
  OBVIOUS
<1>2. [[at |-> a, buf |-> y, ant |-> z] EXCEPT !.buf = b] = [at |-> a, buf |-> b, ant |-> z]
  OBVIOUS
<1>3. QED
  BY <1>1, <1>2, Zenon

\* ... and where it only moves on.
LEMMA SvAt ==
    ASSUME DgType, NEW a, dgSv' = [dgSv EXCEPT !.at = a]
    PROVE  /\ dgSv' = [at |-> a, buf |-> dgSv.buf, ant |-> dgSv.ant] /\ dgSv'.at = a /\ dgSv'.ant = dgSv.ant
           /\ dgSv' = [at |-> dgSv'.at, buf |-> dgSv'.buf, ant |-> dgSv'.ant]
<1>1. PICK x, y, z : dgSv = [at |-> x, buf |-> y, ant |-> z]
  BY DEF DgType
<1>2. dgSv' = [at |-> a, buf |-> y, ant |-> z]
  BY <1>1
<1>3. QED
  BY <1>1, <1>2

\* The user starts one of the programs, which binds its socket.
LEMMA DgBind == ASSUME DgInv, Choose \/ Bind PROVE DgInv'
<1> USE DEF DgInv
<1>1. CASE Choose
  <2>1. dprog = "none" /\ UNCHANGED <<dgSv, inbox, dgCl, answers, lost, copied>>
    BY <1>1 DEF Choose
  <2>2. /\ dgSv.at = "new" /\ dgSv.ant = -1 /\ inbox = <<>> /\ copied \in Nat /\ ~(copied > 0)
        /\ \A c \in Clients : answers[c] = <<>> /\ dgCl[c].at = "new" /\ dgCl[c].sent = 0 /\ dgCl[c].got = <<>>
    BY <2>1 DEF DgPrograms, UDP, DgType
  <2>3. DgType'
    BY <2>1 DEF DgType
  <2>4. DgPrograms' /\ OnItsWay' /\ Counting' /\ KilledOne'
    BY <2>1, <2>2, SMTT(60) DEF DgPrograms, OnItsWay, Counting, KilledOne
  <2>5. Single' /\ Content' /\ Shown'
    BY <2>1, <2>2, SMTT(60) DEF Single, Content, Shown, SingleOf, ContentOf, ShownOf, InBox, AtServer, Answered
  <2>6. QED
    BY <2>3, <2>4, <2>5
<1>2. CASE Bind
  <2>1. /\ dprog # "none" /\ dgSv.at = "new" /\ UNCHANGED <<dprog, inbox, dgCl, answers, lost, copied>>
        /\ dgSv' = [dgSv EXCEPT !.at = "recv"]
    BY <1>2 DEF Bind
  <2>2. /\ dgSv' = [at |-> "recv", buf |-> dgSv.buf, ant |-> dgSv.ant] /\ dgSv'.at = "recv" /\ dgSv'.ant = dgSv.ant
        /\ dgSv' = [at |-> dgSv'.at, buf |-> dgSv'.buf, ant |-> dgSv'.ant]
    BY <2>1 DEF DgType
  <2>3. DgType'
    BY <2>1, <2>2, SMTT(60) DEF DgType
  <2>4. DgPrograms' /\ KilledOne'
    BY <2>1, <2>2, SMTT(60) DEF DgPrograms, KilledOne, UDP
  <2>5. OnItsWay'
    BY <2>1, <2>2 DEF OnItsWay, InBox, AtServer, Answered
  <2>6. Counting'
    BY <2>1, <2>2, SMTT(60) DEF Counting, OneSender
  <2>7. Single /\ Content /\ Shown => Single' /\ Content' /\ Shown'
    <3>1. \A c \in Clients : ~AtServer(c)' /\ (InBox(c)' <=> InBox(c))
      BY <2>1, <2>2 DEF AtServer, InBox
    <3>2. QED
      BY <2>1, <3>1, DgKeepContent, DgKeepSingle, Zenon DEF Single, Content, Shown
  <2>8. QED
    BY <2>1, <2>3, <2>4, <2>5, <2>6, <2>7
<1>3. QED
  BY <1>1, <1>2

\* The server reads a request.
LEMMA DgRecvfrom == ASSUME DgInv, Recvfrom PROVE DgInv'
<1> USE DEF DgInv
<1>1. /\ dgSv.at = "recv" /\ inbox # <<>> /\ dprog # "reliability" /\ inbox' = Tail(inbox)
      /\ dgSv' = [dgSv EXCEPT !.at = "send", !.buf = [Head(inbox) EXCEPT !.len = Cut(@)]]
      /\ UNCHANGED <<dprog, dgCl, answers, lost, copied>>
  BY DEF Recvfrom
<1>2. inbox \in Seq(Datagram)
  BY DEF DgType
<1>3. /\ inbox' \in Seq(Datagram) /\ Head(inbox) = inbox[1] /\ inbox[1] \in Datagram
      /\ Len(inbox) \in Nat \ {0} /\ Len(inbox') = Len(inbox) - 1
      /\ \A i \in 1..Len(inbox') : i + 1 \in 1..Len(inbox) /\ inbox'[i] = inbox[i + 1]
      /\ \A c \in Clients : InBox(c) <=> InBox(c)' \/ c = inbox[1].from
      /\ \A c \in Clients : Single /\ c = inbox[1].from => ~InBox(c)'
  BY <1>1, <1>2, DgPop, SMTT(60)
<1>4. PICK b \in Datagram : /\ b = [inbox[1] EXCEPT !.len = Cut(@)]
                            /\ b.from = inbox[1].from /\ b.no = inbox[1].no /\ b.len = Cut(inbox[1].len)
  <2>1. PICK f \in Clients, n \in Nat, l \in Nat : inbox[1] = [from |-> f, no |-> n, len |-> l]
    BY <1>3, SMTT(60) DEF Datagram
  <2>2. PICK m \in Nat : m = Cut(l)
    BY CutOnce
  <2>3. [inbox[1] EXCEPT !.len = Cut(@)] = [from |-> f, no |-> n, len |-> m]
    BY <2>1, <2>2
  <2>4. QED
    BY <2>1, <2>2, <2>3 DEF Datagram
<1>5. /\ dgSv' = [at |-> "send", buf |-> b, ant |-> dgSv.ant] /\ dgSv'.at = "send" /\ dgSv'.buf = b
      /\ dgSv'.ant = dgSv.ant /\ dgSv' = [at |-> dgSv'.at, buf |-> dgSv'.buf, ant |-> dgSv'.ant]
  <2>1. PICK x, y, z : dgSv = [at |-> x, buf |-> y, ant |-> z]
    BY DEF DgType
  <2>2. [Head(inbox) EXCEPT !.len = Cut(@)] = b
    BY <1>3, <1>4
  <2>3. dgSv' = [dgSv EXCEPT !.at = "send", !.buf = b]
    BY <1>1, <2>2, Zenon
  <2>4. dgSv' = [at |-> "send", buf |-> b, ant |-> z]
    BY <2>1, <2>3, SvRecord, Zenon
  <2>5. QED
    BY <2>1, <2>4
<1>6. DgType'
  <2>1. dgSv.ant \in Int /\ (dgCl \in [Clients -> [at : DgPCs, args : Seq(Nat), sent : Nat, got : Seq(Answer)]])'
        /\ (answers \in [Clients -> Seq(Answer)] /\ lost \in Nat /\ copied \in Nat)'
    BY <1>1 DEF DgType
  <2>2. QED
    BY <1>3, <1>5, <2>1, SMTT(60) DEF DgType
<1>7. DgPrograms' /\ KilledOne' /\ Counting'
  BY <1>1, <1>5, SMTT(60) DEF DgPrograms, KilledOne, Counting, UDP
<1>8. \A c \in Clients : (AtServer(c)' <=> c = inbox[1].from) /\ ~AtServer(c)
  BY <1>1, <1>4, <1>5, Zenon DEF AtServer
<1>9. OnItsWay'
  BY <1>1, <1>3, <1>5, <1>8, SMTT(60) DEF OnItsWay, Answered
<1>10. \A c \in Clients : c # inbox[1].from =>
          /\ SingleOf(c) => SingleOf(c)'
          /\ ContentOf(c) => ContentOf(c)'
  <2> SUFFICES ASSUME NEW c \in Clients, c # inbox[1].from
               PROVE  (SingleOf(c) => SingleOf(c)') /\ (ContentOf(c) => ContentOf(c)')
    OBVIOUS
  <2>1. \A i \in 1..Len(inbox') : \E j \in 1..Len(inbox) : inbox[j] = inbox'[i]
    BY <1>3, SMTT(60)
  <2>2. QED
    BY <1>1, <1>3, <1>8, <2>1, DgKeepContent, DgKeepSingle, Zenon DEF Answered
<1>11. \A c \in Clients : ShownOf(c) => ShownOf(c)'
  BY <1>1, ZenonT(60) DEF ShownOf, Reply1, Cut
<1>12. ASSUME Single, Content, Shown PROVE Single' /\ Content' /\ Shown'
  <2>1. PICK c \in Clients : c = inbox[1].from
    BY <1>3, SMTT(60) DEF Datagram
  <2>2. 1 \in 1..Len(inbox) /\ InBox(c) /\ ~InBox(c)' /\ AtServer(c)'
    BY <1>3, <1>8, <1>12, <2>1
  <2>3. SingleOf(c) /\ ContentOf(c)
    BY <1>12, Zenon DEF Single, Content
  <2>4. (Answered(c)' <=> Answered(c)) /\ ~Answered(c)
    BY <1>1, <2>2, <2>3, Zenon DEF Answered, SingleOf
  <2>5. SingleOf(c)'
    BY <1>1, <2>2, <2>3, <2>4, Zenon DEF SingleOf
  <2>6. b.no = dgCl[c].sent /\ b.len = Cut(dgCl[c].args[dgCl[c].sent])
    BY <1>4, <2>1, <2>2, <2>3, Zenon DEF ContentOf
  <2>7. ContentOf(c)'
    BY <1>1, <1>5, <2>2, <2>4, <2>6, Zenon DEF ContentOf, InBox, Cut
  <2>8. \A i, j \in 1..Len(inbox') : inbox'[i].from = inbox'[j].from => i = j
    BY <1>3, <1>12, SMTT(60) DEF Single
  <2>9. QED
    BY <1>10, <1>11, <1>12, <2>1, <2>5, <2>7, <2>8, Zenon DEF Single, Content, Shown
<1>13. QED
  BY <1>1, <1>6, <1>7, <1>9, <1>12

\* The server answers the client it has read from.
LEMMA DgReply ==
    ASSUME DgInv, NEW text, NEW end, Reply(text, end),
           text = [len |-> dgSv.buf.len, no |-> dgSv.buf.no, upper |-> dprog # "id_echo"],
           dprog \in {"ud_ucase", "i6d_ucase", "id_echo"}, end = IF dprog = "id_echo" THEN "recv" ELSE "ended"
    PROVE  DgInv'
<1> USE DEF DgInv
<1>1. dgSv.at = "send" /\ UNCHANGED <<dprog, inbox, dgCl, copied>> /\ dgSv.buf \in Datagram
  BY DEF Reply, DgType
<1>2. PICK c \in Clients : c = dgSv.buf.from
  BY <1>1, SMTT(60) DEF Datagram
<1>3. text \in Answer
  <2>1. dgSv.buf.len \in Nat /\ dgSv.buf.no \in Nat
    BY <1>1, SMTT(60) DEF Datagram
  <2>2. QED
    BY <2>1, Zenon DEF Answer
<1>4. answers \in [Clients -> Seq(Answer)] /\ answers[c] \in Seq(Answer) /\ lost \in Nat
  BY SMTT(60) DEF DgType
<1>5. CASE /\ SocketOpen(c) /\ dgSv' = [dgSv EXCEPT !.at = "recv"]
           /\ answers' = [answers EXCEPT ![c] = IF Len(@) < QLEN THEN Append(@, text) ELSE @]
           /\ lost' = IF Len(answers[c]) < QLEN THEN lost ELSE lost + 1
  <2>1. dgSv' = [at |-> "recv", buf |-> dgSv.buf, ant |-> dgSv.ant] /\ dgSv'.at = "recv" /\ dgSv'.ant = dgSv.ant
        /\ dgSv' = [at |-> dgSv'.at, buf |-> dgSv'.buf, ant |-> dgSv'.ant]
    BY <1>5, SvAt
  <2>2. /\ answers' \in [Clients -> Seq(Answer)] /\ lost' \in Nat
        /\ \A d \in Clients \ {c} : answers'[d] = answers[d]
        /\ \/ lost' = lost /\ answers'[c] = Append(answers[c], text)
           \/ lost' > 0 /\ answers'[c] = answers[c]
        /\ lost' = 0 => lost = 0
    BY <1>3, <1>4, <1>5, SMTT(60)
  <2>3. Append(answers[c], text) # <<>>
    BY <1>3, <1>4, SMTT(60)
  <2>4. DgType'
    <3>1. dgSv.ant \in Int /\ (dgCl \in [Clients -> [at : DgPCs, args : Seq(Nat), sent : Nat, got : Seq(Answer)]])'
          /\ (inbox \in Seq(Datagram) /\ copied \in Nat)'
      BY <1>1, SMTT(60) DEF DgType
    <3>2. QED
      BY <2>1, <2>2, <3>1, SMTT(60) DEF DgType
  <2>5. DgPrograms' /\ KilledOne' /\ Counting'
    BY <1>1, <2>1, SMTT(60) DEF DgPrograms, KilledOne, Counting, UDP
  <2>6. OnItsWay'
    <3> SUFFICES ASSUME NEW d \in Clients, dgCl[d].at = "recv", lost' = 0 PROVE InBox(d)' \/ Answered(d)'
      BY <1>1, Zenon DEF OnItsWay
    <3>1. CASE d = c
      BY <2>2, <2>3, <3>1, SMTT(60) DEF Answered
    <3>2. CASE d # c
      BY <1>1, <1>2, <2>2, <3>2, Zenon DEF OnItsWay, InBox, Answered, AtServer
    <3>3. QED
      BY <3>1, <3>2, SMTT(60)
  <2>7. \A d \in Clients : ~AtServer(d)' /\ (InBox(d)' <=> InBox(d))
    BY <1>1, <2>1, SMTT(60) DEF AtServer, InBox
  <2>8. \A d \in Clients : d # c => (SingleOf(d) => SingleOf(d)') /\ (ContentOf(d) => ContentOf(d)')
    BY <1>1, <2>2, <2>7, DgKeepContent, DgKeepSingle, Zenon
  <2>9. \A d \in Clients : ShownOf(d) => ShownOf(d)'
    BY <1>1, ZenonT(60) DEF ShownOf, Reply1, Cut
  <2>10. ASSUME Single, Content, Shown PROVE Single' /\ Content' /\ Shown'
    <3>1. answers[c] = <<>> /\ ~InBox(c) /\ dgCl[c].at = "recv" /\ ContentOf(c)
      BY <1>1, <1>2, <1>5, <2>10, SMTT(60) DEF Single, SingleOf, Content, AtServer, Answered, SocketOpen
    <3>2. Len(answers'[c]) <= 1 /\ (Answered(c)' => answers'[c][1] = text)
      <4>1. Len(Append(answers[c], text)) = 1 /\ Append(answers[c], text)[1] = text /\ Len(answers[c]) = 0
        BY <1>3, <1>4, <3>1, SMTT(60)
      <4>2. PICK q : q = answers'[c] /\ (q = Append(answers[c], text) \/ q = answers[c])
        BY <2>2, Zenon
      <4>3. (Len(q) = 1 /\ q[1] = text) \/ (Len(q) = 0 /\ q = <<>>)
        BY <3>1, <4>1, <4>2, Zenon
      <4>4. PICK n : n = Len(q) /\ (n = 0 \/ n = 1)
        BY <4>3, Zenon
      <4>5. n <= 1
        BY <4>4, SMTT(60)
      <4>6. QED
        BY <4>2, <4>3, <4>4, <4>5, Zenon DEF Answered
    <3>3. SingleOf(c)'
      BY <1>1, <2>7, <3>1, <3>2, Zenon DEF SingleOf
    <3>4. text = Reply1(c, dgCl[c].sent)
      BY <1>1, <1>2, <3>1, Zenon DEF ContentOf, Reply1, AtServer
    <3>5. ContentOf(c)'
      BY <1>1, <2>7, <3>1, <3>2, <3>4, ZenonT(60) DEF ContentOf, InBox, Reply1, Cut
    <3>6. QED
      BY <1>1, <2>8, <2>9, <2>10, <3>3, <3>5, Zenon DEF Single, Content, Shown
  <2>11. QED
    BY <1>1, <2>4, <2>5, <2>6, <2>10, SMTT(60)
<1>6. CASE ~SocketOpen(c) /\ dgSv' = [dgSv EXCEPT !.at = IF UDP THEN "recv" ELSE end] /\ UNCHANGED <<answers, lost>>
  <2>1. PICK a : a = (IF UDP THEN "recv" ELSE end) /\ a \in {"recv", "ended"} /\ (a = "ended" => dprog = "ud_ucase")
    BY SMTT(60) DEF UDP
  <2>2. dgSv' = [at |-> a, buf |-> dgSv.buf, ant |-> dgSv.ant] /\ dgSv'.at = a /\ dgSv'.ant = dgSv.ant
        /\ dgSv' = [at |-> dgSv'.at, buf |-> dgSv'.buf, ant |-> dgSv'.ant]
    BY <1>6, <2>1, SvAt, SMTT(60)
  <2>3. DgType'
    <3>1. dgSv.ant \in Int /\ (dgCl \in [Clients -> [at : DgPCs, args : Seq(Nat), sent : Nat, got : Seq(Answer)]])'
          /\ (inbox \in Seq(Datagram) /\ copied \in Nat /\ lost \in Nat /\ answers \in [Clients -> Seq(Answer)])'
      BY <1>1, <1>6, SMTT(60) DEF DgType
    <3>2. QED
      BY <2>1, <2>2, <3>1, SMTT(60) DEF DgType
  <2>4. DgPrograms' /\ Counting'
    BY <1>1, <1>6, <2>1, <2>2, SMTT(60) DEF DgPrograms, Counting, UDP
  <2>5. KilledOne'
    <3>1. dprog = "ud_ucase" => copied = 0
      BY SMTT(60) DEF DgPrograms, DgType, UDP
    <3>2. dprog = "ud_ucase" => dgCl[c].at = "killed"
      BY <1>1, <1>2, <1>6, <3>1, SMTT(60) DEF Single, SingleOf, AtServer, SocketOpen
    <3>3. QED
      BY <1>1, <3>2, SMTT(60) DEF KilledOne
  <2>6. OnItsWay'
    BY <1>1, <1>2, <1>6, <2>1, <2>2, SMTT(60) DEF OnItsWay, InBox, Answered, AtServer, SocketOpen
  <2>7. dgSv'.at # "send"
    BY <2>1, <2>2, SMTT(60)
  <2>8. \A d \in Clients : ~AtServer(d)' /\ (InBox(d)' <=> InBox(d))
    BY <1>1, <2>7, SMTT(60) DEF AtServer, InBox
  <2>9. \A d \in Clients :
          (SingleOf(d) => SingleOf(d)') /\ (ContentOf(d) => ContentOf(d)') /\ (ShownOf(d) => ShownOf(d)')
    BY <1>1, <1>6, <2>8, DgKeepContent, DgKeepSingle, Zenon
  <2>10. Single /\ Content /\ Shown => Single' /\ Content' /\ Shown'
    BY <1>1, <2>9, Zenon DEF Single, Content, Shown
  <2>11. QED
    BY <1>1, <2>3, <2>4, <2>5, <2>6, <2>10, SMTT(60)
<1>7. QED
  BY <1>2, <1>5, <1>6, Zenon DEF Reply

\* The receiver of udp-reliability/ counts with its only sender.
LEMMA DgReliability == ASSUME DgInv, reliability_server, ~Bind PROVE DgInv'
<1> USE DEF DgInv
<1>1. /\ dprog = "reliability" /\ dgSv.at = "recv" /\ inbox # <<>> /\ inbox' = Tail(inbox)
      /\ dgSv' = IF Head(inbox).no - 1 # dgSv.ant + 1 THEN [dgSv EXCEPT !.at = "ended"]
                 ELSE [dgSv EXCEPT !.ant = Head(inbox).no - 1]
      /\ UNCHANGED <<dprog, dgCl, answers, lost, copied>>
  BY DEF reliability_server
<1>2. inbox \in Seq(Datagram)
  BY DEF DgType
<1>3. /\ inbox' \in Seq(Datagram) /\ Head(inbox) = inbox[1] /\ inbox[1] \in Datagram
      /\ Len(inbox) \in Nat \ {0} /\ Len(inbox') = Len(inbox) - 1
      /\ \A i \in 1..Len(inbox') : i + 1 \in 1..Len(inbox) /\ inbox'[i] = inbox[i + 1]
  BY <1>1, <1>2, DgPop
<1>4. PICK n \in Nat : n = inbox[1].no
  BY <1>3 DEF Datagram
<1>5. /\ dgSv' = [at |-> dgSv'.at, buf |-> dgSv.buf, ant |-> dgSv'.ant] /\ dgSv.ant \in Int
      /\ dgSv'.at \in {"recv", "ended"} /\ dgSv'.ant \in Int
      /\ n - 1 = dgSv.ant + 1 => dgSv'.at = "recv" /\ dgSv'.ant = n - 1
  <2>1. dgSv = [at |-> dgSv.at, buf |-> dgSv.buf, ant |-> dgSv.ant] /\ dgSv.ant \in Int
    BY DEF DgType
  <2>2. CASE n - 1 # dgSv.ant + 1
    <3>1. dgSv' = [dgSv EXCEPT !.at = "ended"]
      BY <1>1, <1>3, <1>4, <2>2
    <3>2. QED
      BY <2>1, <2>2, <3>1
  <2>3. CASE n - 1 = dgSv.ant + 1
    <3>1. dgSv' = [dgSv EXCEPT !.ant = n - 1]
      BY <1>1, <1>3, <1>4, <2>3, SMTT(60)
    <3>2. QED
      BY <1>1, <2>1, <2>3, <3>1, SMTT(60)
  <2>4. QED
    BY <2>2, <2>3
<1>6. DgType'
  <2>1. (dgCl \in [Clients -> [at : DgPCs, args : Seq(Nat), sent : Nat, got : Seq(Answer)]])'
        /\ (answers \in [Clients -> Seq(Answer)] /\ lost \in Nat /\ copied \in Nat)'
    BY <1>1, SMTT(60) DEF DgType
  <2>2. dgSv' = [at |-> dgSv'.at, buf |-> dgSv'.buf, ant |-> dgSv'.ant]
    BY <1>5
  <2>3. QED
    BY <1>3, <1>5, <2>1, <2>2, SMTT(60) DEF DgType
<1>7. DgPrograms' /\ KilledOne' /\ OnItsWay'
  BY <1>1, <1>5, SMTT(60) DEF DgPrograms, KilledOne, OnItsWay, UDP
<1>8. Counting'
  <2> SUFFICES ASSUME OneSender'
               PROVE  /\ dgSv'.at # "ended"
                      /\ \A i \in 1..Len(inbox') : inbox'[i].no = dgSv'.ant + 1 + i
                      /\ \A c \in Clients : dgCl[c].sent > 0 => dgCl[c].sent = dgSv'.ant + 1 + Len(inbox')
                      /\ ~ \A c \in Clients : dgCl[c].sent = 0
    BY <1>1 DEF Counting
  <2>1. OneSender /\ 1 \in 1..Len(inbox)
    BY <1>1, <1>3 DEF OneSender
  <2>2. n = dgSv.ant + 1 + 1
    BY <1>1, <1>4, <2>1 DEF Counting
  <2>3. dgSv'.at = "recv" /\ dgSv'.ant = dgSv.ant + 1
    BY <1>5, <2>2
  <2>4. ASSUME NEW i \in 1..Len(inbox') PROVE inbox'[i].no = dgSv'.ant + 1 + i
    <3>1. i + 1 \in 1..Len(inbox) /\ inbox'[i] = inbox[i + 1]
      BY <1>3, SMTT(60)
    <3>2. inbox[i + 1].no = dgSv.ant + 1 + (i + 1)
      BY <1>1, <2>1, <3>1 DEF Counting
    <3>3. \A m, k \in Int : m + 1 + (k + 1) = (m + 1) + 1 + k
      OBVIOUS
    <3>4. i \in Int /\ dgSv.ant \in Int
      BY <1>5, SMTT(60)
    <3>5. QED
      BY <2>3, <3>1, <3>2, <3>3, <3>4, ZenonT(60)
  <2>5. ASSUME NEW c \in Clients, dgCl[c].sent > 0 PROVE dgCl[c].sent = dgSv'.ant + 1 + Len(inbox')
    <3>1. dgCl[c].sent = dgSv.ant + 1 + Len(inbox)
      BY <1>1, <2>1, <2>5 DEF Counting
    <3>2. QED
      BY <1>3, <1>5, <2>3, <3>1, SMTT(60)
  <2>6. ~ \A c \in Clients : dgCl[c].sent = 0
    BY <1>1, <2>1 DEF Counting
  <2>7. QED
    BY <2>3, <2>4, <2>5, <2>6
<1>9. QED
  BY <1>1, <1>6, <1>7, <1>8

\* A client moves on.
LEMMA DgMove ==
    ASSUME NEW c \in Clients, NEW a \in DgPCs, dgCl' = [dgCl EXCEPT ![c].at = a],
           dgCl \in [Clients -> [at : DgPCs, args : Seq(Nat), sent : Nat, got : Seq(Answer)]]
    PROVE  /\ dgCl' \in [Clients -> [at : DgPCs, args : Seq(Nat), sent : Nat, got : Seq(Answer)]]
           /\ dgCl'[c].at = a
           /\ \A d \in Clients : /\ dgCl'[d].args = dgCl[d].args /\ dgCl'[d].sent = dgCl[d].sent
                                 /\ dgCl'[d].got = dgCl[d].got
                                 /\ d # c => dgCl'[d].at = dgCl[d].at
  OBVIOUS

\* A client gets its arguments ...
LEMMA DgArgs ==
    ASSUME NEW c \in Clients, NEW a \in DgPCs, NEW m \in Seq(Nat),
           dgCl' = [dgCl EXCEPT ![c].at = a, ![c].args = m],
           dgCl \in [Clients -> [at : DgPCs, args : Seq(Nat), sent : Nat, got : Seq(Answer)]]
    PROVE  /\ dgCl' \in [Clients -> [at : DgPCs, args : Seq(Nat), sent : Nat, got : Seq(Answer)]]
           /\ dgCl'[c].at = a /\ dgCl'[c].args = m /\ dgCl'[c].sent = dgCl[c].sent /\ dgCl'[c].got = dgCl[c].got
           /\ \A d \in Clients : d # c => dgCl'[d] = dgCl[d]
  BY ZenonT(60)

\* ... sends one of them ...
LEMMA DgSent ==
    ASSUME NEW c \in Clients, NEW a \in DgPCs,
           dgCl' = [dgCl EXCEPT ![c].at = a, ![c].sent = @ + 1],
           dgCl \in [Clients -> [at : DgPCs, args : Seq(Nat), sent : Nat, got : Seq(Answer)]]
    PROVE  /\ dgCl' \in [Clients -> [at : DgPCs, args : Seq(Nat), sent : Nat, got : Seq(Answer)]]
           /\ dgCl'[c].at = a /\ dgCl'[c].args = dgCl[c].args 
           /\ dgCl'[c].sent = dgCl[c].sent + 1 /\ dgCl'[c].got = dgCl[c].got
           /\ \A d \in Clients : d # c => dgCl'[d] = dgCl[d]
  BY SMTT(60)

\* ... and gets an answer.
LEMMA DgGot ==
    ASSUME NEW c \in Clients, NEW a \in DgPCs, NEW t \in Answer,
           dgCl' = [dgCl EXCEPT ![c].at = a, ![c].got = Append(@, t)],
           dgCl \in [Clients -> [at : DgPCs, args : Seq(Nat), sent : Nat, got : Seq(Answer)]]
    PROVE  /\ dgCl' \in [Clients -> [at : DgPCs, args : Seq(Nat), sent : Nat, got : Seq(Answer)]]
           /\ dgCl'[c].at = a /\ dgCl'[c].args = dgCl[c].args 
           /\ dgCl'[c].sent = dgCl[c].sent /\ dgCl'[c].got = Append(dgCl[c].got, t)
           /\ \A d \in Clients : d # c => dgCl'[d] = dgCl[d]
  BY SMTT(60)

\* A client that leaves takes nothing with it but the answers it has not read.
LEMMA DgLeave ==
    ASSUME DgInv, NEW c \in Clients, NEW a \in {"ended", "killed"}, dgCl[c].at \in {"send", "recv"},
           dgCl' = [dgCl EXCEPT ![c].at = a], UNCHANGED <<dprog, dgSv, inbox, lost, copied>>,
           answers' \in [Clients -> Seq(Answer)], \A d \in Clients \ {c} : answers'[d] = answers[d],
           Answered(c)' => answers'[c] = answers[c],
           Single => answers'[c] = <<>> /\ (a = "killed" \/ (~InBox(c) /\ ~AtServer(c)))
    PROVE  DgInv'
<1> USE DEF DgInv
<1>1. /\ dgCl \in [Clients -> [at : DgPCs, args : Seq(Nat), sent : Nat, got : Seq(Answer)]]
      /\ answers \in [Clients -> Seq(Answer)]
  BY SMTT(60) DEF DgType
<1>2. /\ dgCl' \in [Clients -> [at : DgPCs, args : Seq(Nat), sent : Nat, got : Seq(Answer)]]
      /\ dgCl'[c].at = a
      /\ \A d \in Clients : /\ dgCl'[d].args = dgCl[d].args /\ dgCl'[d].sent = dgCl[d].sent
                            /\ dgCl'[d].got = dgCl[d].got
                            /\ d # c => dgCl'[d].at = dgCl[d].at
  <2>1. a \in DgPCs
    BY SMTT(60) DEF DgPCs
  <2>2. QED
    BY <1>1, <2>1, DgMove, Zenon
<1>3. /\ answers' \in [Clients -> Seq(Answer)] /\ \A d \in Clients \ {c} : answers'[d] = answers[d]
      /\ answers[c] = <<>> => answers'[c] = <<>>
      /\ \A d \in Clients : Answered(d)' => answers'[d] = answers[d]
  BY <1>1, Zenon DEF Answered
<1>4. DgType'
  <2>1. /\ dgSv = [at |-> dgSv.at, buf |-> dgSv.buf, ant |-> dgSv.ant]
        /\ dgSv.at \in {"new", "recv", "send", "ended"} /\ dgSv.ant \in Int
        /\ dgSv.at = "send" => dgSv.buf \in Datagram
        /\ inbox \in Seq(Datagram) /\ lost \in Nat /\ copied \in Nat
    BY SMTT(60) DEF DgType
  <2>2. QED
    BY <1>2, <1>3, <2>1, Zenon DEF DgType
<1>5. a # "recv" /\ a # "send" /\ a # "new" /\ dgCl[c].at # "new" /\ dgCl[c].at # "killed"
  BY SMTT(60)
<1>6. DgPrograms'
  BY <1>2, <1>3, <1>5, ZenonT(60) DEF DgPrograms, UDP
<1>7. OnItsWay'
  <2>1. \A d \in Clients : dgCl'[d].at = "recv" => d # c /\ dgCl[d].at = "recv" /\ answers'[d] = answers[d]
    BY <1>2, <1>3, <1>5, SMTT(60)
  <2>2. QED
    BY <2>1, ZenonT(60) DEF OnItsWay, InBox, AtServer, Answered
<1>8. Counting'
  BY <1>2, ZenonT(60) DEF Counting, OneSender
<1>9. KilledOne'
  <2>1. \A d \in Clients : dgCl[d].at = "killed" => dgCl'[d].at = "killed"
    BY <1>2, <1>5, ZenonT(60)
  <2>2. QED
    BY <2>1, Zenon DEF KilledOne
<1>10. \A d \in Clients : (InBox(d)' <=> InBox(d)) /\ (AtServer(d)' <=> AtServer(d))
  BY Zenon DEF InBox, AtServer
<1>11. \A d \in Clients : d # c => (SingleOf(d) => SingleOf(d)')
  BY <1>2, <1>3, <1>10, DgKeepSingle, Zenon
<1>12. \A d \in Clients : (ContentOf(d) => ContentOf(d)') /\ (ShownOf(d) => ShownOf(d)')
  <2>1. \A d \in Clients : dgCl'[d].at \in {dgCl[d].at, "ended", "killed"}
    BY <1>2, SMTT(60)
  <2>2. QED
    BY <1>2, <1>3, <1>10, <2>1, DgKeepContent, ZenonT(60)
<1>13. ASSUME Single, Content, Shown PROVE Single' /\ Content' /\ Shown'
  <2>1. answers'[c] = <<>> /\ Len(answers'[c]) <= 1 /\ ~Answered(c)' /\ SingleOf(c) /\ ContentOf(c)
    BY <1>13, SMTT(60) DEF Answered, Single, Content
  <2>2. SingleOf(c)'
    BY <1>2, <1>10, <1>13, <2>1, Zenon DEF SingleOf
  <2>3. QED
    BY <1>11, <1>12, <1>13, <2>2, Zenon DEF Single, Content, Shown
<1>14. QED
  BY <1>4, <1>6, <1>7, <1>8, <1>9, <1>13

\* exit(), an error, ICMP port unreachable, and the signal that kills a client.
LEMMA DgEnd ==
    ASSUME DgInv, NEW c \in Clients,
           \/ Exit(c) \/ Refused(c) \/ Kill(c)
           \/ SendTo(c, "recv") /\ dgCl' = [dgCl EXCEPT ![c].at = "ended"] /\ UNCHANGED <<inbox, lost>>
    PROVE  DgInv'
<1>0. DgType /\ DgPrograms
  BY DEF DgInv
<1>1. answers \in [Clients -> Seq(Answer)] /\ <<>> \in Seq(Answer)
  BY <1>0, SMTT(60) DEF DgType
<1>2. ASSUME answers' = [answers EXCEPT ![c] = <<>>]
      PROVE  answers' \in [Clients -> Seq(Answer)] /\ answers'[c] = <<>>
             /\ (\A d \in Clients \ {c} : answers'[d] = answers[d]) /\ ~Answered(c)'
  BY <1>1, <1>2, SMTT(60) DEF Answered
<1>3. Single /\ dgCl[c].at = "send" => ~InBox(c) /\ ~AtServer(c) /\ answers[c] = <<>>
  BY SMTT(60) DEF Single, SingleOf, Answered
<1> DEFINE Gone(a) == /\ a \in {"ended", "killed"} /\ dgCl[c].at \in {"send", "recv"}
                      /\ dgCl' = [dgCl EXCEPT ![c].at = a] /\ UNCHANGED <<dprog, dgSv, inbox, lost, copied>>
                      /\ answers' \in [Clients -> Seq(Answer)] /\ \A d \in Clients \ {c} : answers'[d] = answers[d]
                      /\ Answered(c)' => answers'[c] = answers[c]
                      /\ Single => answers'[c] = <<>> /\ (a = "killed" \/ (~InBox(c) /\ ~AtServer(c)))
<1>l. ASSUME NEW a, Gone(a) PROVE DgInv'
  BY <1>l, DgLeave, Zenon
<1> HIDE DEF Gone
<1>4. CASE Exit(c)
  <2>1. Gone("ended")
    BY <1>2, <1>3, <1>4, SMTT(60) DEF Exit, Gone
  <2>2. QED
    BY <1>l, <2>1
<1>5. CASE Kill(c)
  <2>1. Gone("killed")
    BY <1>2, <1>5 DEF Kill, SocketOpen, Gone
  <2>2. QED
    BY <1>l, <2>1
<1>6. CASE Refused(c)
  <2>1. dgSv.at = "new" /\ inbox = <<>> /\ answers[c] = <<>>
    BY <1>0, <1>6, SMTT(60) DEF Refused, Bound, DgType, DgPrograms
  <2>2. ~InBox(c) /\ ~AtServer(c)
    BY <2>1 DEF InBox, AtServer
  <2>3. Gone("ended")
    BY <1>1, <1>6, <2>1, <2>2, SMTT(60) DEF Refused, Answered, Gone
  <2>4. QED
    BY <1>l, <2>3
<1>7. CASE SendTo(c, "recv") /\ dgCl' = [dgCl EXCEPT ![c].at = "ended"] /\ UNCHANGED <<inbox, lost>>
  <2>1. Gone("ended")
    BY <1>1, <1>3, <1>7, SMTT(60) DEF SendTo, Answered, Gone
  <2>2. QED
    BY <1>l, <2>1
<1>8. QED
  BY <1>4, <1>5, <1>6, <1>7

\* A client starts with its arguments.
LEMMA DgStart == ASSUME DgInv, NEW c \in Clients, Start(c) PROVE DgInv'
<1> USE DEF DgInv
<1>1. PICK m \in Messages : dgCl' = [dgCl EXCEPT ![c].at = "send", ![c].args = m]
  BY Zenon DEF Start
<1>2. /\ dprog # "none" /\ dgCl[c].at = "new" /\ UNCHANGED <<dprog, dgSv, inbox, answers, lost, copied>>
      /\ m \in Seq(Nat) /\ dgCl \in [Clients -> [at : DgPCs, args : Seq(Nat), sent : Nat, got : Seq(Answer)]]
  BY DatagramsAssumption, SMTT(60) DEF Start, DgType
<1>3. /\ dgCl' \in [Clients -> [at : DgPCs, args : Seq(Nat), sent : Nat, got : Seq(Answer)]]
      /\ dgCl'[c].at = "send" /\ dgCl'[c].args = m /\ dgCl'[c].sent = dgCl[c].sent /\ dgCl'[c].got = dgCl[c].got
      /\ \A d \in Clients : d # c => dgCl'[d] = dgCl[d]
  <2>1. "send" \in DgPCs
    BY SMTT(60) DEF DgPCs
  <2>2. QED
    BY <1>1, <1>2, <2>1, DgArgs, Zenon
<1>4. dgCl[c].sent = 0 /\ dgCl[c].got = <<>> /\ 0 <= Len(m)
  BY <1>2, SMTT(60) DEF DgPrograms
<1>5. \A d \in Clients : dgCl'[d].sent = dgCl[d].sent
  BY <1>3, Zenon
<1>6. DgType'
  BY <1>2, <1>3, Zenon DEF DgType
<1>7. DgPrograms'
  <2>1. \A d \in Clients : /\ dgCl'[d].at = "new" => dgCl'[d].sent = 0 /\ dgCl'[d].got = <<>>
                           /\ dgCl'[d].sent <= Len(dgCl'[d].args)
    BY <1>3, <1>4, SMTT(60) DEF DgPrograms
  <2>2. \A d \in Clients : (dgCl'[d].at = "recv" => dgCl[d].at = "recv") /\ dgCl'[d].got = dgCl[d].got
    BY <1>3, Zenon
  <2>3. QED
    BY <1>2, <2>1, <2>2, ZenonT(60) DEF DgPrograms, UDP
<1>8. \A d \in Clients : dgCl'[d].at \in {"recv", "killed"} => dgCl'[d] = dgCl[d]
  BY <1>3, SMTT(60)
<1>9. OnItsWay'
  BY <1>2, <1>8, Zenon DEF OnItsWay, InBox, AtServer, Answered
<1>10. Counting'
  BY <1>2, <1>5, ZenonT(60) DEF Counting, OneSender
<1>11. KilledOne'
  <2>1. \A d \in Clients : dgCl[d].at = "killed" => dgCl'[d].at = "killed"
    BY <1>2, <1>3, Zenon
  <2>2. QED
    BY <1>2, <2>1, Zenon DEF KilledOne
<1>12. \A d \in Clients : (InBox(d)' <=> InBox(d)) /\ (AtServer(d)' <=> AtServer(d)) /\ (Answered(d)' <=> Answered(d))
  BY <1>2, Zenon DEF InBox, AtServer, Answered
<1>13. \A d \in Clients : d # c => (SingleOf(d) => SingleOf(d)') /\ (ContentOf(d) => ContentOf(d)') /\ (ShownOf(d) => ShownOf(d)')
  BY <1>2, <1>3, <1>12, DgKeepContent, DgKeepSingle, Zenon
<1>14. ASSUME Single, Content, Shown PROVE Single' /\ Content' /\ Shown'
  <2>1. ~InBox(c) /\ ~AtServer(c) /\ ~Answered(c) /\ Len(answers[c]) <= 1
    BY <1>2, <1>14, Zenon DEF Single, SingleOf
  <2>2. SingleOf(c)' /\ ContentOf(c)'
    BY <1>2, <1>12, <2>1, Zenon DEF SingleOf, ContentOf, InBox
  <2>3. ShownOf(c)'
    BY <1>3, <1>4, SMTT(60) DEF ShownOf
  <2>4. QED
    BY <1>2, <1>13, <1>14, <2>2, <2>3, Zenon DEF Single, Content, Shown
<1>15. QED
  BY <1>2, <1>6, <1>7, <1>9, <1>10, <1>11, <1>14, SMTT(60)

\* The network loses a datagram, or delivers one twice.
LEMMA DgNetwork == ASSUME DgInv, Lose \/ Copy PROVE DgInv'
<1> USE DEF DgInv
<1>1. UDP /\ inbox # <<>> /\ UNCHANGED <<dprog, dgSv, dgCl, answers>>
  BY SMTT(60) DEF Lose, Copy
<1>2. inbox \in Seq(Datagram) /\ lost \in Nat /\ copied \in Nat /\ dgSv.at # "new"
  BY <1>1, SMTT(60) DEF DgType, DgPrograms
<1>3. CASE Lose
  <2>1. inbox' = Tail(inbox) /\ lost' = lost + 1 /\ copied' = copied
    BY <1>3, SMTT(60) DEF Lose
  <2>2. /\ inbox' \in Seq(Datagram) /\ Len(inbox) \in Nat \ {0} /\ Len(inbox') = Len(inbox) - 1
        /\ \A i \in 1..Len(inbox') : i + 1 \in 1..Len(inbox) /\ inbox'[i] = inbox[i + 1]
        /\ \A c \in Clients : InBox(c) <=> InBox(c)' \/ c = inbox[1].from
    BY <1>1, <1>2, <2>1, DgPop, SMTT(60)
  <2>3. lost' \in Nat /\ lost' # 0
    BY <1>2, <2>1, SMTT(60)
  <2>4. DgType'
    BY <1>1, <2>1, <2>2, <2>3, ZenonT(60) DEF DgType
  <2>5. DgPrograms' /\ OnItsWay' /\ Counting' /\ KilledOne'
    BY <1>1, <1>2, <2>1, <2>3, SMTT(60) DEF DgPrograms, OnItsWay, Counting, KilledOne, UDP
  <2>6. \A i \in 1..Len(inbox') : \E j \in 1..Len(inbox) : inbox[j] = inbox'[i]
    BY <2>2, SMTT(60)
  <2>7. \A d \in Clients : (AtServer(d)' <=> AtServer(d)) /\ (Answered(d)' <=> Answered(d))
    BY <1>1, Zenon DEF AtServer, Answered
  <2>8. \A d \in Clients : (SingleOf(d) => SingleOf(d)') /\ (ContentOf(d) => ContentOf(d)') /\ (ShownOf(d) => ShownOf(d)')
    BY <1>1, <2>2, <2>6, <2>7, DgKeepContent, DgKeepSingle, Zenon
  <2>9. ASSUME Single, Content, Shown PROVE Single' /\ Content' /\ Shown'
    <3>1. \A i, j \in 1..Len(inbox') : inbox'[i].from = inbox'[j].from => i = j
      BY <2>2, <2>9, SMTT(60) DEF Single
    <3>2. QED
      BY <2>8, <2>9, <3>1, Zenon DEF Single, Content, Shown
  <2>10. QED
    BY <1>1, <2>1, <2>4, <2>5, <2>9
<1>4. CASE Copy
  <2>1. inbox' = Append(inbox, Head(inbox)) /\ copied' = copied + 1 /\ lost' = lost
    BY <1>4 DEF Copy
  <2>2. PICK d \in Datagram : d = Head(inbox)
    BY <1>1, <1>2
  <2>3. inbox' \in Seq(Datagram) /\ \A c \in Clients : InBox(c) => InBox(c)'
    BY <1>2, <2>1, <2>2, DgPush, SMTT(60)
  <2>4. copied' \in Nat /\ copied' # 0
    BY <1>2, <2>1
  <2>5. DgType'
    BY <1>1, <2>1, <2>3, <2>4, Zenon DEF DgType
  <2>6. DgPrograms' /\ Counting' /\ KilledOne'
    BY <1>1, <1>2, <2>1, SMTT(60) DEF DgPrograms, Counting, KilledOne, UDP
  <2>7. OnItsWay'
    BY <1>1, <2>1, <2>3, Zenon DEF OnItsWay, AtServer, Answered
  <2>8. QED
    BY <2>4, <2>5, <2>6, <2>7, SMTT(60)
<1>5. QED
  BY <1>3, <1>4

\* A client sends its next argument: the server's socket queues it, or it is lost.
LEMMA DgSend ==
    ASSUME DgInv, NEW c \in Clients, NEW after, SendTo(c, after),
           IF dprog = "reliability" THEN after = "send" ELSE after = "recv",
           dgCl' = [dgCl EXCEPT ![c].at = after, ![c].sent = @ + 1],
           IF UDP THEN TRUE ELSE Bound /\ Len(inbox) < QLEN,
           LET kept == Bound /\ Len(inbox) < QLEN IN
             /\ inbox' = IF kept THEN Append(inbox, Arg(c)) ELSE inbox
             /\ lost' = IF kept THEN lost ELSE lost + 1
    PROVE  DgInv'
<1> USE DEF DgInv
<1>1. /\ dgCl[c].at = "send" /\ dgCl[c].sent < Len(dgCl[c].args) /\ UNCHANGED <<dprog, dgSv, answers, copied>>
      /\ dgCl \in [Clients -> [at : DgPCs, args : Seq(Nat), sent : Nat, got : Seq(Answer)]]
      /\ inbox \in Seq(Datagram) /\ lost \in Nat /\ after \in DgPCs
  BY SMTT(60) DEF SendTo, DgType, DgPCs
<1>2. /\ dgCl' \in [Clients -> [at : DgPCs, args : Seq(Nat), sent : Nat, got : Seq(Answer)]]
      /\ dgCl'[c].at = after /\ dgCl'[c].args = dgCl[c].args
      /\ dgCl'[c].sent = dgCl[c].sent + 1 /\ dgCl'[c].got = dgCl[c].got
      /\ \A d \in Clients : d # c => dgCl'[d] = dgCl[d]
  BY <1>1, DgSent, Zenon
<1>3. PICK k \in Nat : k = dgCl[c].sent + 1 /\ k \in 1..Len(dgCl[c].args) /\ k # 0
  BY <1>1, SMTT(60)
<1>4. PICK n \in Nat : n = dgCl[c].args[k]
  BY <1>1, <1>3, SMTT(60)
<1>5. PICK g \in Datagram : /\ g = Arg(c) /\ g.from = c /\ g.no = k /\ g.len = n
  BY <1>3, <1>4, SMTT(60) DEF Arg, Datagram
<1>6. \/ inbox' = Append(inbox, g) /\ lost' = lost
      \/ UDP /\ inbox' = inbox /\ lost' = lost + 1
  BY <1>5
<1>7. /\ inbox' \in Seq(Datagram) /\ lost' \in Nat /\ Len(inbox) \in Nat
      /\ \A d \in Clients : d # c => (InBox(d)' <=> InBox(d))
      /\ InBox(c)' \/ lost' # 0
      /\ \A i \in 1..Len(inbox) : i \in 1..Len(inbox') /\ inbox'[i] = inbox[i]
      /\ \A i \in 1..Len(inbox') : \/ i \in 1..Len(inbox) /\ inbox'[i] = inbox[i]
                                   \/ i = Len(inbox) + 1 /\ inbox'[i] = g
      /\ lost' = 0 => lost = 0
  <2>1. CASE inbox' = Append(inbox, g) /\ lost' = lost
    <3>1. /\ inbox' \in Seq(Datagram) /\ Len(inbox) \in Nat /\ Len(inbox') = Len(inbox) + 1
          /\ inbox'[Len(inbox) + 1] = g
          /\ \A i \in 1..Len(inbox) : inbox'[i] = inbox[i]
          /\ \A d \in Clients : InBox(d)' <=> InBox(d) \/ d = g.from
      BY <1>1, <2>1, DgPush, SMTT(60)
    <3>2. QED
      BY <1>1, <1>5, <2>1, <3>1, SMTT(60)
  <2>2. CASE inbox' = inbox /\ lost' = lost + 1
    BY <1>1, <2>2, SMTT(60) DEF InBox
  <2>3. QED
    BY <1>6, <2>1, <2>2, SMTT(60)
<1>8. DgType'
  BY <1>1, <1>2, <1>7, Zenon DEF DgType
<1>9. DgPrograms'
  <2>1. \A d \in Clients : /\ dgCl'[d].at = "new" => dgCl'[d].sent = 0 /\ dgCl'[d].got = <<>>
                           /\ dgCl'[d].sent <= Len(dgCl'[d].args)
    <3>1. dgCl'[c].at # "new" /\ dgCl'[c].sent <= Len(dgCl'[c].args)
      BY <1>1, <1>2, <1>3, SMTT(60)
    <3>2. QED
      BY <1>2, <3>1, ZenonT(60) DEF DgPrograms
  <2>2. dprog # "none"
    BY <1>1, SMTT(60) DEF DgPrograms
  <2>3. dgSv.at = "new" => inbox' = <<>>
    BY <1>6, SMTT(60) DEF DgPrograms, Bound
  <2>4. "send" # "recv"
    OBVIOUS
  <2>5. \A d \in Clients : dprog = "reliability" => dgCl'[d].at # "recv" /\ dgCl'[d].got = <<>>
    BY <1>2, <2>4, ZenonT(60) DEF DgPrograms
  <2>6. QED
    BY <1>1, <2>1, <2>2, <2>3, <2>5, Zenon DEF DgPrograms, UDP
<1>10. \A d \in Clients : (AtServer(d)' <=> AtServer(d)) /\ (Answered(d)' <=> Answered(d))
  BY <1>1, Zenon DEF AtServer, Answered
<1>11. OnItsWay'
  <2> SUFFICES ASSUME NEW d \in Clients, dgCl'[d].at = "recv", lost' = 0, dgSv.at # "ended"
               PROVE  InBox(d)' \/ AtServer(d)' \/ Answered(d)'
    BY <1>1, Zenon DEF OnItsWay
  <2>1. CASE d = c
    BY <1>7, <2>1, Zenon
  <2>2. CASE d # c
    BY <1>2, <1>7, <1>10, <2>2, Zenon DEF OnItsWay
  <2>3. QED
    BY <2>1, <2>2
<1>12. KilledOne'
  BY <1>1, <1>2, Zenon DEF KilledOne
<1>13. Counting'
  <2> SUFFICES ASSUME dprog = "reliability", OneSender'
               PROVE  /\ dgSv.at # "ended"
                      /\ \A i \in 1..Len(inbox') : inbox'[i].no = dgSv.ant + 1 + i
                      /\ \A d \in Clients : dgCl'[d].sent > 0 => dgCl'[d].sent = dgSv.ant + 1 + Len(inbox')
                      /\ ~ \A d \in Clients : dgCl'[d].sent = 0
    BY <1>1, ZenonT(60) DEF Counting
  <2>1. inbox' = Append(inbox, g) /\ Len(inbox') = Len(inbox) + 1 /\ dgCl'[c].sent = k /\ k > 0
    BY <1>1, <1>2, <1>3, <1>6, SMTT(60) DEF UDP
  <2>2. \A d \in Clients : d # c => dgCl'[d].sent = dgCl[d].sent /\ dgCl[d].sent = 0
    <3> SUFFICES ASSUME NEW d \in Clients, d # c PROVE dgCl'[d].sent = dgCl[d].sent /\ dgCl[d].sent = 0
      BY Zenon
    <3>1. dgCl'[d].sent = dgCl[d].sent /\ dgCl[d].sent \in Nat
      BY <1>1, <1>2
    <3>2. ~(dgCl'[d].sent > 0)
      BY <2>1, Zenon DEF OneSender
    <3>3. QED
      BY <3>1, <3>2, SMTT(60)
  <2>3. OneSender
    <3>1. \A d \in Clients : d # c => ~(dgCl[d].sent > 0)
      BY <2>2
    <3>2. QED
      BY <3>1, Zenon DEF OneSender
  <2>4. dgSv.ant \in Int /\ dgSv.at # "ended" /\ k = dgSv.ant + 1 + (Len(inbox) + 1)
    <3>1. dgSv.ant \in Int /\ dgSv.at # "ended"
      BY <2>3 DEF Counting, DgType
    <3>2. CASE dgCl[c].sent = 0
      <4>1. dgSv.ant = -1 /\ inbox = <<>>
        BY <2>2, <2>3, <3>2 DEF Counting
      <4>2. QED
        BY <1>3, <3>1, <3>2, <4>1
    <3>3. CASE dgCl[c].sent # 0
      <4>1. dgCl[c].sent > 0 /\ dgCl[c].sent \in Nat
        BY <1>1, <3>3, SMTT(60)
      <4>2. dgCl[c].sent = dgSv.ant + 1 + Len(inbox)
        BY <2>3, <4>1, SMTT(60) DEF Counting
      <4>3. PICK x \in Int, l \in Nat, y \in Nat : x = dgSv.ant /\ l = Len(inbox) /\ y = dgCl[c].sent
        BY <1>7, <3>1, <4>1, SMTT(60)
      <4>4. y = x + 1 + l => y + 1 = x + 1 + (l + 1)
        BY SMTT(60)
      <4>5. QED
        BY <1>3, <3>1, <4>2, <4>3, <4>4, Zenon
    <3>4. QED
      BY <3>2, <3>3
  <2>5. ASSUME NEW i \in 1..Len(inbox') PROVE inbox'[i].no = dgSv.ant + 1 + i
    <3>1. CASE i \in 1..Len(inbox) /\ inbox'[i] = inbox[i]
      BY <2>3, <3>1 DEF Counting
    <3>2. CASE i = Len(inbox) + 1 /\ inbox'[i] = g
      BY <1>5, <2>4, <3>2
    <3>3. QED
      BY <1>7, <3>1, <3>2, SMTT(60)
  <2>6. \A d \in Clients : dgCl'[d].sent > 0 => dgCl'[d].sent = dgSv.ant + 1 + Len(inbox')
    <3>1. ~(0 > 0)
      OBVIOUS
    <3>2. \A d \in Clients : d # c => ~(dgCl'[d].sent > 0)
      BY <2>2, <3>1, Zenon
    <3>3. dgCl'[c].sent = dgSv.ant + 1 + Len(inbox')
      BY <2>1, <2>4, Zenon
    <3>4. QED
      BY <3>2, <3>3, Zenon
  <2>7. ~ \A d \in Clients : dgCl'[d].sent = 0
    BY <1>3, <2>1, Zenon
  <2>8. QED
    BY <2>4, <2>5, <2>6, <2>7, Zenon
<1>14. \A d \in Clients : d # c => (SingleOf(d) => SingleOf(d)') /\ (ContentOf(d) => ContentOf(d)') /\ (ShownOf(d) => ShownOf(d)')
  <2> SUFFICES ASSUME NEW d \in Clients, d # c
               PROVE  (SingleOf(d) => SingleOf(d)') /\ (ContentOf(d) => ContentOf(d)') /\ (ShownOf(d) => ShownOf(d)')
    OBVIOUS
  <2>1. \A i \in 1..Len(inbox') : inbox'[i].from = d => \E j \in 1..Len(inbox) : inbox[j] = inbox'[i]
    BY <1>5, <1>7, SMTT(60)
  <2>2. QED
    BY <1>1, <1>2, <1>7, <1>10, <2>1, DgKeepContent, DgKeepSingle, Zenon
<1>15. ASSUME dprog # "reliability", Single, Content, Shown PROVE Single' /\ Content' /\ Shown'
  <2>1. ~InBox(c) /\ ~AtServer(c) /\ ~Answered(c) /\ Len(answers[c]) <= 1 /\ after = "recv"
    BY <1>1, <1>15, SMTT(60) DEF Single, SingleOf
  <2>2. SingleOf(c)'
    BY <1>1, <1>2, <1>10, <2>1, Zenon DEF SingleOf
  <2>3. \A i \in 1..Len(inbox') : inbox'[i].from = c => i = Len(inbox) + 1 /\ inbox'[i] = g
    BY <1>7, <2>1, SMTT(60) DEF InBox
  <2>4. ContentOf(c)'
    <3>1. ~AtServer(c)' /\ ~Answered(c)'
      BY <1>10, <2>1, Zenon
    <3>2. g.no = dgCl'[c].sent /\ g.len = dgCl'[c].args[dgCl'[c].sent]
      BY <1>2, <1>3, <1>4, <1>5, ZenonT(60)
    <3>3. \A i \in 1..Len(inbox') : inbox'[i].from = c =>
             inbox'[i].no = dgCl'[c].sent /\ inbox'[i].len = dgCl'[c].args[dgCl'[c].sent]
      BY <2>3, <3>2, Zenon
    <3>4. QED
      BY <3>1, <3>3, Zenon DEF ContentOf
  <2>5. ShownOf(c)'
    <3>1. ShownOf(c)
      BY <1>15 DEF Shown
    <3>2. \A j : Reply1(c, j)' = Reply1(c, j)
      BY <1>1, <1>2, SMTT(60) DEF Reply1, Cut
    <3>3. \A j \in 1..Len(dgCl'[c].got) : dgCl'[c].got[j] = Reply1(c, j)'
      <4>1. PICK q : q = dgCl[c].got /\ q = dgCl'[c].got
        BY <1>2, Zenon
      <4>2. \A j \in 1..Len(q) : q[j] = Reply1(c, j)
        BY <3>1, <4>1, Zenon DEF ShownOf
      <4>3. QED
        BY <3>2, <4>1, <4>2, Zenon
    <3>4. Len(dgCl[c].got) = dgCl[c].sent /\ dgCl[c].sent \in Nat
      BY <1>1, <3>1, SMTT(60) DEF ShownOf
    <3>5. Len(dgCl'[c].got) + 1 = dgCl'[c].sent /\ Len(dgCl'[c].got) <= dgCl'[c].sent
      BY <1>2, <3>4, SMTT(60)
    <3>6. QED
      BY <1>2, <2>1, <3>3, <3>5, Zenon DEF ShownOf
  <2>6. ASSUME NEW i \in 1..Len(inbox'), NEW j \in 1..Len(inbox'), inbox'[i].from = inbox'[j].from PROVE i = j
    <3>1. CASE inbox'[i].from = c
      BY <2>3, <2>6, <3>1, SMTT(60)
    <3>2. CASE inbox'[i].from # c
      BY <1>5, <1>7, <1>15, <2>6, <3>2, SMTT(60) DEF Single
    <3>3. QED
      BY <3>1, <3>2, SMTT(60)
  <2>7. QED
    BY <1>14, <1>15, <2>2, <2>4, <2>5, <2>6, Zenon DEF Single, Content, Shown
<1>16. QED
  BY <1>1, <1>8, <1>9, <1>11, <1>12, <1>13, <1>15

\* A client shows the answer it waits for.
LEMMA DgReceive == ASSUME DgInv, NEW c \in Clients, ReceiveAnswer(c), dprog # "reliability" PROVE DgInv'
<1> USE DEF DgInv
<1>1. /\ dgCl[c].at = "recv" /\ answers[c] # <<>> /\ UNCHANGED <<dprog, dgSv, inbox, lost, copied>>
      /\ dgCl' = [dgCl EXCEPT ![c].at = "send", ![c].got = Append(@, [Head(answers[c]) EXCEPT !.len = Cut(@)])]
      /\ answers' = [answers EXCEPT ![c] = Tail(@)]
  BY DEF ReceiveAnswer
<1>2. /\ dgCl \in [Clients -> [at : DgPCs, args : Seq(Nat), sent : Nat, got : Seq(Answer)]]
      /\ answers \in [Clients -> Seq(Answer)]
  BY SMTT(60) DEF DgType
<1>3. /\ answers' \in [Clients -> Seq(Answer)] /\ answers'[c] = Tail(answers[c])
      /\ Head(answers[c]) = answers[c][1] /\ answers[c][1] \in Answer /\ Len(answers'[c]) = Len(answers[c]) - 1
      /\ Len(answers[c]) \in Nat \ {0} /\ \A d \in Clients \ {c} : answers'[d] = answers[d]
  <2>1. PICK q \in Seq(Answer) : q = answers[c] /\ q # <<>>
    BY <1>1, <1>2
  <2>2. Tail(q) \in Seq(Answer) /\ Head(q) = q[1] /\ q[1] \in Answer /\ Len(Tail(q)) = Len(q) - 1 /\ Len(q) \in Nat \ {0}
    BY <2>1
  <2>3. answers' \in [Clients -> Seq(Answer)] /\ answers'[c] = Tail(q) /\ \A d \in Clients \ {c} : answers'[d] = answers[d]
    BY <1>1, <1>2, <2>1, <2>2
  <2>4. QED
    BY <2>1, <2>2, <2>3, Zenon
<1>4. PICK t \in Answer : /\ t = [Head(answers[c]) EXCEPT !.len = Cut(@)]
                          /\ t = [answers[c][1] EXCEPT !.len = Cut(@)]
  <2>1. PICK l \in Nat, n \in Nat, u \in BOOLEAN : answers[c][1] = [len |-> l, no |-> n, upper |-> u]
    BY <1>3, Zenon DEF Answer
  <2>2. PICK m \in Nat : m = Cut(l)
    BY CutOnce
  <2>3. [answers[c][1] EXCEPT !.len = Cut(@)] = [len |-> m, no |-> n, upper |-> u]
    <3>1. [[len |-> l, no |-> n, upper |-> u] EXCEPT !.len = m] = [len |-> m, no |-> n, upper |-> u]
      BY SMTT(60)
    <3>2. answers[c][1].len = l
      BY <2>1
    <3>3. QED
      BY <2>1, <2>2, <3>1, <3>2, Zenon
  <2>4. [len |-> m, no |-> n, upper |-> u] \in Answer
    BY Zenon DEF Answer
  <2>5. QED
    BY <1>3, <2>3, <2>4, Zenon
<1>5. /\ dgCl' \in [Clients -> [at : DgPCs, args : Seq(Nat), sent : Nat, got : Seq(Answer)]]
      /\ dgCl'[c].at = "send" /\ dgCl'[c].args = dgCl[c].args
      /\ dgCl'[c].sent = dgCl[c].sent /\ dgCl'[c].got = Append(dgCl[c].got, t)
      /\ \A d \in Clients : d # c => dgCl'[d] = dgCl[d]
  <2>1. dgCl' = [dgCl EXCEPT ![c].at = "send", ![c].got = Append(@, t)]
    BY <1>1, <1>4, Zenon
  <2>2. "send" \in DgPCs
    BY DEF DgPCs
  <2>3. QED
    BY <1>2, <2>1, <2>2, DgGot, Zenon
<1>6. DgType'
  BY <1>1, <1>3, <1>5, Zenon DEF DgType
<1>7. \A d \in Clients : dgCl'[d].args = dgCl[d].args /\ dgCl'[d].sent = dgCl[d].sent
  BY <1>5, Zenon
<1>8. DgPrograms'
  <2>1. dgSv.at # "new" /\ dprog # "none"
    BY <1>1 DEF DgPrograms
  <2>2. \A d \in Clients : dgCl'[d].at = "new" => dgCl'[d].sent = 0 /\ dgCl'[d].got = <<>>
    BY <1>5, Zenon DEF DgPrograms
  <2>3. QED
    BY <1>1, <1>7, <2>1, <2>2, Zenon DEF DgPrograms, UDP
<1>9. \A d \in Clients : (InBox(d)' <=> InBox(d)) /\ (AtServer(d)' <=> AtServer(d))
  BY <1>1, Zenon DEF InBox, AtServer
<1>10. OnItsWay'
  <2>1. \A d \in Clients : dgCl'[d].at = "recv" => d # c
    BY <1>5, Zenon
  <2>2. QED
    BY <1>1, <1>3, <1>5, <1>9, <2>1, Zenon DEF OnItsWay, Answered
<1>11. Counting' /\ KilledOne'
  BY <1>1, <1>5, Zenon DEF Counting, KilledOne
<1>12. \A d \in Clients : d # c => (SingleOf(d) => SingleOf(d)') /\ (ContentOf(d) => ContentOf(d)') /\ (ShownOf(d) => ShownOf(d)')
  BY <1>1, <1>3, <1>5, <1>9, DgKeepContent, DgKeepSingle, Zenon
<1>13. ASSUME Single, Content, Shown PROVE Single' /\ Content' /\ Shown'
  <2>1. SingleOf(c) /\ ContentOf(c) /\ ShownOf(c)
    BY <1>13, Zenon DEF Single, Content, Shown
  <2>2. answers'[c] = <<>> /\ Len(answers'[c]) <= 1
    <3>1. Len(answers[c]) <= 1
      BY <2>1 DEF SingleOf
    <3>2. PICK n \in Nat \ {0} : n = Len(answers[c]) /\ n <= 1 /\ Len(answers'[c]) = n - 1
      BY <1>3, <3>1, Zenon
    <3>3. \A x \in Nat \ {0} : x <= 1 => x - 1 = 0
      OBVIOUS
    <3>4. answers'[c] \in Seq(Answer) /\ Len(answers'[c]) = 0
      BY <1>3, <3>2, <3>3, Zenon
    <3>5. QED
      BY <3>4, SMTT(60)
  <2>3. ~InBox(c) /\ ~AtServer(c) /\ ~Answered(c)'
    BY <1>1, <2>1, <2>2, Zenon DEF SingleOf, Answered
  <2>4. SingleOf(c)' /\ ContentOf(c)'
    BY <1>1, <1>9, <2>2, <2>3, Zenon DEF SingleOf, ContentOf, InBox
  <2>5. PICK k \in Nat : k = dgCl[c].sent /\ k = Len(dgCl[c].got) + 1 /\ k \in 1..Len(dgCl[c].args)
    BY <1>1, <1>2, <2>1 DEF ShownOf, DgPrograms
  <2>6. t = Reply1(c, k)
    <3>1. PICK l \in Nat : l = dgCl[c].args[k]
      BY <1>2, <2>5, SMTT(60)
    <3>2. answers[c][1] = [len |-> Cut(l), no |-> k, upper |-> dprog # "id_echo"]
      BY <1>1, <2>1, <2>5, <3>1, Zenon DEF ContentOf, Answered, Reply1
    <3>3. t = [len |-> Cut(Cut(l)), no |-> k, upper |-> dprog # "id_echo"]
      <4>1. PICK u : u = (dprog # "id_echo")
        BY Zenon
      <4>2. [[len |-> Cut(l), no |-> k, upper |-> u] EXCEPT !.len = Cut(Cut(l))] = [len |-> Cut(Cut(l)), no |-> k, upper |-> u]
        BY SMTT(60)
      <4>3. answers[c][1].len = Cut(l)
        <5>1. answers[c][1] = [len |-> Cut(l), no |-> k, upper |-> u]
          BY <3>2, <4>1, Zenon
        <5>2. QED
          BY <5>1, SMTT(60)
      <4>4. QED
        BY <1>4, <3>2, <4>1, <4>2, <4>3, Zenon
    <3>4. QED
      BY <3>1, <3>3, CutOnce, Zenon DEF Reply1
  <2>7. \A j : Reply1(c, j)' = Reply1(c, j)
    BY <1>1, <1>5, ZenonT(60) DEF Reply1, Cut
  <2>8. PICK q \in Seq(Answer) : q = dgCl[c].got
    BY <1>2
  <2>9. Len(Append(q, t)) = k /\ Append(q, t)[k] = t /\ \A j \in 1..k : j # k => j \in 1..Len(q) /\ Append(q, t)[j] = q[j]
    BY <2>5, <2>8, SMTT(60)
  <2>10. \A j \in 1..k : Append(q, t)[j] = Reply1(c, j)
    BY <2>1, <2>6, <2>8, <2>9, Zenon DEF ShownOf
  <2>11. k <= k
    OBVIOUS
  <2>12. /\ dgCl'[c].got = Append(q, t) /\ Len(dgCl'[c].got) = k /\ dgCl'[c].sent = k
         /\ \A j \in 1..k : dgCl'[c].got[j] = Reply1(c, j)'
    BY <1>5, <2>5, <2>7, <2>8, <2>9, <2>10, Zenon
  <2>13. "send" # "recv"
    OBVIOUS
  <2>14. ShownOf(c)'
    BY <1>5, <2>11, <2>12, <2>13, Zenon DEF ShownOf
  <2>15. QED
    BY <1>1, <1>12, <1>13, <2>4, <2>14, Zenon DEF Single, Content, Shown
<1>14. QED
  BY <1>1, <1>6, <1>8, <1>10, <1>11, <1>13

\* Every step keeps it.
LEMMA DgStep == ASSUME DgInv, [DatagramNext]_dgVars PROVE DgInv'
<1>1. ASSUME NEW c \in Clients, ud_ucase_cl(c) \/ i6d_ucase_cl(c) \/ id_echo_cl(c) \/ reliability_client(c) \/ Kill(c)
      PROVE  DgInv'
  <2>1. ASSUME NEW after, SendTo(c, after), IF dprog = "reliability" THEN after = "send" ELSE after = "recv" PROVE DgInv'
    <3>1. CASE ~UDP /\ ~Bound /\ dgCl' = [dgCl EXCEPT ![c].at = "ended"] /\ UNCHANGED <<inbox, lost>>
      <4>1. SendTo(c, "recv")
        BY <2>1, <3>1, Zenon DEF SendTo
      <4>2. QED
        BY <3>1, <4>1, DgEnd, Zenon
    <3>2. QED
      BY <2>1, <3>1, DgSend, Zenon DEF SendTo
  <2>2. CASE ud_ucase_cl(c)
    <3>1. dprog # "reliability" /\ (Start(c) \/ SendTo(c, "recv") \/ ReceiveAnswer(c) \/ Exit(c))
      BY <2>2 DEF ud_ucase_cl
    <3>2. QED
      BY <2>1, <3>1, DgStart, DgReceive, DgEnd, Zenon
  <2>3. CASE i6d_ucase_cl(c)
    <3>1. dprog # "reliability" /\ (Start(c) \/ SendTo(c, "recv") \/ ReceiveAnswer(c) \/ Exit(c))
      BY <2>3 DEF i6d_ucase_cl
    <3>2. QED
      BY <2>1, <3>1, DgStart, DgReceive, DgEnd, Zenon
  <2>4. CASE id_echo_cl(c)
    <3>1. dprog # "reliability" /\ (Start(c) \/ SendTo(c, "recv") \/ ReceiveAnswer(c) \/ Refused(c) \/ Exit(c))
      BY <2>4 DEF id_echo_cl
    <3>2. QED
      BY <2>1, <3>1, DgStart, DgReceive, DgEnd, Zenon
  <2>5. CASE reliability_client(c)
    BY <2>1, <2>5, DgStart, Zenon DEF reliability_client
  <2>6. CASE Kill(c)
    BY <2>6, DgEnd, Zenon
  <2>7. QED
    BY <1>1, <2>2, <2>3, <2>4, <2>5, <2>6
<1>2. CASE Choose
  BY <1>2, DgBind
<1>3. CASE ud_ucase_sv
  <2>1. /\ Upper(dgSv.buf) = [len |-> dgSv.buf.len, no |-> dgSv.buf.no, upper |-> dprog # "id_echo"]
        /\ dprog \in {"ud_ucase", "i6d_ucase", "id_echo"} /\ "ended" = IF dprog = "id_echo" THEN "recv" ELSE "ended"
    BY <1>3, Zenon DEF ud_ucase_sv, Upper
  <2>2. QED
    BY <1>3, <2>1, DgBind, DgRecvfrom, DgReply, Zenon DEF ud_ucase_sv
<1>4. CASE i6d_ucase_sv
  <2>1. /\ Upper(dgSv.buf) = [len |-> dgSv.buf.len, no |-> dgSv.buf.no, upper |-> dprog # "id_echo"]
        /\ dprog \in {"ud_ucase", "i6d_ucase", "id_echo"} /\ "ended" = IF dprog = "id_echo" THEN "recv" ELSE "ended"
    BY <1>4, Zenon DEF i6d_ucase_sv, Upper
  <2>2. QED
    BY <1>4, <2>1, DgBind, DgRecvfrom, DgReply, Zenon DEF i6d_ucase_sv
<1>5. CASE id_echo_sv
  <2>1. /\ Same(dgSv.buf) = [len |-> dgSv.buf.len, no |-> dgSv.buf.no, upper |-> dprog # "id_echo"]
        /\ dprog \in {"ud_ucase", "i6d_ucase", "id_echo"} /\ "recv" = IF dprog = "id_echo" THEN "recv" ELSE "ended"
    BY <1>5, Zenon DEF id_echo_sv, Same
  <2>2. QED
    BY <1>5, <2>1, DgBind, DgRecvfrom, DgReply, Zenon DEF id_echo_sv, inetBind
<1>6. CASE reliability_server
  <2>1. CASE Bind
    BY <2>1, DgBind
  <2>2. QED
    BY <1>6, <2>1, DgReliability
<1>7. CASE Lose \/ Copy
  BY <1>7, DgNetwork
<1>8. CASE UNCHANGED dgVars
  <2>1. /\ dprog' = dprog /\ dgSv' = dgSv /\ inbox' = inbox /\ dgCl' = dgCl /\ answers' = answers
        /\ lost' = lost /\ copied' = copied
    BY <1>8 DEF dgVars
  <2>2. \A c \in Clients : /\ InBox(c)' <=> InBox(c)
                           /\ AtServer(c)' <=> AtServer(c)
                           /\ Answered(c)' <=> Answered(c)
    BY <2>1, Zenon DEF InBox, AtServer, Answered
  <2>3. \A d \in Clients : (SingleOf(d) => SingleOf(d)') /\ (ContentOf(d) => ContentOf(d)') /\ (ShownOf(d) => ShownOf(d)')
    BY <2>1, <2>2, DgKeepContent, DgKeepSingle, Zenon
  <2>4. Single /\ Content /\ Shown => Single' /\ Content' /\ Shown'
    BY <2>1, <2>3, Zenon DEF Single, Content, Shown
  <2>5. DgType' /\ DgPrograms' /\ KilledOne'
    BY <2>1, Zenon DEF DgInv, DgType, DgPrograms, KilledOne, UDP
  <2>6. OnItsWay' /\ Counting'
    BY <2>1, <2>2, Zenon DEF DgInv, OnItsWay, Counting, OneSender
  <2>7. QED
    BY <2>1, <2>4, <2>5, <2>6, Zenon DEF DgInv
<1>9. QED
  BY <1>1, <1>2, <1>3, <1>4, <1>5, <1>6, <1>7, <1>8, Zenon DEF DatagramNext

\* The datagram servers and clients of sockets/ and of udp-reliability/: whatever
\* the network loses or copies and whoever is killed, a client that shows answers
\* shows them in order, and one that waits has not been forgotten; for any number
\* of clients and arguments, and any length of queues and of messages.
THEOREM DatagramsCorrect == DatagramSpec => []DatagramsRight
<1>1. DgInv => DatagramsRight
  <2> SUFFICES ASSUME DgInv PROVE DatagramsRight
    OBVIOUS
  <2>1. AnswersInOrder
    <3> SUFFICES ASSUME copied = 0, NEW c \in Clients, NEW k \in DOMAIN dgCl[c].got
                 PROVE  dgCl[c].got[k] = [len |-> Cut(dgCl[c].args[k]), no |-> k, upper |-> dprog # "id_echo"]
      BY Zenon DEF AnswersInOrder
    <3>1. k \in 1..Len(dgCl[c].got)
      BY SMTT(60) DEF DgInv, DgType
    <3>2. dgCl[c].got # <<>>
      BY <3>1, SMTT(60)
    <3>3. ShownOf(c)
      BY <3>2, SMTT(60) DEF DgInv, DgPrograms, Shown
    <3>4. QED
      BY <3>1, <3>3, Zenon DEF ShownOf, Reply1
  <2>2. \A c \in Clients : dgCl[c].at = "recv" /\ lost = 0 /\ dgSv.at # "ended" =>
         \/ answers[c] # <<>> \/ (dgSv.at = "send" /\ dgSv.buf.from = c)
         \/ \E i \in DOMAIN inbox : inbox[i].from = c
    <3>1. DOMAIN inbox = 1..Len(inbox)
      BY DEF DgInv, DgType
    <3>2. QED
      BY <3>1, Zenon DEF DgInv, OnItsWay, InBox, AtServer, Answered
  <2>3. ASSUME dgSv.at = "ended", dprog = "reliability"
        PROVE  \E c, d \in Clients : c # d /\ dgCl[c].sent > 0 /\ dgCl[d].sent > 0
    BY <2>3, Zenon DEF DgInv, Counting, OneSender
  <2>4. dgSv.at = "ended" => dprog \in {"ud_ucase", "reliability"}
    BY SMTT(60) DEF DgInv, DgPrograms
  <2>5. AnswerOnItsWay
    BY <2>2, <2>3, <2>4, SMTT(60) DEF AnswerOnItsWay, DgInv, KilledOne
  <2>6. QED
    BY <2>1, <2>5 DEF DatagramsRight
<1>2. QED
  BY <1>1, DgInitInv, DgStep, PTL DEF DatagramSpec

----------------------------------------------------------------------------
\* The programs that pass descriptors and credentials.

Snd(p, d, f, c, t, s) == [pc |-> p, dgram |-> d, files |-> f, creds |-> c, data |-> t, fds |-> s]
Rcv(p, d, l, h, f, c, o) == [pc |-> p, dgram |-> d, limit |-> l, header |-> h, fds |-> f, creds |-> c,
                             out |-> o]
Sock(s, p, a, q, c, e) == [state |-> s, passcred |-> p, accepted |-> a, queue |-> q, connected |-> c,
                           eof |-> e]

ScmShape == /\ snd = Snd(snd.pc, snd.dgram, snd.files, snd.creds, snd.data, snd.fds)
            /\ rcv = Rcv(rcv.pc, rcv.dgram, rcv.limit, rcv.header, rcv.fds, rcv.creds, rcv.out)
            /\ sock = Sock(sock.state, sock.passcred, sock.accepted, sock.queue, sock.connected, sock.eof)

\* The command lines, and the descriptors of the sender.
Sending == /\ scm \in {"rights", "cred", "multi"}
           /\ snd.pc \in {"open", "connect", "send", "close", "end", "failed"}
           /\ snd.files \in Seq(STRING) /\ Len(snd.files) <= MAX_FDS /\ rcv.limit \in Nat
           /\ scm = "rights" => Len(snd.files) = 1
           /\ scm = "cred" => snd.files = <<>>
           /\ scm = "multi" => snd.files # <<>>
           /\ scm # "multi" => snd.data
           /\ snd.pc \in {"connect", "send"} => snd.fds = snd.files

Before == {"remove", "bind", "listen", "accept", "option", "recv"}

\* Until recvmsg() the receiver has nothing.
Receiving == /\ rcv.pc \in Before => /\ rcv.header = <<>> /\ rcv.fds = <<>> /\ rcv.out = <<>>
                                     /\ rcv.creds = "none"
             /\ rcv.pc = "recv" => (scm = "rights" <=> ~sock.passcred)

\* The one message, which is there from sendmsg() until recvmsg() unless it has
\* no byte of data.
Sent(m) == /\ m.fds = snd.files
           /\ snd.creds # "none" \/ scm = "multi" => m.creds = snd.creds

InSocket == /\ sock.queue = <<>> \/ (sock.queue = <<Head(sock.queue)>> /\ Sent(Head(sock.queue)))
            /\ snd.pc \in {"open", "connect", "send", "failed"} => sock.queue = <<>>
            /\ sock.eof => snd.pc = "end" /\ ~snd.dgram
            /\ rcv.pc \in Before /\ snd.pc \in {"close", "end"} /\ (snd.data \/ snd.dgram)
                  => sock.queue # <<>>

\* scm_multi_recv on its way through the headers.
RightsHdr(f, n) == [type |-> "SCM_RIGHTS", len |-> CMSG_LEN(4 * n), creds |-> "none", fds |-> SubSeq(f, 1, n)]
CredHdr(k, c) == [type |-> "SCM_CREDENTIALS", len |-> k, creds |-> c, fds |-> <<>>]

Got(c) == c = snd.creds \/ (~snd.data /\ c = Nobody)

Arrived == /\ rcv.header = <<>> /\ rcv.fds = <<>>
           /\ Len(rcv.out) <= Len(snd.files) /\ rcv.out = SubSeq(snd.files, 1, Len(rcv.out))
           /\ Got(rcv.creds) \/ rcv.creds = "none"
           /\ (rcv.limit = NoLimit /\ snd.data) => rcv.out = snd.files /\ rcv.creds = snd.creds

AtRights == \E n \in 1 .. Len(snd.files) :
               /\ rcv.header = <<RightsHdr(snd.files, n)>> /\ rcv.fds = SubSeq(snd.files, 1, n)
               /\ rcv.out = <<>> /\ rcv.creds = snd.creds
               /\ rcv.limit = NoLimit => n = Len(snd.files)

AtCreds == \E k \in 0 .. 28, c \in {snd.creds, Nobody} :
               /\ rcv.header = <<CredHdr(k, c)>> /\ Got(c) /\ rcv.fds = <<>>
               /\ rcv.out = <<>> /\ (rcv.limit # NoLimit \/ ~snd.data)

AtBoth == \E k \in 0 .. 28, n \in 1 .. Len(snd.files) :
               /\ rcv.header = <<CredHdr(k, snd.creds), RightsHdr(snd.files, n)>>
               /\ rcv.fds = SubSeq(snd.files, 1, n) /\ rcv.out = <<>>
               /\ rcv.limit = NoLimit => n = Len(snd.files)

Walking == rcv.pc = "walk" =>
    /\ scm = "rights" => rcv.header = <<>> \/ rcv.fds = snd.files
    /\ scm = "cred" /\ snd.creds # "none" => rcv.header = <<>> \/ Head(rcv.header).creds = snd.creds
    /\ scm = "multi" => Arrived \/ AtRights \/ AtCreds \/ AtBoth

ScmInv == \/ ScmInit
          \/ ScmShape /\ Sending /\ Receiving /\ InSocket /\ Walking /\ Passed

\* The assignments to fields of the three records.
LEMMA SndPc ==
    ASSUME ScmShape
    PROVE  \A x : [snd EXCEPT !.pc = x]
                = Snd(x, snd.dgram, snd.files, snd.creds, snd.data, snd.fds)
<1> SUFFICES ASSUME NEW x PROVE [snd EXCEPT !.pc = x] = Snd(x, snd.dgram, snd.files, snd.creds, snd.data, snd.fds)
  BY Zenon
<1>1. PICK p, d, f, c, t, s : snd = Snd(p, d, f, c, t, s) /\ p = snd.pc /\ d = snd.dgram /\ f = snd.files /\ c = snd.creds /\ t = snd.data /\ s = snd.fds
  BY Zenon DEF ScmShape
<1>2. [Snd(p, d, f, c, t, s) EXCEPT !.pc = x] = Snd(x, d, f, c, t, s)
  BY DEF Snd
<1>3. QED
  BY <1>1, <1>2, Zenon

LEMMA SndPcFds ==
    ASSUME ScmShape
    PROVE  \A x, y : [snd EXCEPT !.pc = x, !.fds = y]
                   = Snd(x, snd.dgram, snd.files, snd.creds, snd.data, y)
<1> SUFFICES ASSUME NEW x, NEW y PROVE [snd EXCEPT !.pc = x, !.fds = y] = Snd(x, snd.dgram, snd.files, snd.creds, snd.data, y)
  BY Zenon
<1>1. PICK p, d, f, c, t, s : snd = Snd(p, d, f, c, t, s) /\ p = snd.pc /\ d = snd.dgram /\ f = snd.files /\ c = snd.creds /\ t = snd.data /\ s = snd.fds
  BY Zenon DEF ScmShape
<1>2. [Snd(p, d, f, c, t, s) EXCEPT !.pc = x] = Snd(x, d, f, c, t, s)
  BY DEF Snd
<1>3. [Snd(x, d, f, c, t, s) EXCEPT !.fds = y] = Snd(x, d, f, c, t, y)
  BY DEF Snd
<1>4. QED
  BY <1>1, <1>2, <1>3, Zenon

LEMMA RcvPc ==
    ASSUME ScmShape
    PROVE  \A x : [rcv EXCEPT !.pc = x]
                = Rcv(x, rcv.dgram, rcv.limit, rcv.header, rcv.fds, rcv.creds, rcv.out)
<1> SUFFICES ASSUME NEW x PROVE [rcv EXCEPT !.pc = x] = Rcv(x, rcv.dgram, rcv.limit, rcv.header, rcv.fds, rcv.creds, rcv.out)
  BY Zenon
<1>1. PICK p, d, l, h, f, c, o : rcv = Rcv(p, d, l, h, f, c, o) /\ p = rcv.pc /\ d = rcv.dgram /\ l = rcv.limit /\ h = rcv.header /\ f = rcv.fds /\ c = rcv.creds /\ o = rcv.out
  BY Zenon DEF ScmShape
<1>2. [Rcv(p, d, l, h, f, c, o) EXCEPT !.pc = x] = Rcv(x, d, l, h, f, c, o)
  BY DEF Rcv
<1>3. QED
  BY <1>1, <1>2, Zenon

LEMMA RcvHeaders ==
    ASSUME ScmShape
    PROVE  \A x, y, z : [rcv EXCEPT !.pc = x, !.header = y, !.fds = z]
                      = Rcv(x, rcv.dgram, rcv.limit, y, z, rcv.creds, rcv.out)
<1> SUFFICES ASSUME NEW x, NEW y, NEW z PROVE [rcv EXCEPT !.pc = x, !.header = y, !.fds = z] = Rcv(x, rcv.dgram, rcv.limit, y, z, rcv.creds, rcv.out)
  BY Zenon
<1>1. PICK p, d, l, h, f, c, o : rcv = Rcv(p, d, l, h, f, c, o) /\ p = rcv.pc /\ d = rcv.dgram /\ l = rcv.limit /\ h = rcv.header /\ f = rcv.fds /\ c = rcv.creds /\ o = rcv.out
  BY Zenon DEF ScmShape
<1>2. [Rcv(p, d, l, h, f, c, o) EXCEPT !.pc = x] = Rcv(x, d, l, h, f, c, o)
  BY DEF Rcv
<1>3. [Rcv(x, d, l, h, f, c, o) EXCEPT !.header = y] = Rcv(x, d, l, y, f, c, o)
  BY DEF Rcv
<1>4. [Rcv(x, d, l, y, f, c, o) EXCEPT !.fds = z] = Rcv(x, d, l, y, z, c, o)
  BY DEF Rcv
<1>5. QED
  BY <1>1, <1>2, <1>3, <1>4, Zenon

LEMMA RcvClose ==
    ASSUME ScmShape
    PROVE  \A x, y : [rcv EXCEPT !.pc = x, !.fds = y]
                   = Rcv(x, rcv.dgram, rcv.limit, rcv.header, y, rcv.creds, rcv.out)
<1> SUFFICES ASSUME NEW x, NEW y PROVE [rcv EXCEPT !.pc = x, !.fds = y] = Rcv(x, rcv.dgram, rcv.limit, rcv.header, y, rcv.creds, rcv.out)
  BY Zenon
<1>1. PICK p, d, l, h, f, c, o : rcv = Rcv(p, d, l, h, f, c, o) /\ p = rcv.pc /\ d = rcv.dgram /\ l = rcv.limit /\ h = rcv.header /\ f = rcv.fds /\ c = rcv.creds /\ o = rcv.out
  BY Zenon DEF ScmShape
<1>2. [Rcv(p, d, l, h, f, c, o) EXCEPT !.pc = x] = Rcv(x, d, l, h, f, c, o)
  BY DEF Rcv
<1>3. [Rcv(x, d, l, h, f, c, o) EXCEPT !.fds = y] = Rcv(x, d, l, h, y, c, o)
  BY DEF Rcv
<1>4. QED
  BY <1>1, <1>2, <1>3, Zenon

LEMMA RcvOut ==
    ASSUME ScmShape
    PROVE  \A x, y : [rcv EXCEPT !.pc = x, !.out = y]
                   = Rcv(x, rcv.dgram, rcv.limit, rcv.header, rcv.fds, rcv.creds, y)
<1> SUFFICES ASSUME NEW x, NEW y PROVE [rcv EXCEPT !.pc = x, !.out = y] = Rcv(x, rcv.dgram, rcv.limit, rcv.header, rcv.fds, rcv.creds, y)
  BY Zenon
<1>1. PICK p, d, l, h, f, c, o : rcv = Rcv(p, d, l, h, f, c, o) /\ p = rcv.pc /\ d = rcv.dgram /\ l = rcv.limit /\ h = rcv.header /\ f = rcv.fds /\ c = rcv.creds /\ o = rcv.out
  BY Zenon DEF ScmShape
<1>2. [Rcv(p, d, l, h, f, c, o) EXCEPT !.pc = x] = Rcv(x, d, l, h, f, c, o)
  BY DEF Rcv
<1>3. [Rcv(x, d, l, h, f, c, o) EXCEPT !.out = y] = Rcv(x, d, l, h, f, c, y)
  BY DEF Rcv
<1>4. QED
  BY <1>1, <1>2, <1>3, Zenon

LEMMA RcvCreds ==
    ASSUME ScmShape
    PROVE  \A x, y : [rcv EXCEPT !.pc = x, !.creds = y]
                   = Rcv(x, rcv.dgram, rcv.limit, rcv.header, rcv.fds, y, rcv.out)
<1> SUFFICES ASSUME NEW x, NEW y PROVE [rcv EXCEPT !.pc = x, !.creds = y] = Rcv(x, rcv.dgram, rcv.limit, rcv.header, rcv.fds, y, rcv.out)
  BY Zenon
<1>1. PICK p, d, l, h, f, c, o : rcv = Rcv(p, d, l, h, f, c, o) /\ p = rcv.pc /\ d = rcv.dgram /\ l = rcv.limit /\ h = rcv.header /\ f = rcv.fds /\ c = rcv.creds /\ o = rcv.out
  BY Zenon DEF ScmShape
<1>2. [Rcv(p, d, l, h, f, c, o) EXCEPT !.pc = x] = Rcv(x, d, l, h, f, c, o)
  BY DEF Rcv
<1>3. [Rcv(x, d, l, h, f, c, o) EXCEPT !.creds = y] = Rcv(x, d, l, h, f, y, o)
  BY DEF Rcv
<1>4. QED
  BY <1>1, <1>2, <1>3, Zenon

LEMMA RcvFiles ==
    ASSUME ScmShape
    PROVE  \A x, y, z : [rcv EXCEPT !.header = x, !.out = y, !.fds = z]
                      = Rcv(rcv.pc, rcv.dgram, rcv.limit, x, z, rcv.creds, y)
<1> SUFFICES ASSUME NEW x, NEW y, NEW z PROVE [rcv EXCEPT !.header = x, !.out = y, !.fds = z] = Rcv(rcv.pc, rcv.dgram, rcv.limit, x, z, rcv.creds, y)
  BY Zenon
<1>1. PICK p, d, l, h, f, c, o : rcv = Rcv(p, d, l, h, f, c, o) /\ p = rcv.pc /\ d = rcv.dgram /\ l = rcv.limit /\ h = rcv.header /\ f = rcv.fds /\ c = rcv.creds /\ o = rcv.out
  BY Zenon DEF ScmShape
<1>2. [Rcv(p, d, l, h, f, c, o) EXCEPT !.header = x] = Rcv(p, d, l, x, f, c, o)
  BY DEF Rcv
<1>3. [Rcv(p, d, l, x, f, c, o) EXCEPT !.out = y] = Rcv(p, d, l, x, f, c, y)
  BY DEF Rcv
<1>4. [Rcv(p, d, l, x, f, c, y) EXCEPT !.fds = z] = Rcv(p, d, l, x, z, c, y)
  BY DEF Rcv
<1>5. QED
  BY <1>1, <1>2, <1>3, <1>4, Zenon

LEMMA RcvNext ==
    ASSUME ScmShape
    PROVE  \A x, y : [rcv EXCEPT !.header = x, !.creds = y]
                   = Rcv(rcv.pc, rcv.dgram, rcv.limit, x, rcv.fds, y, rcv.out)
<1> SUFFICES ASSUME NEW x, NEW y PROVE [rcv EXCEPT !.header = x, !.creds = y] = Rcv(rcv.pc, rcv.dgram, rcv.limit, x, rcv.fds, y, rcv.out)
  BY Zenon
<1>1. PICK p, d, l, h, f, c, o : rcv = Rcv(p, d, l, h, f, c, o) /\ p = rcv.pc /\ d = rcv.dgram /\ l = rcv.limit /\ h = rcv.header /\ f = rcv.fds /\ c = rcv.creds /\ o = rcv.out
  BY Zenon DEF ScmShape
<1>2. [Rcv(p, d, l, h, f, c, o) EXCEPT !.header = x] = Rcv(p, d, l, x, f, c, o)
  BY DEF Rcv
<1>3. [Rcv(p, d, l, x, f, c, o) EXCEPT !.creds = y] = Rcv(p, d, l, x, f, y, o)
  BY DEF Rcv
<1>4. QED
  BY <1>1, <1>2, <1>3, Zenon

LEMMA SockState ==
    ASSUME ScmShape
    PROVE  \A x : [sock EXCEPT !.state = x]
                = Sock(x, sock.passcred, sock.accepted, sock.queue, sock.connected, sock.eof)
<1> SUFFICES ASSUME NEW x PROVE [sock EXCEPT !.state = x] = Sock(x, sock.passcred, sock.accepted, sock.queue, sock.connected, sock.eof)
  BY Zenon
<1>1. PICK s, p, a, q, c, e : sock = Sock(s, p, a, q, c, e) /\ s = sock.state /\ p = sock.passcred /\ a = sock.accepted /\ q = sock.queue /\ c = sock.connected /\ e = sock.eof
  BY Zenon DEF ScmShape
<1>2. [Sock(s, p, a, q, c, e) EXCEPT !.state = x] = Sock(x, p, a, q, c, e)
  BY DEF Sock
<1>3. QED
  BY <1>1, <1>2, Zenon

LEMMA SockPasscred ==
    ASSUME ScmShape
    PROVE  \A x : [sock EXCEPT !.passcred = x]
                = Sock(sock.state, x, sock.accepted, sock.queue, sock.connected, sock.eof)
<1> SUFFICES ASSUME NEW x PROVE [sock EXCEPT !.passcred = x] = Sock(sock.state, x, sock.accepted, sock.queue, sock.connected, sock.eof)
  BY Zenon
<1>1. PICK s, p, a, q, c, e : sock = Sock(s, p, a, q, c, e) /\ s = sock.state /\ p = sock.passcred /\ a = sock.accepted /\ q = sock.queue /\ c = sock.connected /\ e = sock.eof
  BY Zenon DEF ScmShape
<1>2. [Sock(s, p, a, q, c, e) EXCEPT !.passcred = x] = Sock(s, x, a, q, c, e)
  BY DEF Sock
<1>3. QED
  BY <1>1, <1>2, Zenon

LEMMA SockAccepted ==
    ASSUME ScmShape
    PROVE  \A x : [sock EXCEPT !.accepted = x]
                = Sock(sock.state, sock.passcred, x, sock.queue, sock.connected, sock.eof)
<1> SUFFICES ASSUME NEW x PROVE [sock EXCEPT !.accepted = x] = Sock(sock.state, sock.passcred, x, sock.queue, sock.connected, sock.eof)
  BY Zenon
<1>1. PICK s, p, a, q, c, e : sock = Sock(s, p, a, q, c, e) /\ s = sock.state /\ p = sock.passcred /\ a = sock.accepted /\ q = sock.queue /\ c = sock.connected /\ e = sock.eof
  BY Zenon DEF ScmShape
<1>2. [Sock(s, p, a, q, c, e) EXCEPT !.accepted = x] = Sock(s, p, x, q, c, e)
  BY DEF Sock
<1>3. QED
  BY <1>1, <1>2, Zenon

LEMMA SockQueue ==
    ASSUME ScmShape
    PROVE  \A x : [sock EXCEPT !.queue = x]
                = Sock(sock.state, sock.passcred, sock.accepted, x, sock.connected, sock.eof)
<1> SUFFICES ASSUME NEW x PROVE [sock EXCEPT !.queue = x] = Sock(sock.state, sock.passcred, sock.accepted, x, sock.connected, sock.eof)
  BY Zenon
<1>1. PICK s, p, a, q, c, e : sock = Sock(s, p, a, q, c, e) /\ s = sock.state /\ p = sock.passcred /\ a = sock.accepted /\ q = sock.queue /\ c = sock.connected /\ e = sock.eof
  BY Zenon DEF ScmShape
<1>2. [Sock(s, p, a, q, c, e) EXCEPT !.queue = x] = Sock(s, p, a, x, c, e)
  BY DEF Sock
<1>3. QED
  BY <1>1, <1>2, Zenon

LEMMA SockConnected ==
    ASSUME ScmShape
    PROVE  \A x : [sock EXCEPT !.connected = x]
                = Sock(sock.state, sock.passcred, sock.accepted, sock.queue, x, sock.eof)
<1> SUFFICES ASSUME NEW x PROVE [sock EXCEPT !.connected = x] = Sock(sock.state, sock.passcred, sock.accepted, sock.queue, x, sock.eof)
  BY Zenon
<1>1. PICK s, p, a, q, c, e : sock = Sock(s, p, a, q, c, e) /\ s = sock.state /\ p = sock.passcred /\ a = sock.accepted /\ q = sock.queue /\ c = sock.connected /\ e = sock.eof
  BY Zenon DEF ScmShape
<1>2. [Sock(s, p, a, q, c, e) EXCEPT !.connected = x] = Sock(s, p, a, q, x, e)
  BY DEF Sock
<1>3. QED
  BY <1>1, <1>2, Zenon

LEMMA SockEof ==
    ASSUME ScmShape
    PROVE  \A x : [sock EXCEPT !.eof = x]
                = Sock(sock.state, sock.passcred, sock.accepted, sock.queue, sock.connected, x)
<1> SUFFICES ASSUME NEW x PROVE [sock EXCEPT !.eof = x] = Sock(sock.state, sock.passcred, sock.accepted, sock.queue, sock.connected, x)
  BY Zenon
<1>1. PICK s, p, a, q, c, e : sock = Sock(s, p, a, q, c, e) /\ s = sock.state /\ p = sock.passcred /\ a = sock.accepted /\ q = sock.queue /\ c = sock.connected /\ e = sock.eof
  BY Zenon DEF ScmShape
<1>2. [Sock(s, p, a, q, c, e) EXCEPT !.eof = x] = Sock(s, p, a, q, c, x)
  BY DEF Sock
<1>3. QED
  BY <1>1, <1>2, Zenon

\* Sizes of ancillary data.
LEMMA Sizes == /\ CMSG_SPACE(4) = 24 /\ CMSG_SPACE(UCRED) = 32 /\ NoLimit = 4144 /\ MAX_FDS = 1024
               /\ CMSG_LEN(UCRED) = 28 /\ CMSG_LEN(0) = 16 /\ CMSG_LEN(4) = 20
  BY DEF CMSG_SPACE, CMSG_LEN, UCRED, NoLimit, MAX_FDS

LEMMA RightsFit ==
    ASSUME NEW f \in Seq(STRING), NEW s \in Int
    PROVE  /\ \/ RightsHeader(s, f) = <<>>
              \/ \E n \in 1 .. Len(f) : s >= 16 /\ RightsHeader(s, f) = <<RightsHdr(f, n)>>
           /\ s >= 16 + 4 * Len(f) /\ f # <<>> => RightsHeader(s, f) = <<RightsHdr(f, Len(f))>>
<1> DEFINE room == IF s > 16 THEN (s - 16) \div 4 ELSE 0
<1> DEFINE n == IF Len(f) < room THEN Len(f) ELSE room
<1>1. RightsHeader(s, f) = IF n = 0 THEN <<>> ELSE <<RightsHdr(f, n)>>
  BY SMTT(60) DEF RightsHeader, RightsHdr
<1>2. Len(f) \in Nat /\ (f # <<>> => Len(f) > 0)
  BY SMTT(60)
<1>3. room \in Nat /\ (room > 0 => s >= 16) /\ (s >= 16 + 4 * Len(f) => room >= Len(f))
  BY <1>2, SMTT(60)
<1>4. n \in 0 .. Len(f) /\ (n # 0 => s >= 16)
  BY <1>2, <1>3, SMTT(60)
<1>5. s >= 16 + 4 * Len(f) => n = Len(f)
  BY <1>2, <1>3, SMTT(60)
<1> HIDE DEF n
<1>6. QED
  BY <1>1, <1>2, <1>4, <1>5, SMTT(60)

LEMMA CredFit ==
    ASSUME sock.passcred, NEW s \in Nat, NEW c
    PROVE  /\ s < 16 => CredHeader(s, c) = <<>>
           /\ s >= 16 => \E k \in 0 .. 28 : CredHeader(s, c) = <<CredHdr(k, c)>> 
<1>1. s < 16 => CredHeader(s, c) = <<>>
  BY SMTT(60) DEF CredHeader
<1>2. ASSUME s >= 16 PROVE \E k \in 0 .. 28 : CredHeader(s, c) = <<CredHdr(k, c)>>
  <2>1. PICK k \in 0 .. 28 : k = IF s < CMSG_LEN(UCRED) THEN s ELSE CMSG_LEN(UCRED)
    BY Sizes, SMTT(60)
  <2>2. ~(~sock.passcred \/ s < 16)
    BY <1>2
  <2>3. CredHeader(s, c) = <<CredHdr(k, c)>>
    BY <2>1, <2>2, Zenon DEF CredHeader, CredHdr
  <2>4. QED
    BY <2>3
<1>3. QED
  BY <1>1, <1>2, SMTT(60)

\* What the sender does changes neither its command line nor what arrived.
LEMMA ScmKeep ==
    ASSUME scm' = scm, rcv' = rcv, snd'.files = snd.files, snd'.creds = snd.creds, snd'.data = snd.data,
           sock'.passcred = sock.passcred, Receiving, Walking, Passed
    PROVE  Receiving' /\ Walking' /\ Passed'
<1>1. Receiving'
  BY Zenon DEF Receiving
<1>2. Walking'
  <2>1. Arrived => Arrived'
    BY Zenon DEF Arrived, Got
  <2>2. AtRights => AtRights'
    BY Zenon DEF AtRights
  <2>3. AtCreds => AtCreds'
    BY Zenon DEF AtCreds, Got
  <2>4. AtBoth => AtBoth'
    BY Zenon DEF AtBoth
  <2>5. QED
    BY <2>1, <2>2, <2>3, <2>4, Zenon DEF Walking
<1>3. Passed'
  BY Zenon DEF Passed
<1>4. QED
  BY <1>1, <1>2, <1>3

LEMMA ScmSndMove ==
    ASSUME ScmShape, Sending, Receiving, InSocket, Walking, Passed, scm' = scm, rcv' = rcv,
           NEW p, NEW g, NEW c, NEW q, NEW e,
           snd' = Snd(p, snd.dgram, snd.files, snd.creds, snd.data, g),
           sock' = Sock(sock.state, sock.passcred, sock.accepted, q, c, e),
           p \in {"connect", "send", "close", "end", "failed"},
           p \in {"connect", "send"} => g = snd.files,
           q = <<>> \/ (q = <<Head(q)>> /\ Sent(Head(q))),
           p \in {"connect", "send", "failed"} => q = <<>>,
           e => p = "end" /\ ~snd.dgram,
           rcv.pc \in Before /\ p \in {"close", "end"} /\ (snd.data \/ snd.dgram) => q # <<>>
    PROVE  ScmInv'
<1>1. /\ snd'.pc = p /\ snd'.dgram = snd.dgram /\ snd'.files = snd.files /\ snd'.creds = snd.creds
      /\ snd'.data = snd.data /\ snd'.fds = g
  BY SMTT(60) DEF Snd
<1>2. /\ sock'.passcred = sock.passcred /\ sock'.queue = q /\ sock'.eof = e /\ sock'.state = sock.state
      /\ sock'.accepted = sock.accepted /\ sock'.connected = c
  BY SMTT(60) DEF Sock
<1>3. Receiving' /\ Walking' /\ Passed'
  BY <1>1, <1>2, ScmKeep, Zenon
<1>4. ScmShape'
  BY <1>1, <1>2, Zenon DEF ScmShape
<1>5. Sending'
  <2>1. p \in {"open", "connect", "send", "close", "end", "failed"}
    BY SMTT(60)
  <2>2. QED
    BY <1>1, <2>1, ZenonT(60) DEF Sending
<1>6. InSocket'
  <2>1. p # "open"
    BY SMTT(60)
  <2>2. p \in {"open", "connect", "send", "failed"} => q = <<>>
    BY <2>1, SMTT(60)
  <2>3. \A m : Sent(m)' <=> Sent(m)
    BY <1>1, Zenon DEF Sent
  <2>4. QED
    BY <1>1, <1>2, <2>2, <2>3, Zenon DEF InSocket
<1>7. QED
  BY <1>3, <1>4, <1>5, <1>6, Zenon DEF ScmInv

LEMMA ScmSender ==
    ASSUME ScmShape, Sending, Receiving, InSocket, Walking, Passed,
           OpenFile \/ unixConnect \/ Sendmsg \/ SenderExits
    PROVE  ScmInv'
<1>1. /\ snd = Snd(snd.pc, snd.dgram, snd.files, snd.creds, snd.data, snd.fds)
      /\ sock = Sock(sock.state, sock.passcred, sock.accepted, sock.queue, sock.connected, sock.eof)
  BY Zenon DEF ScmShape
<1>2. scm' = scm /\ rcv' = rcv
  BY SMTT(60) DEF OpenFile, unixConnect, Sendmsg, SenderExits
<1>3. CASE OpenFile
  <2>1. snd.pc = "open" /\ sock' = sock
    BY <1>3, SMTT(60) DEF OpenFile
  <2>2. sock.queue = <<>> /\ ~sock.eof
    BY <2>1, SMTT(60) DEF InSocket
  <2>3. \/ snd' = Snd("connect", snd.dgram, snd.files, snd.creds, snd.data, snd.files)
        \/ snd' = Snd("failed", snd.dgram, snd.files, snd.creds, snd.data, <<>>)
    BY SndPc, SndPcFds, <1>3, Zenon DEF OpenFile, SendFails
  <2>4. QED
    BY <1>1, <1>2, <2>1, <2>2, <2>3, ScmSndMove, SMTT(60)
<1>4. CASE unixConnect
  <2>1. snd.pc = "connect"
    BY <1>4, SMTT(60) DEF unixConnect
  <2>2. sock.queue = <<>> /\ ~sock.eof /\ snd.fds = snd.files
    BY <2>1, SMTT(60) DEF InSocket, Sending
  <2>3. PICK yes : yes = TRUE
    BY ZenonT(60)
  <2>4. CASE sock.state = (IF snd.dgram THEN "bound" ELSE "listening")
    <3>1. /\ snd' = Snd("send", snd.dgram, snd.files, snd.creds, snd.data, snd.files)
          /\ sock' = Sock(sock.state, sock.passcred, sock.accepted, sock.queue, yes, sock.eof)
      BY SndPc, SndPcFds, SockConnected, SockEof, <1>4, <2>2, <2>3, <2>4, ZenonT(60) DEF unixConnect
    <3>2. QED
      BY <1>2, <2>2, <3>1, ScmSndMove, SMTT(60)
  <2>5. CASE sock.state # (IF snd.dgram THEN "bound" ELSE "listening")
    <3>1. /\ snd' = Snd("failed", snd.dgram, snd.files, snd.creds, snd.data, <<>>) /\ sock' = sock
      BY SndPc, SndPcFds, <1>4, <2>5, Zenon DEF unixConnect, SendFails
    <3>2. QED
      BY <1>1, <1>2, <2>2, <3>1, ScmSndMove, SMTT(60)
  <2>6. QED
    BY <2>4, <2>5, SMTT(60)
<1>5. CASE Sendmsg
  <2>1. snd.pc = "send" /\ snd' = Snd("close", snd.dgram, snd.files, snd.creds, snd.data, snd.fds)
    BY SndPc, SndPcFds, <1>5, ZenonT(60) DEF Sendmsg
  <2>2. sock.queue = <<>> /\ ~sock.eof /\ snd.fds = snd.files
    BY <2>1, SMTT(60) DEF InSocket, Sending
  <2>3. CASE ~(snd.data \/ snd.dgram)
    <3>1. sock' = sock
      BY <1>5, <2>3, SMTT(60) DEF Sendmsg
    <3>2. QED
      BY <1>1, <1>2, <2>1, <2>2, <2>3, <3>1, ScmSndMove, SMTT(60)
  <2>4. CASE snd.data \/ snd.dgram
    <3>1. PICK msg : /\ msg = CASE scm = "rights" -> rightsMsg [] scm = "cred" -> credMsg [] OTHER -> multiMsg
                     /\ sock' = [sock EXCEPT !.queue = Append(@, msg)]
      BY <1>5, <2>4, Zenon DEF Sendmsg
    <3>2. Sent(msg)
      <4>1. scm \in {"rights", "cred", "multi"}
        BY SMTT(60) DEF Sending
      <4>2. snd.creds # "none" => Attached = snd.creds
        BY SMTT(60) DEF Attached
      <4>3. CASE scm = "rights"
        <5>1. msg = rightsMsg
          BY <3>1, <4>3, SMTT(60)
        <5>2. QED
          BY <2>2, <4>2, <4>3, <5>1, SMTT(60) DEF Sent, rightsMsg
      <4>4. CASE scm = "cred"
        <5>1. msg = credMsg
          BY <3>1, <4>4, SMTT(60)
        <5>2. QED
          BY <2>2, <4>2, <4>4, <5>1, SMTT(60) DEF Sent, credMsg, Sending
      <4>5. CASE scm = "multi"
        <5>1. msg = multiMsg
          BY <3>1, <4>5, SMTT(60)
        <5>2. QED
          BY <2>2, <4>2, <4>5, <5>1, SMTT(60) DEF Sent, multiMsg
      <4>6. QED
        BY <4>1, <4>3, <4>4, <4>5, SMTT(60)
    <3>3. sock' = Sock(sock.state, sock.passcred, sock.accepted, <<msg>>, sock.connected, sock.eof)
      <4>1. Append(sock.queue, msg) = <<msg>>
        BY <2>2, SMTT(60)
      <4>2. QED
        BY SockQueue, <3>1, <4>1, ZenonT(60)
    <3>4. <<msg>> # <<>> /\ Head(<<msg>>) = msg
      BY SMTT(60)
    <3>5. QED
      BY <1>1, <1>2, <2>1, <2>2, <3>2, <3>3, <3>4, ScmSndMove, SMTT(60)
  <2>5. QED
    BY <2>3, <2>4
<1>6. CASE SenderExits
  <2>1. PICK end : end = ~snd.dgram
    BY Zenon
  <2>2. /\ snd.pc = "close" /\ snd' = Snd("end", snd.dgram, snd.files, snd.creds, snd.data, <<>>)
        /\ sock' = Sock(sock.state, sock.passcred, sock.accepted, sock.queue, sock.connected, end)
    BY SndPc, SndPcFds, SockConnected, SockEof, <1>6, <2>1, ZenonT(60) DEF SenderExits
  <2>3. /\ sock.queue = <<>> \/ (sock.queue = <<Head(sock.queue)>> /\ Sent(Head(sock.queue)))
        /\ rcv.pc \in Before /\ (snd.data \/ snd.dgram) => sock.queue # <<>>
    BY <2>2, SMTT(60) DEF InSocket
  <2>4. end => ~snd.dgram
    BY <2>1, Zenon
  <2>5. /\ "end" \in {"connect", "send", "close", "end", "failed"}
        /\ "end" \notin {"connect", "send"} /\ "end" \notin {"connect", "send", "failed"}
    OBVIOUS
  <2>6. /\ "end" \in {"connect", "send"} => <<>> = snd.files
        /\ "end" \in {"connect", "send", "failed"} => sock.queue = <<>>
        /\ end => "end" = "end" /\ ~snd.dgram
        /\ rcv.pc \in Before /\ "end" \in {"close", "end"} /\ (snd.data \/ snd.dgram) => sock.queue # <<>>
    BY <2>3, <2>4, <2>5, Zenon
  <2>7. QED
    BY <1>2, <2>2, <2>3, <2>5, <2>6, ScmSndMove, Zenon
<1>7. QED
  BY <1>3, <1>4, <1>5, <1>6, SMTT(60)

\* The receiver before recvmsg().
LEMMA ScmRcvMove ==
    ASSUME ScmShape, Sending, Receiving, InSocket, Walking, Passed, scm' = scm, snd' = snd,
           NEW q, NEW st, NEW pa, NEW ac,
           rcv' = Rcv(q, rcv.dgram, rcv.limit, rcv.header, rcv.fds, rcv.creds, rcv.out),
           sock' = Sock(st, pa, ac, sock.queue, sock.connected, sock.eof),
           rcv.pc \in Before, q \in Before, q = "recv" => (scm = "rights" <=> ~pa)
    PROVE  ScmInv'
<1>1. /\ rcv'.pc = q /\ rcv'.dgram = rcv.dgram /\ rcv'.limit = rcv.limit /\ rcv'.header = rcv.header
      /\ rcv'.fds = rcv.fds /\ rcv'.creds = rcv.creds /\ rcv'.out = rcv.out
  BY SMTT(60) DEF Rcv
<1>2. /\ sock'.state = st /\ sock'.passcred = pa /\ sock'.accepted = ac /\ sock'.queue = sock.queue
      /\ sock'.connected = sock.connected /\ sock'.eof = sock.eof
  BY SMTT(60) DEF Sock
<1>3. ScmShape'
  BY <1>1, <1>2, Zenon DEF ScmShape
<1>4. Sending'
  BY <1>1, Zenon DEF Sending
<1>5. Receiving'
  BY <1>1, <1>2, Zenon DEF Receiving
<1>6. InSocket'
  BY <1>1, <1>2, ZenonT(60) DEF InSocket, Sent
<1>7. Walking' /\ Passed'
  <2>1. q # "walk" /\ q # "end"
    BY SMTT(60) DEF Before
  <2>2. QED
    BY <1>1, <2>1, Zenon DEF Walking, Passed
<1>8. QED
  BY <1>3, <1>4, <1>5, <1>6, <1>7, Zenon DEF ScmInv

LEMMA ScmPrepare ==
    ASSUME ScmShape, Sending, Receiving, InSocket, Walking, Passed,
           Remove \/ unixBind \/ Listen \/ Accept \/ Setsockopt
    PROVE  ScmInv'
<1>1. /\ rcv = Rcv(rcv.pc, rcv.dgram, rcv.limit, rcv.header, rcv.fds, rcv.creds, rcv.out)
      /\ sock = Sock(sock.state, sock.passcred, sock.accepted, sock.queue, sock.connected, sock.eof)
  BY Zenon DEF ScmShape
<1>2. scm' = scm /\ snd' = snd /\ rcv.pc \in Before
  BY SMTT(60) DEF Remove, unixBind, Listen, Accept, Setsockopt, Before
<1>3. CASE Remove
  <2>1. /\ rcv' = Rcv("bind", rcv.dgram, rcv.limit, rcv.header, rcv.fds, rcv.creds, rcv.out)
        /\ sock' = Sock("none", sock.passcred, sock.accepted, sock.queue, sock.connected, sock.eof)
    BY RcvPc, SockState, SockAccepted, SockPasscred, <1>3, Zenon DEF Remove
  <2>2. QED
    BY <1>2, <2>1, ScmRcvMove, SMTT(60) DEF Before
<1>4. CASE unixBind
  <2>1. PICK q \in {"option", "listen"} : q = IF rcv.dgram THEN "option" ELSE "listen"
    BY Zenon
  <2>2. /\ rcv' = Rcv(q, rcv.dgram, rcv.limit, rcv.header, rcv.fds, rcv.creds, rcv.out)
        /\ sock' = Sock("bound", sock.passcred, sock.accepted, sock.queue, sock.connected, sock.eof)
    BY RcvPc, SockState, SockAccepted, SockPasscred, <1>4, <2>1, Zenon DEF unixBind
  <2>3. QED
    BY <1>2, <2>2, ScmRcvMove, SMTT(60) DEF Before
<1>5. CASE Listen
  <2>1. /\ rcv' = Rcv("accept", rcv.dgram, rcv.limit, rcv.header, rcv.fds, rcv.creds, rcv.out)
        /\ sock' = Sock("listening", sock.passcred, sock.accepted, sock.queue, sock.connected, sock.eof)
    BY RcvPc, SockState, SockAccepted, SockPasscred, <1>5, ZenonT(60) DEF Listen
  <2>2. QED
    BY <1>2, <2>1, ScmRcvMove, SMTT(60) DEF Before
<1>6. CASE Accept
  <2>1. PICK yes : yes = TRUE
    BY Zenon
  <2>2. /\ rcv' = Rcv("option", rcv.dgram, rcv.limit, rcv.header, rcv.fds, rcv.creds, rcv.out)
        /\ sock' = Sock(sock.state, sock.passcred, yes, sock.queue, sock.connected, sock.eof)
    BY RcvPc, SockState, SockAccepted, SockPasscred, <1>6, <2>1, Zenon DEF Accept
  <2>3. QED
    BY <1>2, <2>2, ScmRcvMove, SMTT(60) DEF Before
<1>7. CASE Setsockopt
  <2>1. PICK pa : pa = (scm # "rights")
    BY Zenon
  <2>2. scm = "rights" <=> ~pa
    BY <2>1, Zenon
  <2>3. /\ rcv' = Rcv("recv", rcv.dgram, rcv.limit, rcv.header, rcv.fds, rcv.creds, rcv.out)
        /\ sock' = Sock(sock.state, pa, sock.accepted, sock.queue, sock.connected, sock.eof)
    BY RcvPc, SockState, SockAccepted, SockPasscred, <1>7, <2>1, Zenon DEF Setsockopt
  <2>4. QED
    BY <1>2, <2>2, <2>3, ScmRcvMove, SMTT(60) DEF Before
<1>8. QED
  BY <1>3, <1>4, <1>5, <1>6, <1>7

\* Two sequences of one length with the same elements are equal.
LEMMA SameElements == ASSUME NEW S, NEW s \in Seq(S), NEW t \in Seq(S), Len(s) = Len(t),
                             \A i \in 1..Len(s) : s[i] = t[i]
                      PROVE  s = t
  BY SMTT(60)

\* Appending one message to another makes the queue of the two.
LEMMA Pair == ASSUME NEW x, NEW y PROVE <<x>> \o <<y>> = <<x, y>>
<1>1. <<x>> \in Seq({x, y}) /\ <<y>> \in Seq({x, y}) /\ <<x, y>> \in Seq({x, y})
  OBVIOUS
<1>2. Len(<<x>> \o <<y>>) = 2 /\ <<x>> \o <<y>> \in Seq({x, y})
  BY <1>1
<1>3. (<<x>> \o <<y>>)[1] = x /\ (<<x>> \o <<y>>)[2] = y
  BY <1>1
<1>4. \A i \in 1 .. 2 : (<<x>> \o <<y>>)[i] = <<x, y>>[i]
  BY <1>3
<1>5. QED
  BY <1>1, <1>2, <1>4, SameElements, Zenon

LEMMA Tuples == /\ \A x : <<x>> # <<>> /\ <<>> \o <<x>> = <<x>> /\ <<x>> \o <<>> = <<x>>
                /\ \A x, y : <<x>> \o <<y>> = <<x, y>>
                /\ \A x : Head(<<x>>) = x /\ Tail(<<x>>) = <<>> /\ Len(<<x>>) = 1 /\ <<x>>[1] = x
                /\ \A x, y : /\ Head(<<x, y>>) = x /\ Tail(<<x, y>>) = <<y>> /\ Len(<<x, y>>) = 2
                             /\ <<x, y>>[2] = y /\ <<x, y>> # <<>>
<1>1. \A x : <<x>> # <<>> /\ <<>> \o <<x>> = <<x>> /\ <<x>> \o <<>> = <<x>>
  BY SMTT(60)
<1>2. \A x, y : <<x>> \o <<y>> = <<x, y>>
  BY Pair, Zenon
<1>3. \A x : Head(<<x>>) = x /\ Tail(<<x>>) = <<>> /\ Len(<<x>>) = 1 /\ <<x>>[1] = x
  BY SMTT(60)
<1>4. \A x, y : Tail(<<x, y>>) = <<y>>
  OBVIOUS
<1>5. \A x, y : Head(<<x, y>>) = x /\ Len(<<x, y>>) = 2 /\ <<x, y>>[2] = y /\ <<x, y>> # <<>>
  OBVIOUS
<1>6. QED
  BY <1>1, <1>2, <1>3, <1>4, <1>5, Zenon

\* What recvmsg() puts in the buffer for ancillary data.
LEMMA HeadersRights ==
    ASSUME scm = "rights", ~sock.passcred, NEW m, NEW f \in Seq(STRING), Len(f) = 1, m.fds = f
    PROVE  Headers(m) = <<RightsHdr(f, 1)>>
<1>1. Space = 24
  BY Sizes, SMTT(60) DEF Space, rightsSpace
<1>2. CredHeader(Space, m.creds) = <<>>
  BY SMTT(60) DEF CredHeader
<1>3. RightsHeader(24, f) = <<RightsHdr(f, 1)>>
  <2>1. f # <<>> /\ 24 >= 16 + 4 * Len(f)
    BY SMTT(60)
  <2>2. 24 \in Int
    OBVIOUS
  <2>3. RightsHeader(24, f) = <<RightsHdr(f, Len(f))>>
    BY <2>1, <2>2, RightsFit, Zenon
  <2>4. QED
    BY <2>3, Zenon
<1>4. Headers(m) = CredHeader(Space, m.creds) \o RightsHeader(Space - 0, m.fds)
  BY DEF Headers
<1>5. Space - 0 = 24
  BY <1>1, SMTT(60)
<1>6. Headers(m) = <<>> \o <<RightsHdr(f, 1)>>
  BY <1>2, <1>3, <1>4, <1>5
<1>7. QED
  BY <1>6, Tuples, Zenon

LEMMA HeadersCred ==
    ASSUME scm = "cred", sock.passcred, NEW m, m.fds = <<>>
    PROVE  \E k \in 0 .. 28 : Headers(m) = <<CredHdr(k, m.creds)>>
<1>1. Space = 32
  BY Sizes, SMTT(60) DEF Space, credSpace
<1>2. PICK k \in 0 .. 28 : CredHeader(32, m.creds) = <<CredHdr(k, m.creds)>>
  BY CredFit, SMTT(60)
<1>3. RightsHeader(0, <<>>) = <<>>
  <2>1. Len(<<>>) = 0
    OBVIOUS
  <2>2. QED
    BY <2>1, SMTT(60) DEF RightsHeader
<1>4. Headers(m) = CredHeader(32, m.creds) \o RightsHeader(32 - 32, m.fds)
  BY <1>1, Sizes, SMTT(60) DEF Headers
<1>5. 32 - 32 = 0
  BY SMTT(60)
<1>6. Headers(m) = <<CredHdr(k, m.creds)>> \o <<>>
  BY <1>2, <1>3, <1>4, <1>5, Zenon
<1>7. QED
  BY <1>6, Tuples, Zenon

LEMMA HeadersMulti ==
    ASSUME scm = "multi", sock.passcred, rcv.limit \in Nat, NEW m,
           NEW f \in Seq(STRING), f # <<>>, Len(f) <= MAX_FDS, m.fds = f
    PROVE  \/ Headers(m) = <<>> /\ rcv.limit # NoLimit
           \/ \E k \in 0 .. 28 : Headers(m) = <<CredHdr(k, m.creds)>> /\ rcv.limit # NoLimit
           \/ \E k \in 0 .. 28, n \in 1 .. Len(f) :
                 /\ Headers(m) = <<CredHdr(k, m.creds), RightsHdr(f, n)>>
                 /\ rcv.limit = NoLimit => n = Len(f)
<1>1. PICK l \in Nat : l = rcv.limit
  BY SMTT(60)
<1>2. Space = l
  BY <1>1 DEF Space, multiSpace
<1>3. PICK u \in Nat : u = IF l < 32 THEN l ELSE 32
  BY SMTT(60)
<1>4. Headers(m) = CredHeader(l, m.creds) \o RightsHeader(l - u, f)
  BY <1>2, <1>3, Sizes, SMTT(60) DEF Headers
<1>5. l - u \in Int
  OBVIOUS
<1>6. CASE l < 16
  <2>1. CredHeader(l, m.creds) = <<>>
    BY <1>6, CredFit, SMTT(60)
  <2>2. RightsHeader(l - u, f) = <<>>
    <3>1. l - u < 16
      BY <1>3, <1>6, SMTT(60)
    <3>2. QED
      BY <1>5, <3>1, RightsFit, SMTT(60)
  <2>3. Headers(m) = <<>>
    BY <1>4, <2>1, <2>2, SMTT(60)
  <2>4. rcv.limit # NoLimit
    BY <1>1, <1>6, Sizes, SMTT(60)
  <2>5. QED
    BY <2>3, <2>4, SMTT(60)
<1>7. CASE l >= 16
  <2>1. PICK k \in 0 .. 28 : CredHeader(l, m.creds) = <<CredHdr(k, m.creds)>>
    BY <1>7, CredFit, ZenonT(60)
  <2>2. l = NoLimit => RightsHeader(l - u, f) = <<RightsHdr(f, Len(f))>>
    <3>1. l = NoLimit => l - u >= 16 + 4 * Len(f)
      BY <1>3, Sizes, SMTT(60)
    <3>2. QED
      BY <1>5, <3>1, RightsFit, SMTT(60)
  <2>3. Len(f) \in Nat /\ Len(f) \in 1 .. Len(f)
    BY SMTT(60)
  <2>4. CASE RightsHeader(l - u, f) = <<>>
    <3>1. l # NoLimit
      BY <2>2, <2>4, Tuples, Zenon
    <3>2. Headers(m) = <<CredHdr(k, m.creds)>> \o <<>>
      BY <1>4, <2>1, <2>4, Zenon
    <3>3. Headers(m) = <<CredHdr(k, m.creds)>>
      BY <3>2, Tuples, Zenon
    <3>4. QED
      BY <1>1, <3>1, <3>3, Zenon
  <2>5. CASE RightsHeader(l - u, f) # <<>>
    <3>1. PICK n \in 1 .. Len(f) : /\ RightsHeader(l - u, f) = <<RightsHdr(f, n)>>
                                   /\ l = NoLimit => n = Len(f)
      BY <1>5, <2>2, <2>3, <2>5, RightsFit, SMTT(60)
    <3>2. Headers(m) = <<CredHdr(k, m.creds)>> \o <<RightsHdr(f, n)>>
      BY <1>4, <2>1, <3>1, Zenon
    <3>3. Headers(m) = <<CredHdr(k, m.creds), RightsHdr(f, n)>>
      BY <3>2, Tuples, Zenon
    <3>4. QED
      BY <1>1, <3>1, <3>3, ZenonT(60)
  <2>6. QED
    BY <2>4, <2>5, ZenonT(60)
<1>8. l < 16 \/ l >= 16
  BY <1>3, SMTT(60)
<1>9. QED
  BY <1>6, <1>7, <1>8, ZenonT(60)

\* The receiver from recvmsg() on.
LEMMA ScmRcvDone ==
    ASSUME ScmShape, Sending, Receiving, InSocket, scm' = scm, snd' = snd,
           NEW q, NEW h, NEW f, NEW c, NEW o, NEW w,
           rcv' = Rcv(q, rcv.dgram, rcv.limit, h, f, c, o), q \notin Before,
           sock' = Sock(sock.state, sock.passcred, sock.accepted, w, sock.connected, sock.eof),
           w = <<>> \/ w = sock.queue, Walking', Passed'
    PROVE  ScmInv'
<1>1. /\ rcv'.pc = q /\ rcv'.dgram = rcv.dgram /\ rcv'.limit = rcv.limit /\ rcv'.header = h
      /\ rcv'.fds = f /\ rcv'.creds = c /\ rcv'.out = o
  BY SMTT(60) DEF Rcv
<1>2. /\ sock'.state = sock.state /\ sock'.passcred = sock.passcred /\ sock'.accepted = sock.accepted
      /\ sock'.queue = w /\ sock'.connected = sock.connected /\ sock'.eof = sock.eof
  BY SMTT(60) DEF Sock
<1>3. ScmShape'
  BY <1>1, <1>2, Zenon DEF ScmShape
<1>4. Sending'
  BY <1>1, Zenon DEF Sending
<1>5. Receiving'
  <2>1. q # "recv"
    BY SMTT(60) DEF Before
  <2>2. QED
    BY <1>1, <2>1, ZenonT(60) DEF Receiving
<1>6. InSocket'
  BY <1>1, <1>2, ZenonT(60) DEF InSocket, Sent
<1>7. QED
  BY <1>3, <1>4, <1>5, <1>6, ZenonT(60) DEF ScmInv

LEMMA ScmRecvmsg ==
    ASSUME ScmShape, Sending, Receiving, InSocket, Walking, Passed, Recvmsg
    PROVE  ScmInv'
<1>1. /\ rcv = Rcv(rcv.pc, rcv.dgram, rcv.limit, rcv.header, rcv.fds, rcv.creds, rcv.out)
      /\ sock = Sock(sock.state, sock.passcred, sock.accepted, sock.queue, sock.connected, sock.eof)
  BY Zenon DEF ScmShape
<1>2. /\ scm' = scm /\ snd' = snd /\ rcv.pc = "recv"
      /\ rcv.header = <<>> /\ rcv.fds = <<>> /\ rcv.out = <<>> /\ rcv.creds = "none"
      /\ (scm = "rights" <=> ~sock.passcred)
  BY Zenon DEF Recvmsg, Receiving, Before
<1>3. "walk" \notin Before /\ "walk" # "end" /\ "recv" \in Before
  BY DEF Before
<1>4. /\ scm \in {"rights", "cred", "multi"} /\ snd.files \in Seq(STRING) /\ Len(snd.files) <= MAX_FDS
      /\ rcv.limit \in Nat /\ (scm = "rights" => Len(snd.files) = 1)
      /\ (scm = "cred" => snd.files = <<>>) /\ (scm = "multi" => snd.files # <<>>)
  BY ZenonT(60) DEF Sending
<1>5. CASE sock.queue # <<>>
  <2>1. PICK m : sock.queue = <<m>> /\ Sent(m) /\ m = Head(sock.queue)
    BY <1>5, Zenon DEF InSocket
  <2>2. PICK h : h = Headers(m)
    BY Zenon
  <2>3. PICK f : f = IF h = <<>> THEN <<>> ELSE h[Len(h)].fds
    BY Zenon
  <2>4. /\ rcv' = [rcv EXCEPT !.pc = "walk", !.header = h, !.fds = f]
        /\ sock' = [sock EXCEPT !.queue = Tail(sock.queue)]
    BY <1>5, <2>1, <2>2, <2>3, Zenon DEF Recvmsg
  <2>5. rcv' = Rcv("walk", rcv.dgram, rcv.limit, h, f, rcv.creds, rcv.out)
    BY <2>4, RcvHeaders, Zenon
  <2>6. sock' = Sock(sock.state, sock.passcred, sock.accepted, <<>>, sock.connected, sock.eof)
    <3>1. Tail(sock.queue) = <<>>
      BY <2>1, Tuples, ZenonT(60)
    <3>2. QED
      BY <2>4, <3>1, SockQueue, Zenon
  <2>7. rcv'.pc = "walk" /\ rcv'.limit = rcv.limit /\ rcv'.header = h /\ rcv'.fds = f
        /\ rcv'.creds = "none" /\ rcv'.out = <<>>
    BY <1>2, <2>5, SMTT(60) DEF Rcv
  <2>8. m.fds = snd.files /\ (snd.creds # "none" \/ scm = "multi" => m.creds = snd.creds)
    BY <2>1, SMTT(60) DEF Sent
  <2>9. Walking'
    <3>1. CASE scm = "rights"
      <4>1. h = <<RightsHdr(snd.files, 1)>>
        BY <1>2, <1>4, <2>2, <2>8, <3>1, HeadersRights, SMTT(60)
      <4>2. f = RightsHdr(snd.files, 1).fds
        BY <2>3, <4>1, Tuples, Zenon
      <4>3. f = SubSeq(snd.files, 1, 1)
        BY <4>2, SMTT(60) DEF RightsHdr
      <4>4. SubSeq(snd.files, 1, 1) = snd.files
        BY <1>4, <3>1, SMTT(60)
      <4>5. scm # "cred" /\ scm # "multi"
        BY <3>1
      <4>6. QED
        BY <1>2, <2>7, <4>3, <4>4, <4>5, ZenonT(60) DEF Walking
    <3>2. CASE scm = "cred"
      <4>1. PICK k \in 0 .. 28 : h = <<CredHdr(k, m.creds)>>
        BY <1>2, <1>4, <2>2, <2>8, <3>2, HeadersCred, Zenon
      <4>2. Head(h) = CredHdr(k, m.creds)
        BY <4>1, Tuples, ZenonT(60)
      <4>3. Head(h).creds = m.creds
        BY <4>2, SMTT(60) DEF CredHdr
      <4>4. scm # "rights" /\ scm # "multi"
        BY <3>2
      <4>5. QED
        BY <1>2, <2>7, <2>8, <4>3, <4>4, Zenon DEF Walking
    <3>3. CASE scm = "multi"
      <4>1. \/ h = <<>> /\ rcv.limit # NoLimit
            \/ \E k \in 0 .. 28 : h = <<CredHdr(k, snd.creds)>> /\ rcv.limit # NoLimit
            \/ \E k \in 0 .. 28, n \in 1 .. Len(snd.files) :
                  /\ h = <<CredHdr(k, snd.creds), RightsHdr(snd.files, n)>>
                  /\ rcv.limit = NoLimit => n = Len(snd.files)
        <5>1. sock.passcred
          BY <1>2, <3>3, Zenon
        <5>2. m.creds = snd.creds
          BY <2>8, <3>3, Zenon
        <5>3. PICK l \in Seq(STRING) : l = snd.files /\ l # <<>> /\ Len(l) <= MAX_FDS /\ m.fds = l
          BY <1>4, <2>8, <3>3, Zenon
        <5>4. \/ Headers(m) = <<>> /\ rcv.limit # NoLimit
              \/ \E k \in 0 .. 28 : Headers(m) = <<CredHdr(k, m.creds)>> /\ rcv.limit # NoLimit
              \/ \E k \in 0 .. 28, n \in 1 .. Len(l) :
                    /\ Headers(m) = <<CredHdr(k, m.creds), RightsHdr(l, n)>>
                    /\ rcv.limit = NoLimit => n = Len(l)
          BY <1>4, <3>3, <5>1, <5>3, HeadersMulti, ZenonT(60)
        <5>5. QED
          BY <2>2, <5>2, <5>3, <5>4, Zenon
      <4>2. CASE h = <<>> /\ rcv.limit # NoLimit
        <5>1. Len(<<>>) = 0 /\ Len(snd.files) >= 0 /\ SubSeq(snd.files, 1, 0) = <<>>
          BY <1>4, SMTT(60)
        <5>2. Len(<<>>) <= Len(snd.files) /\ <<>> = SubSeq(snd.files, 1, Len(<<>>))
          BY <1>4, <5>1, SMTT(60)
        <5>3. f = <<>> /\ "none" \in {snd.creds, "none"}
          BY <2>3, <4>2, Zenon
        <5>4. Arrived'
          BY <1>2, <2>7, <4>2, <5>2, <5>3, ZenonT(60) DEF Arrived
        <5>5. QED
          BY <1>2, <3>3, <5>4, SMTT(60) DEF Walking
      <4>3. ASSUME NEW k \in 0 .. 28, h = <<CredHdr(k, snd.creds)>> /\ rcv.limit # NoLimit PROVE Walking'
        <5>1. f = CredHdr(k, snd.creds).fds
          BY <2>3, <4>3, Tuples, Zenon
        <5>2. f = <<>>
          BY <5>1, SMTT(60) DEF CredHdr
        <5>3. AtCreds'
          <6>1. Got(snd.creds)' /\ snd'.creds \in {snd'.creds, Nobody}
            BY <1>2, Zenon DEF Got
          <6>2. QED
            BY <1>2, <2>7, <4>3, <5>2, <6>1, ZenonT(60) DEF AtCreds
        <5>4. QED
          BY <1>2, <3>3, <5>3, SMTT(60) DEF Walking
      <4>4. ASSUME NEW k \in 0 .. 28, NEW n \in 1 .. Len(snd.files),
                   h = <<CredHdr(k, snd.creds), RightsHdr(snd.files, n)>>,
                   rcv.limit = NoLimit => n = Len(snd.files)
            PROVE  Walking'
        <5>1. f = RightsHdr(snd.files, n).fds
          BY <2>3, <4>4, Tuples, Zenon
        <5>2. f = SubSeq(snd.files, 1, n)
          BY <5>1, SMTT(60) DEF RightsHdr
        <5>3. AtBoth'
          BY <1>2, <2>7, <4>4, <5>2, Zenon DEF AtBoth
        <5>4. QED
          BY <1>2, <3>3, <5>3, SMTT(60) DEF Walking
      <4>5. QED
        BY <4>1, <4>2, <4>3, <4>4, Zenon
    <3>4. QED
      BY <1>4, <3>1, <3>2, <3>3
  <2>10. Passed'
    BY <1>3, <2>7, ZenonT(60) DEF Passed
  <2>11. QED
    BY <1>2, <1>3, <2>5, <2>6, <2>9, <2>10, ScmRcvDone, ZenonT(60)
<1>6. CASE sock.queue = <<>>
  <2>1. PICK h : /\ h = <<>> \/ h = CredHeader(Space, Nobody)
                 /\ rcv' = [rcv EXCEPT !.pc = "walk", !.header = h, !.fds = <<>>]
                 /\ sock.eof /\ sock' = sock
    BY <1>6, Zenon DEF Recvmsg
  <2>2. rcv' = Rcv("walk", rcv.dgram, rcv.limit, h, <<>>, rcv.creds, rcv.out)
    BY <2>1, RcvHeaders, ZenonT(60)
  <2>3. /\ rcv'.pc = "walk" /\ rcv'.limit = rcv.limit /\ rcv'.header = h /\ rcv'.fds = <<>>
        /\ rcv'.creds = "none" /\ rcv'.out = <<>>
    BY <1>2, <2>2, SMTT(60) DEF Rcv
  <2>4. ~snd.data
    <3>1. snd.pc = "end"
      BY <2>1, Zenon DEF InSocket
    <3>2. snd.pc \in {"close", "end"}
      BY <3>1
    <3>3. QED
      BY <1>2, <1>3, <1>6, <3>2, Zenon DEF InSocket
  <2>5. scm = "multi" /\ scm # "rights" /\ scm # "cred"
    <3>1. scm = "multi"
      BY <2>4, Zenon DEF Sending
    <3>2. QED
      BY <3>1
  <2>6. Walking'
    <3>1. CASE h = <<>>
      <4>1. Len(<<>>) <= Len(snd.files) /\ <<>> = SubSeq(snd.files, 1, Len(<<>>))
        BY <1>4, SMTT(60)
      <4>2. Arrived'
        BY <1>2, <2>3, <2>4, <3>1, <4>1, Zenon DEF Arrived
      <4>3. QED
        BY <1>2, <2>3, <2>5, <4>2, Zenon DEF Walking
    <3>2. CASE h # <<>>
      <4>0. Space = rcv.limit
        BY <2>5 DEF Space, multiSpace
      <4>1. h = CredHeader(rcv.limit, Nobody) /\ sock.passcred
        BY <1>2, <2>1, <2>5, <3>2, <4>0, Zenon
      <4>2. PICK k \in 0 .. 28 : h = <<CredHdr(k, Nobody)>>
        <5>1. PICK l \in Nat : l = rcv.limit
          BY <1>4, Zenon
        <5>2. l < 16 \/ l >= 16
          BY SMTT(60)
        <5>3. QED
          BY <3>2, <4>1, <5>1, <5>2, CredFit, ZenonT(60)
      <4>3. AtCreds'
        BY <1>2, <2>3, <2>4, <4>2, Zenon DEF AtCreds, Got
      <4>4. QED
        BY <1>2, <2>3, <2>5, <4>3, Zenon DEF Walking
    <3>3. QED
      BY <3>1, <3>2, Zenon
  <2>7. Passed'
    BY <1>3, <2>3, Zenon DEF Passed
  <2>8. sock' = Sock(sock.state, sock.passcred, sock.accepted, sock.queue, sock.connected, sock.eof)
    BY <1>1, <2>1, Zenon
  <2>9. QED
    BY <1>2, <1>3, <2>2, <2>6, <2>7, <2>8, ScmRcvDone, ZenonT(60)
<1>7. QED
  BY <1>5, <1>6

LEMMA ScmCheck ==
    ASSUME ScmShape, Sending, Receiving, InSocket, Walking, Passed, rightsCheck \/ credCheck
    PROVE  ScmInv'
<1>1. /\ rcv = Rcv(rcv.pc, rcv.dgram, rcv.limit, rcv.header, rcv.fds, rcv.creds, rcv.out)
      /\ sock = Sock(sock.state, sock.passcred, sock.accepted, sock.queue, sock.connected, sock.eof)
  BY Zenon DEF ScmShape
<1>2. scm' = scm /\ snd' = snd /\ sock' = sock /\ rcv.pc = "walk" /\ scm # "multi"
  BY DEF rightsCheck, credCheck
<1>3. "failed" \notin Before /\ "end" \notin Before /\ "failed" \notin {"walk", "end"} /\ "end" # "walk"
  BY DEF Before
<1>4. CASE RecvFails
  <2>1. rcv' = Rcv("failed", rcv.dgram, rcv.limit, rcv.header, <<>>, rcv.creds, rcv.out)
    BY <1>4, RcvClose, Zenon DEF RecvFails
  <2>2. rcv'.pc = "failed"
    BY <2>1, SMTT(60) DEF Rcv
  <2>3. Walking' /\ Passed'
    BY <2>2, SMTT(60) DEF Walking, Passed
  <2>4. QED
    BY <1>1, <1>2, <1>3, <2>1, <2>3, ScmRcvDone, Zenon
<1>5. CASE rightsCheck /\ ~RecvFails
  <2>1. /\ scm = "rights" /\ rcv.header # <<>>
        /\ rcv' = [rcv EXCEPT !.pc = "end", !.out = rcv.fds]
    BY <1>5, Zenon DEF rightsCheck
  <2>2. rcv' = Rcv("end", rcv.dgram, rcv.limit, rcv.header, rcv.fds, rcv.creds, rcv.fds)
    BY <2>1, RcvOut, ZenonT(60)
  <2>3. rcv'.pc = "end" /\ rcv'.out = rcv.fds
    BY <2>2, SMTT(60) DEF Rcv
  <2>4. rcv.fds = snd.files
    BY <1>2, <2>1, Zenon DEF Walking
  <2>5. Walking' /\ Passed'
    BY <1>2, <2>1, <2>3, <2>4, SMTT(60) DEF Walking, Passed
  <2>6. QED
    BY <1>1, <1>2, <1>3, <2>2, <2>5, ScmRcvDone, Zenon
<1>6. CASE credCheck /\ ~RecvFails
  <2>1. /\ scm = "cred" /\ rcv.header # <<>>
        /\ rcv' = [rcv EXCEPT !.pc = "end", !.creds = Head(rcv.header).creds]
    BY <1>6, Zenon DEF credCheck
  <2>2. rcv' = Rcv("end", rcv.dgram, rcv.limit, rcv.header, rcv.fds, Head(rcv.header).creds, rcv.out)
    BY <2>1, RcvCreds, ZenonT(60)
  <2>3. rcv'.pc = "end" /\ rcv'.creds = Head(rcv.header).creds
    BY <2>2, SMTT(60) DEF Rcv
  <2>4. snd.creds # "none" => Head(rcv.header).creds = snd.creds
    BY <1>2, <2>1, Zenon DEF Walking
  <2>5. Walking' /\ Passed'
    BY <1>2, <2>1, <2>3, <2>4 DEF Walking, Passed
  <2>6. QED
    BY <1>1, <1>2, <1>3, <2>2, <2>5, ScmRcvDone, Zenon
<1>7. QED
  BY <1>4, <1>5, <1>6, SMTT(60)

LEMMA Prefix ==
    ASSUME NEW s \in Seq(STRING), NEW n \in 1 .. Len(s)
    PROVE  SubSeq(s, 1, n) \in Seq(STRING) /\ Len(SubSeq(s, 1, n)) = n /\ SubSeq(s, 1, Len(s)) = s
  OBVIOUS

LEMMA ScmMulti ==
    ASSUME ScmShape, Sending, Receiving, InSocket, Walking, Passed, multiWalk
    PROVE  ScmInv'
<1>1. /\ rcv = Rcv(rcv.pc, rcv.dgram, rcv.limit, rcv.header, rcv.fds, rcv.creds, rcv.out)
      /\ sock = Sock(sock.state, sock.passcred, sock.accepted, sock.queue, sock.connected, sock.eof)
  BY Zenon DEF ScmShape
<1>2. /\ scm' = scm /\ snd' = snd /\ sock' = sock /\ rcv.pc = "walk" /\ scm = "multi"
      /\ scm # "rights" /\ scm # "cred" /\ (Arrived \/ AtRights \/ AtCreds \/ AtBoth)
  BY DEF multiWalk, Walking
<1>3. /\ "failed" \notin Before /\ "end" \notin Before /\ "walk" \notin Before
      /\ "failed" # "end" /\ "failed" # "walk" /\ "end" # "walk"
  BY SMTT(60) DEF Before
<1>4. snd.files \in Seq(STRING)
  BY SMTT(60) DEF Sending
<1>5. CASE RecvFails
  <2>1. rcv' = Rcv("failed", rcv.dgram, rcv.limit, rcv.header, <<>>, rcv.creds, rcv.out)
    BY <1>5, RcvClose, ZenonT(60) DEF RecvFails
  <2>2. rcv'.pc = "failed"
    BY <2>1, SMTT(60) DEF Rcv
  <2>3. Walking' /\ Passed'
    BY <2>2, SMTT(60) DEF Walking, Passed
  <2>4. QED
    BY <1>1, <1>2, <1>3, <2>1, <2>3, ScmRcvDone, Zenon
<1>6. CASE ~RecvFails /\ Arrived
  <2>1. rcv' = [rcv EXCEPT !.pc = "end"]
    BY <1>6, Zenon DEF multiWalk, Arrived
  <2>2. rcv' = Rcv("end", rcv.dgram, rcv.limit, rcv.header, rcv.fds, rcv.creds, rcv.out)
    BY <2>1, RcvPc, ZenonT(60)
  <2>3. /\ rcv'.pc = "end" /\ rcv'.limit = rcv.limit /\ rcv'.fds = rcv.fds /\ rcv'.creds = rcv.creds
        /\ rcv'.out = rcv.out
    BY <2>2, SMTT(60) DEF Rcv
  <2>4. Walking'
    BY <1>3, <2>3, Zenon DEF Walking
  <2>5. Passed'
    BY <1>2, <1>6, <2>3, ZenonT(60) DEF Passed, Arrived, Got
  <2>6. QED
    BY <1>1, <1>2, <1>3, <2>2, <2>4, <2>5, ScmRcvDone, Zenon
<1>7. CASE ~RecvFails /\ AtRights
  <2>1. PICK n \in 1 .. Len(snd.files) :
               /\ rcv.header = <<RightsHdr(snd.files, n)>> /\ rcv.fds = SubSeq(snd.files, 1, n)
               /\ rcv.out = <<>> /\ rcv.creds = snd.creds
               /\ rcv.limit = NoLimit => n = Len(snd.files)
    BY <1>7, ZenonT(60) DEF AtRights
  <2>2. PICK h : h = RightsHdr(snd.files, n)
    BY Zenon
  <2>3. h.type = "SCM_RIGHTS" /\ h.len = 16 + 4 * n /\ h.fds = SubSeq(snd.files, 1, n)
    BY <2>2, SMTT(60) DEF RightsHdr, CMSG_LEN
  <2>4. rcv.header # <<>> /\ Head(rcv.header) = h /\ Tail(rcv.header) = <<>>
    BY <2>1, <2>2, Tuples, Zenon
  <2>5. (h.len - CMSG_LEN(0)) \div 4 = n
    BY <2>3, Sizes, SMTT(60)
  <2>6. PICK o : o = rcv.out \o SubSeq(h.fds, 1, n)
    BY Zenon
  <2>7. PICK f : f = SubSeq(rcv.fds, n + 1, Len(rcv.fds))
    BY Zenon
  <2>8. rcv' = [rcv EXCEPT !.header = <<>>, !.out = o, !.fds = f]
    BY <2>3, <2>4, <2>5, <2>6, <2>7, ZenonT(60) DEF multiWalk
  <2>9. rcv' = Rcv(rcv.pc, rcv.dgram, rcv.limit, <<>>, f, rcv.creds, o)
    BY <2>8, RcvFiles, ZenonT(60)
  <2>10. /\ rcv'.pc = rcv.pc /\ rcv'.limit = rcv.limit /\ rcv'.header = <<>> /\ rcv'.fds = f
         /\ rcv'.creds = rcv.creds /\ rcv'.out = o
    BY <2>9, SMTT(60) DEF Rcv
  <2>11. PICK p \in Seq(STRING) : p = SubSeq(snd.files, 1, n) /\ Len(p) = n
    BY <1>4, Prefix, Zenon
  <2>12. f = <<>>
    BY <2>1, <2>7, <2>11, SMTT(60)
  <2>13. o = p
    <3>1. SubSeq(p, 1, n) = p
      BY <2>11, SMTT(60)
    <3>2. o = <<>> \o p
      BY <2>1, <2>3, <2>6, <2>11, <3>1, Zenon
    <3>3. QED
      BY <3>2, SMTT(60)
  <2>14. Len(o) <= Len(snd.files) /\ o = SubSeq(snd.files, 1, Len(o))
    BY <2>11, <2>13, SMTT(60)
  <2>15. n = Len(snd.files) => o = snd.files
    BY <1>4, <2>11, <2>13, SMTT(60)
  <2>16. Arrived'
    BY <1>2, <2>1, <2>10, <2>12, <2>14, <2>15, Zenon DEF Arrived, Got
  <2>17. Walking' /\ Passed'
    BY <1>2, <1>3, <2>10, <2>16, ZenonT(60) DEF Walking, Passed
  <2>18. QED
    BY <1>1, <1>2, <1>3, <2>9, <2>17, ScmRcvDone, Zenon
<1>8. CASE ~RecvFails /\ (AtCreds \/ AtBoth)
  <2>0. PICK k \in 0 .. 28, c \in {snd.creds, Nobody} :
                            /\ rcv.header # <<>> /\ Head(rcv.header) = CredHdr(k, c) /\ Got(c)
                            /\ \/ Tail(rcv.header) = <<>> /\ AtCreds
                               \/ c = snd.creds /\ \E n \in 1 .. Len(snd.files) :
                                     /\ Tail(rcv.header) = <<RightsHdr(snd.files, n)>>
                                     /\ rcv.fds = SubSeq(snd.files, 1, n) /\ rcv.out = <<>>
                                     /\ rcv.limit = NoLimit => n = Len(snd.files)
    <3>1. CASE AtCreds
      <4>1. PICK k \in 0 .. 28, c \in {snd.creds, Nobody} : rcv.header = <<CredHdr(k, c)>> /\ Got(c)
        BY <3>1, Zenon DEF AtCreds
      <4>2. /\ rcv.header # <<>> /\ Head(rcv.header) = CredHdr(k, c)
            /\ Tail(rcv.header) = <<>>
        BY <4>1, Tuples, Zenon
      <4>3. QED
        BY <3>1, <4>1, <4>2, Zenon
    <3>2. CASE AtBoth
      <4>1. PICK k \in 0 .. 28, n \in 1 .. Len(snd.files) :
                  /\ rcv.header = <<CredHdr(k, snd.creds), RightsHdr(snd.files, n)>>
                  /\ rcv.fds = SubSeq(snd.files, 1, n) /\ rcv.out = <<>>
                  /\ rcv.limit = NoLimit => n = Len(snd.files)
        BY <3>2, ZenonT(60) DEF AtBoth
      <4>2. /\ rcv.header # <<>> /\ Head(rcv.header) = CredHdr(k, snd.creds)
            /\ Tail(rcv.header) = <<RightsHdr(snd.files, n)>>
        <5>1. PICK x, y : x = CredHdr(k, snd.creds) /\ y = RightsHdr(snd.files, n)
          BY Zenon
        <5>2. rcv.header = <<x, y>>
          BY <4>1, <5>1, Zenon
        <5>3. rcv.header # <<>> /\ Head(rcv.header) = x /\ Tail(rcv.header) = <<y>>
          <6>1. <<x, y>> # <<>> /\ Head(<<x, y>>) = x /\ Tail(<<x, y>>) = <<y>>
            BY SMTT(60)
          <6>2. QED
            BY <5>2, <6>1, Zenon
        <5>4. QED
          BY <5>1, <5>3, Zenon
      <4>3. Got(snd.creds)
        BY Zenon DEF Got
      <4>4. QED
        BY <4>1, <4>2, <4>3, Zenon
    <3>3. QED
      BY <1>8, <3>1, <3>2, ZenonT(60)
  <2>1. PICK t : /\ rcv.header # <<>> /\ Head(rcv.header) = CredHdr(k, c)
                  /\ Tail(rcv.header) = t
                  /\ \/ t = <<>> /\ AtCreds
                     \/ c = snd.creds /\ \E n \in 1 .. Len(snd.files) :
                           /\ t = <<RightsHdr(snd.files, n)>>
                           /\ rcv.fds = SubSeq(snd.files, 1, n) /\ rcv.out = <<>>
                           /\ rcv.limit = NoLimit => n = Len(snd.files)
    BY <2>0, Zenon
  <2>2. PICK h : h = CredHdr(k, c)
    BY Zenon
  <2>3. h.type = "SCM_CREDENTIALS" /\ h.type # "SCM_RIGHTS" /\ h.creds = c
    BY <2>2, SMTT(60) DEF CredHdr
  <2>4. rcv.header # <<>> /\ Head(rcv.header) = h /\ Tail(rcv.header) = t
    BY <2>1, <2>2, Zenon
  <2>5. rcv' = [rcv EXCEPT !.header = t, !.creds = c]
    BY <1>8, <2>3, <2>4, Zenon DEF multiWalk
  <2>6. rcv' = Rcv(rcv.pc, rcv.dgram, rcv.limit, t, rcv.fds, c, rcv.out)
    BY <2>5, RcvNext, ZenonT(60)
  <2>7. /\ rcv'.pc = rcv.pc /\ rcv'.limit = rcv.limit /\ rcv'.header = t /\ rcv'.fds = rcv.fds
        /\ rcv'.creds = c /\ rcv'.out = rcv.out
    BY <2>6, SMTT(60) DEF Rcv
  <2>8. CASE t = <<>> /\ AtCreds
    <3>1. rcv.fds = <<>> /\ rcv.out = <<>> /\ (rcv.limit # NoLimit \/ ~snd.data)
      BY <2>8, Zenon DEF AtCreds
    <3>2. Len(<<>>) <= Len(snd.files) /\ <<>> = SubSeq(snd.files, 1, Len(<<>>))
      BY <1>4, SMTT(60)
    <3>3. Arrived'
      BY <1>2, <2>0, <2>7, <2>8, <3>1, <3>2, ZenonT(60) DEF Arrived, Got
    <3>4. Walking' /\ Passed'
      BY <1>2, <1>3, <2>7, <3>3, Zenon DEF Walking, Passed
    <3>5. QED
      BY <1>1, <1>2, <1>3, <2>6, <3>4, ScmRcvDone, Zenon
  <2>9. ASSUME c = snd.creds, NEW n \in 1 .. Len(snd.files), t = <<RightsHdr(snd.files, n)>>,
               rcv.fds = SubSeq(snd.files, 1, n), rcv.out = <<>>,
               rcv.limit = NoLimit => n = Len(snd.files)
        PROVE  ScmInv'
    <3>1. AtRights'
      BY <1>2, <2>7, <2>9, Zenon DEF AtRights
    <3>2. Walking' /\ Passed'
      BY <1>2, <1>3, <2>7, <3>1, Zenon DEF Walking, Passed
    <3>3. QED
      BY <1>1, <1>2, <1>3, <2>6, <3>2, ScmRcvDone, ZenonT(60)
  <2>10. QED
    BY <2>1, <2>8, <2>9, Zenon
<1>9. QED
  BY <1>2, <1>5, <1>6, <1>7, <1>8

\* The walk ends before a header that CMSG_NXTHDR() does not return.
LEMMA ScmUnseen ==
    ASSUME ScmShape, Sending, Receiving, InSocket, Walking, Passed, multiUnseen
    PROVE  ScmInv'
<1>1. /\ rcv = Rcv(rcv.pc, rcv.dgram, rcv.limit, rcv.header, rcv.fds, rcv.creds, rcv.out)
      /\ sock = Sock(sock.state, sock.passcred, sock.accepted, sock.queue, sock.connected, sock.eof)
  BY Zenon DEF ScmShape
<1>2. /\ scm' = scm /\ snd' = snd /\ sock' = sock /\ rcv' = [rcv EXCEPT !.pc = "end"]
      /\ scm = "multi" /\ rcv.limit # NoLimit /\ (Arrived \/ AtRights \/ AtCreds \/ AtBoth)
      /\ rcv.header # <<>> /\ Head(rcv.header).type = "SCM_RIGHTS"
  BY Zenon DEF multiUnseen, Walking
<1>3. "end" \notin Before /\ "end" # "walk" /\ "multi" # "rights" /\ "multi" # "cred"
  BY SMTT(60) DEF Before
<1>4. \A k, c : CredHdr(k, c).type # "SCM_RIGHTS"
  BY SMTT(60) DEF CredHdr
<1>5. ~Arrived
  BY <1>2, Zenon DEF Arrived
<1>6. ~AtCreds
  <2> SUFFICES ASSUME AtCreds PROVE FALSE
    OBVIOUS
  <2>1. PICK k, c : rcv.header = <<CredHdr(k, c)>>
    BY Zenon DEF AtCreds
  <2>2. Head(rcv.header) = CredHdr(k, c)
    BY <2>1, Tuples, Zenon
  <2>3. QED
    BY <1>2, <1>4, <2>2, Zenon
<1>7. ~AtBoth
  <2> SUFFICES ASSUME AtBoth PROVE FALSE
    OBVIOUS
  <2>1. PICK k, y : rcv.header = <<CredHdr(k, snd.creds), y>>
    BY Zenon DEF AtBoth
  <2>2. Head(rcv.header) = CredHdr(k, snd.creds)
    BY <2>1, Tuples, Zenon
  <2>3. QED
    BY <1>2, <1>4, <2>2, Zenon
<1>8. rcv.out = <<>> /\ rcv.creds = snd.creds
  BY <1>2, <1>5, <1>6, <1>7, Zenon DEF AtRights
<1>9. Len(<<>>) <= Len(snd.files) /\ <<>> = SubSeq(snd.files, 1, Len(<<>>))
  BY SMTT(60) DEF Sending
<1>10. rcv' = Rcv("end", rcv.dgram, rcv.limit, rcv.header, rcv.fds, rcv.creds, rcv.out)
  BY <1>2, RcvPc, ZenonT(60)
<1>11. rcv'.pc = "end" /\ rcv'.limit = rcv.limit /\ rcv'.creds = rcv.creds /\ rcv'.out = rcv.out
  BY <1>10, SMTT(60) DEF Rcv
<1>12. Walking'
  BY <1>3, <1>11, Zenon DEF Walking
<1>13. Passed'
  <2>1. /\ scm' # "rights" /\ scm' # "cred" /\ rcv'.limit # NoLimit /\ rcv'.creds = snd'.creds
        /\ Len(rcv'.out) <= Len(snd'.files) /\ rcv'.out = SubSeq(snd'.files, 1, Len(rcv'.out))
    BY <1>2, <1>3, <1>8, <1>9, <1>11, Zenon
  <2>2. rcv'.creds \in {snd'.creds, "none"}
    BY <2>1, Zenon
  <2>3. QED
    BY <2>1, <2>2, Zenon DEF Passed, NoLimit
<1>14. sock' = Sock(sock.state, sock.passcred, sock.accepted, sock.queue, sock.connected, sock.eof)
  BY <1>1, <1>2, Zenon
<1>15. scm' = scm /\ snd' = snd /\ "end" \notin Before
  BY <1>2, <1>3, Zenon
<1>16. QED
  BY <1>10, <1>12, <1>13, <1>14, <1>15, ScmRcvDone, Zenon

\* The user starts a sender and a receiver.
LEMMA ScmStart ==
    ASSUME ScmInit, NEW p \in {"rights", "cred", "multi"}, NEW d, NEW f, NEW c, NEW t, NEW l \in Nat,
           StartScm(p, d, f, c, t, l), f \in Seq(STRING), Len(f) <= MAX_FDS,
           p = "rights" => Len(f) = 1, p = "cred" => f = <<>>, p = "multi" => f # <<>>, p # "multi" => t
    PROVE  ScmInv'
<1>1. PICK no : no = FALSE
  BY Zenon
<1>2. PICK yes : yes = TRUE
  BY Zenon
<1>3. /\ snd = Snd("start", no, <<>>, "none", yes, <<>>)
      /\ rcv = Rcv("start", no, NoLimit, <<>>, <<>>, "none", <<>>)
      /\ sock = Sock("none", no, no, <<>>, no, no)
  BY <1>1, <1>2, Zenon DEF ScmInit, Snd, Rcv, Sock
<1>4. PICK st : sock' = [sock EXCEPT !.state = st]
  BY Zenon DEF StartScm
<1>5. /\ scm' = p
      /\ snd' = [snd EXCEPT !.pc = "open", !.dgram = d, !.data = t, !.files = f, !.creds = c]
      /\ rcv' = [rcv EXCEPT !.pc = "remove", !.dgram = d, !.limit = l]
  BY Zenon DEF StartScm
<1>6. snd' = Snd("open", d, f, c, t, <<>>)
  <2>1. [Snd("start", no, <<>>, "none", yes, <<>>) EXCEPT !.pc = "open"] = Snd("open", no, <<>>, "none", yes, <<>>)
    BY DEF Snd
  <2>2. [Snd("open", no, <<>>, "none", yes, <<>>) EXCEPT !.dgram = d] = Snd("open", d, <<>>, "none", yes, <<>>)
    BY DEF Snd
  <2>3. [Snd("open", d, <<>>, "none", yes, <<>>) EXCEPT !.data = t] = Snd("open", d, <<>>, "none", t, <<>>)
    BY DEF Snd
  <2>4. [Snd("open", d, <<>>, "none", t, <<>>) EXCEPT !.files = f] = Snd("open", d, f, "none", t, <<>>)
    BY DEF Snd
  <2>5. [Snd("open", d, f, "none", t, <<>>) EXCEPT !.creds = c] = Snd("open", d, f, c, t, <<>>)
    BY DEF Snd
  <2>6. [snd EXCEPT !.pc = "open", !.dgram = d] = Snd("open", d, <<>>, "none", yes, <<>>)
    BY <1>3, <2>1, <2>2, Zenon
  <2>7. [snd EXCEPT !.pc = "open", !.dgram = d, !.data = t] = Snd("open", d, <<>>, "none", t, <<>>)
    BY <2>3, <2>6, Zenon
  <2>8. [snd EXCEPT !.pc = "open", !.dgram = d, !.data = t, !.files = f] = Snd("open", d, f, "none", t, <<>>)
    BY <2>4, <2>7, Zenon
  <2>9. QED
    BY <1>5, <2>5, <2>8, Zenon
<1>7. rcv' = Rcv("remove", d, l, <<>>, <<>>, "none", <<>>)
  <2>1. [Rcv("start", no, NoLimit, <<>>, <<>>, "none", <<>>) EXCEPT !.pc = "remove"]
           = Rcv("remove", no, NoLimit, <<>>, <<>>, "none", <<>>)
    BY DEF Rcv
  <2>2. [Rcv("remove", no, NoLimit, <<>>, <<>>, "none", <<>>) EXCEPT !.dgram = d]
           = Rcv("remove", d, NoLimit, <<>>, <<>>, "none", <<>>)
    BY DEF Rcv
  <2>3. [Rcv("remove", d, NoLimit, <<>>, <<>>, "none", <<>>) EXCEPT !.limit = l]
           = Rcv("remove", d, l, <<>>, <<>>, "none", <<>>)
    BY DEF Rcv
  <2>4. QED
    BY <1>3, <1>5, <2>1, <2>2, <2>3, Zenon
<1>8. sock' = Sock(st, no, no, <<>>, no, no)
  <2>1. [Sock("none", no, no, <<>>, no, no) EXCEPT !.state = st] = Sock(st, no, no, <<>>, no, no)
    BY SMTT(60) DEF Sock
  <2>2. QED
    BY <1>3, <1>4, <2>1, Zenon
<1>9. snd'.pc = "open" /\ snd'.dgram = d /\ snd'.files = f /\ snd'.creds = c /\ snd'.data = t /\ snd'.fds = <<>>
  BY <1>6, SMTT(60) DEF Snd
<1>10. /\ rcv'.pc = "remove" /\ rcv'.dgram = d /\ rcv'.limit = l /\ rcv'.header = <<>> /\ rcv'.fds = <<>>
       /\ rcv'.creds = "none" /\ rcv'.out = <<>>
  BY <1>7, SMTT(60) DEF Rcv
<1>11. /\ sock'.state = st /\ sock'.passcred = no /\ sock'.accepted = no /\ sock'.queue = <<>>
       /\ sock'.connected = no /\ sock'.eof = no
  BY <1>8, SMTT(60) DEF Sock
<1>12. ScmShape'
  BY <1>6, <1>7, <1>8, <1>9, <1>10, <1>11, Zenon DEF ScmShape
<1>13. "open" \in {"open", "connect", "send", "close", "end", "failed"} /\ "open" \notin {"connect", "send"}
       /\ "open" \notin {"close", "end"} /\ "remove" \notin {"recv", "walk", "end"}
  BY SMTT(60)
<1>14. Sending'
  BY <1>5, <1>9, <1>10, <1>13, ZenonT(60) DEF Sending
<1>15. Receiving'
  BY <1>5, <1>10, <1>13 DEF Receiving
<1>16. InSocket'
  <2>1. ~no
    BY <1>1, ZenonT(60)
  <2>2. QED
    BY <1>9, <1>11, <1>13, <2>1, Zenon DEF InSocket
<1>17. Walking' /\ Passed'
  BY <1>10, SMTT(60) DEF Walking, Passed
<1>18. QED
  BY <1>12, <1>14, <1>15, <1>16, <1>17, Zenon DEF ScmInv

LEMMA ScmStep == ASSUME ScmInv, [ScmNext]_scmVars PROVE ScmInv'
<1>1. CASE ScmInit
  <2>1. NoLimit \in Nat /\ <<>> \in Seq(STRING) /\ Len(<<>>) <= MAX_FDS
    BY Sizes, SMTT(60)
  <2>2. CASE rightsOptions
    <3>1. PICK f \in ScmFiles : Len(f) = 1 /\ \E d : StartScm("rights", d, f, "none", TRUE, NoLimit)
      BY <2>2, Zenon DEF rightsOptions
    <3>2. PICK d : StartScm("rights", d, f, "none", TRUE, NoLimit)
      BY <3>1, Zenon
    <3>3. f \in Seq(STRING) /\ Len(f) <= MAX_FDS
      BY ScmAssumption DEF MAX_FDS
    <3>4. PICK t : t = TRUE
      BY Zenon
    <3>5. t /\ StartScm("rights", d, f, "none", t, NoLimit)
      BY <3>2, <3>4, Zenon
    <3>6. /\ "rights" \in {"rights", "cred", "multi"} /\ "rights" # "cred" /\ "rights" # "multi"
      OBVIOUS
    <3>7. QED
      BY <1>1, <2>1, <3>1, <3>3, <3>5, <3>6, ScmStart, Zenon
  <2>3. CASE credOptions
    <3>1. PICK d, c : StartScm("cred", d, <<>>, c, TRUE, NoLimit)
      BY <2>3, Zenon DEF credOptions
    <3>2. PICK t : t = TRUE
      BY Zenon
    <3>3. t /\ StartScm("cred", d, <<>>, c, t, NoLimit)
      BY <3>1, <3>2, Zenon
    <3>4. /\ "cred" \in {"rights", "cred", "multi"} /\ "cred" # "rights" /\ "cred" # "multi"
      BY SMTT(60)
    <3>5. QED
      BY <1>1, <2>1, <3>3, <3>4, ScmStart, Zenon
  <2>4. CASE multiOptions
    <3>1. PICK f \in ScmFiles, l \in ControlSizes :
               f # <<>> /\ \E d, t, c : StartScm("multi", d, f, c, t, l)
      BY <2>4, Zenon DEF multiOptions
    <3>2. PICK d, t, c : StartScm("multi", d, f, c, t, l)
      BY <3>1, Zenon
    <3>3. f \in Seq(STRING) /\ Len(f) <= MAX_FDS /\ l \in Nat
      BY ScmAssumption, SMTT(60) DEF MAX_FDS
    <3>4. /\ "multi" \in {"rights", "cred", "multi"} /\ "multi" # "rights" /\ "multi" # "cred"
      BY SMTT(60)
    <3>5. QED
      BY <1>1, <3>1, <3>2, <3>3, <3>4, ScmStart, SMTT(60)
  <2>5. CASE UNCHANGED scmVars
    BY <1>1, <2>5, ZenonT(60) DEF ScmInv, ScmInit, scmVars
  <2>6. scm = "none" /\ snd.pc = "start" /\ rcv.pc = "start"
    BY <1>1, SMTT(60) DEF ScmInit
  <2>7. QED
    BY <2>2, <2>3, <2>4, <2>5, <2>6, SMTT(60)
       DEF ScmNext, OpenFile, unixConnect, Sendmsg, SenderExits, Remove, unixBind, Listen, Accept,
           Setsockopt, Recvmsg, rightsCheck, credCheck, multiWalk, multiUnseen
<1>2. CASE ~ScmInit
  <2>1. ScmShape /\ Sending /\ Receiving /\ InSocket /\ Walking /\ Passed
    BY <1>2 DEF ScmInv
  <2>2. CASE UNCHANGED scmVars
    <3>1. scm' = scm /\ snd' = snd /\ rcv' = rcv /\ sock' = sock
      BY <2>2, Zenon DEF scmVars
    <3>2. Walking' /\ Receiving' /\ Passed'
      BY <2>1, <3>1, ScmKeep, Zenon
    <3>3. ScmShape' /\ Sending' /\ InSocket'
      BY <2>1, <3>1, ZenonT(60) DEF ScmShape, Sending, InSocket, Sent
    <3>4. QED
      BY <3>2, <3>3, Zenon DEF ScmInv
  <2>3. scm # "none"
    BY <2>1, SMTT(60) DEF Sending
  <2>4. ~(rightsOptions \/ credOptions \/ multiOptions)
    BY <2>3, Zenon DEF rightsOptions, credOptions, multiOptions, StartScm
  <2>5. QED
    BY <2>1, <2>2, <2>4, ScmSender, ScmPrepare, ScmRecvmsg, ScmCheck, ScmMulti, ScmUnseen, ZenonT(60) DEF ScmNext
<1>3. QED
  BY <1>1, <1>2, SMTT(60)

\* What arrives is what was sent: the three pairs of programs, started in any
\* order, pass the descriptors and the credentials of the command line, whatever
\* files are given and however small -n makes the buffer of scm_multi_recv.c.
THEOREM PassingCorrect == ScmSpec => []Passed
<1>1. ScmInit => ScmInv
  BY DEF ScmInv
<1>2. ScmInv => Passed
  <2>1. ASSUME ScmInit PROVE Passed
    <3>1. rcv.pc = "start"
      BY <2>1, SMTT(60) DEF ScmInit
    <3>2. QED
      BY <3>1, SMTT(60) DEF Passed
  <2>2. QED
    BY <2>1, SMTT(60) DEF ScmInv
<1>3. QED
  BY <1>1, <1>2, ScmStep, PTL DEF ScmSpec

=============================================================================
