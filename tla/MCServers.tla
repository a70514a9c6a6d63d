------------------------------- MODULE MCServers -------------------------------
(***************************************************************************)
(* The servers, their clients and the programs that wait for several       *)
(* descriptors, one at a time: the variable running says which one, and    *)
(* the variables of the others keep their initial values. FileServer and   *)
(* SocketMessages are extended, the others are instances.                  *)
(***************************************************************************)
EXTENDS FileServer, SocketMessages, TLC

CONSTANTS Checked, stPrograms, Inputs, MaxFail, Addresses, INT_LEN, REQ_MAX_LEN,
          alPrograms, Workers, MaxInput, PIPE_MAX, MAX_BUF, Lengths

VARIABLES running,
          stprog, sp, cn, net,
          aprog, am, aw, io

stVars == <<stprog, sp, cn, net>>
alVars == <<aprog, am, aw, io>>
allVars == <<running, stVars, dgVars, fsVars, scmVars, alVars>>

\* What the two clients of each stream server send: lengths of sequences, with
\* one that is not a number, commands of the key-value server, bytes.
SET == 21
GET == 22
NL == 10
MCInputs == [s \in stPrograms |->
    CASE s \in {"is_seqnum", "is_seqnum_v2", "seqnum", "seqnum2"} -> {<<<<2>>, <<1, 3, 7>>>>}
      [] s = "kv" -> {<<<<SET, 1, 2, NL>>, <<GET, 1, NL>>>>, <<<<GET, 1, NL>>, <<SET, 2, 1, NL>>>>,
                      <<<<SET, 0, 1, NL>>, <<GET, NL>>>>}
      [] s = "remote" -> {<<<<5, 6, NL>>, <<7>>>>}
      [] s \in {"is_echo", "is_echo_v2"} -> {<<<<1, 2>>, <<3>>>>}
      [] OTHER -> {<<<<1, 2>>, <<3, 4>>>>}]

\* The datagrams of a client, by length: one is longer than the buffer.
MCMessages == {<<1, 3, 2>>}

\* svmsg_file_server.c: a file of three blocks, one of one block, one that cannot
\* be opened.
MCBlocks == 1 :> <<1, 2, 3>> @@ 2 :> <<4>> @@ 3 :> Unopenable

\* Descriptors passed over a socket, and sizes of the control buffer: none, too
\* small for one of them, for both, and large.
MCFiles == {<<>>, <<"a">>, <<"a", "b">>, <<"a", "b", "c">>}
MCControlSizes == {0, 20, 28, 32, 52, 56, 4144}

St == INSTANCE StreamServers
Al == INSTANCE Altio

FInit == /\ running \in Checked /\ St!Init /\ DatagramInit /\ Init /\ ScmInit /\ Al!Init
         /\ running # "svmsg_file" => ~sv.there

Streams == /\ running = "stream" /\ St!Next
           /\ UNCHANGED <<running, dgVars, fsVars, scmVars, alVars>>
Datagrams == /\ running = "datagram" /\ DatagramNext
             /\ UNCHANGED <<running, stVars, fsVars, scmVars, alVars>>
FileServing == /\ running = "svmsg_file" /\ Next
               /\ UNCHANGED <<running, stVars, dgVars, scmVars, alVars>>
Passing == /\ running = "fd_passing" /\ ScmNext
           /\ UNCHANGED <<running, stVars, dgVars, fsVars, alVars>>
Alternative == /\ running = "altio" /\ Al!Next
               /\ UNCHANGED <<running, stVars, dgVars, fsVars, scmVars>>

FNext == Streams \/ Datagrams \/ FileServing \/ Passing \/ Alternative

FSpec == FInit /\ [][FNext]_allVars

----------------------------------------------------------------------------
\* The stream servers and their clients, whoever is killed when: what a client gets
\* is the answer to its own requests, whole and in order, no ended child stays
\* unreaped, and no client waits for an answer that nobody will send, but for the
\* cases NoStuckClient names (kv_server.c:147-158, remote_execution/server.c:73).
StreamsRight == St!StreamsRight /\ St!NoStuckClient

\* The programs of altio/ see the input, signals and messages that came in while
\* they were not waiting, but for the cases the property of module Altio names.
NothingMissed == Al!NothingMissed
=============================================================================
