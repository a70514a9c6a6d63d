---------------------------- MODULE ShmXfrProofs ----------------------------
(***************************************************************************)
(* The writer and the reader exclude each other, copy the input in order,  *)
(* and implement the one-block channel of module Transfer, for every       *)
(* number of blocks.                                                       *)
(*                                                                         *)
(* The argument: once the writer has initialised the set there is one      *)
(* turn.  It is in WRITE_SEM, with the writer, in READ_SEM or with the     *)
(* reader (Turn), and where it is says what the segment holds (Data).      *)
(*                                                                         *)
(* Every answer of the supervisor of module SeccompNotify is for the call  *)
(* that is waiting, for every command line and any number of signals.  The *)
(* invariant ties the notification the kernel holds to the one the         *)
(* supervisor has read and to the calls that have returned.                *)
(***************************************************************************)
EXTENDS ShmXfr, SeccompNotify, TLAPS

WTurn == wpc \in {"read", "release"}
RTurn == rpc \in {"eof", "write", "release", "shmdt", "lastRelease"}
Cleanup == wpc \in {"rmSem", "shmdt", "rmShm", "exit"}

Sems(w, r) == sem["WRITE_SEM"] = w /\ sem["READ_SEM"] = r

\* The writer is still creating the objects; the reader has not attached.
Setup == /\ wpc \in {"semget", "initWrite", "initRead", "shmget"}
         /\ rpc \in {"semget", "shmget"}
         /\ ~shmSeg /\ nread = 0 /\ out = <<>> /\ block = 0
         /\ wpc # "semget" => semSet
         /\ Sems(IF wpc \in {"initRead", "shmget"} THEN 1 ELSE 0, 0)

\* The one turn, while the writer is in its loop or waits for the reader.
Turn == /\ wpc \in {"reserve", "read", "release", "eof", "lastReserve"}
        /\ semSet /\ shmSeg
        /\ \/ Sems(1, 0) /\ ~WTurn /\ ~RTurn
           \/ Sems(0, 0) /\ WTurn /\ ~RTurn
           \/ Sems(0, 1) /\ ~WTurn /\ ~RTurn
           \/ Sems(0, 0) /\ ~WTurn /\ RTurn

\* The writer has the turn back for good.
After == Cleanup /\ rpc = "exit"

\* A block or the end of file that the reader has not yet taken.
NewBlock == block = nread /\ nread > 0 /\ Len(out) = nread - 1
AtEof == block = 0 /\ nread = NumBlocks /\ Len(out) = nread

DataWriter == /\ wpc = "read" => Len(out) = nread /\ rpc # "exit"
              /\ wpc = "release" => (NewBlock \/ AtEof) /\ rpc # "exit"
              /\ wpc = "reserve" => /\ block > 0 \/ (nread = 0 /\ sem["WRITE_SEM"] = 1)
                                    /\ rpc # "exit"
                                    /\ sem["WRITE_SEM"] = 1 => Len(out) = nread
              /\ wpc = "eof" /\ sem["WRITE_SEM"] = 1 /\ block # 0 =>
                    Len(out) = nread /\ rpc # "exit"
              /\ wpc \in {"eof", "lastReserve"} /\ sem["WRITE_SEM"] = 1 /\ block = 0 =>
                    rpc = "exit"
              /\ wpc = "lastReserve" \/ Cleanup => AtEof
              /\ wpc = "eof" => block # -1
DataReader == /\ sem["READ_SEM"] = 1 \/ rpc = "eof" => NewBlock \/ AtEof
              /\ rpc = "write" => NewBlock
              /\ rpc = "release" => block = nread /\ nread > 0 /\ Len(out) = nread
              /\ rpc \in {"shmdt", "lastRelease", "exit"} =>
                    AtEof /\ (wpc \in {"eof", "lastReserve"} \/ Cleanup)

Data == InOrder /\ DataWriter /\ DataReader

IInv == TypeOK /\ Data /\ (Setup \/ Turn \/ After)

\* With no IPC objects left over, the invariant holds initially.
LEMMA InitIInv == Init => IInv
<1> SUFFICES ASSUME Init PROVE IInv
  OBVIOUS
<1>1. ~semSet /\ semSet \in BOOLEAN /\ ~shmSeg /\ shmSeg \in BOOLEAN
  BY Zenon DEF Init
<1>2. TypeOK
  BY <1>1, BlocksAssumption DEF Init, TypeOK, WPCs, RPCs
<1>3. Setup /\ Data
  BY <1>1 DEF Init, Setup, Sems, Data, InOrder, DataWriter, DataReader, Cleanup
<1>4. QED
  BY <1>2, <1>3 DEF IInv

\* Every step of the writer or the reader, and their death, preserves it.
LEMMA NextIInv == IInv /\ [Next]_vars => IInv'
<1> SUFFICES ASSUME IInv, [Next]_vars PROVE IInv'
  OBVIOUS
<1> USE BlocksAssumption
        DEF IInv, TypeOK, WPCs, RPCs, Setup, Turn, After, Sems, WTurn, RTurn, Cleanup,
            Data, DataWriter, DataReader, NewBlock, AtEof, writer, reader
<1>1. CASE WSemget
  <2>1. TypeOK'
    BY <1>1 DEF WSemget, WGo
  <2>2. InOrder'
    BY <1>1 DEF WSemget, WGo, InOrder
  <2>3. (Setup \/ Turn \/ After)'
    BY <1>1 DEF WSemget, WGo
  <2>4. DataWriter'
    BY <1>1 DEF WSemget, WGo
  <2>5. DataReader'
    BY <1>1 DEF WSemget, WGo
  <2>6. QED
    BY <2>1, <2>2, <2>3, <2>4, <2>5, Zenon
<1>2. CASE WInitWrite
  <2>1. TypeOK'
    BY <1>2 DEF WInitWrite, WGo, initSemAvailable
  <2>2. InOrder'
    BY <1>2 DEF WInitWrite, WGo, initSemAvailable, InOrder
  <2>3. (Setup \/ Turn \/ After)'
    BY <1>2 DEF WInitWrite, WGo, initSemAvailable
  <2>4. DataWriter'
    BY <1>2 DEF WInitWrite, WGo, initSemAvailable
  <2>5. DataReader'
    BY <1>2 DEF WInitWrite, WGo, initSemAvailable
  <2>6. QED
    BY <2>1, <2>2, <2>3, <2>4, <2>5, Zenon
<1>3. CASE WInitRead
  <2>1. TypeOK'
    BY <1>3 DEF WInitRead, WGo, initSemInUse
  <2>2. InOrder'
    BY <1>3 DEF WInitRead, WGo, initSemInUse, InOrder
  <2>3. (Setup \/ Turn \/ After)'
    BY <1>3 DEF WInitRead, WGo, initSemInUse
  <2>4. DataWriter'
    BY <1>3 DEF WInitRead, WGo, initSemInUse
  <2>5. DataReader'
    BY <1>3 DEF WInitRead, WGo, initSemInUse
  <2>6. QED
    BY <2>1, <2>2, <2>3, <2>4, <2>5, Zenon
<1>4. CASE WShmget
  <2>1. TypeOK'
    BY <1>4, SMTT(60) DEF WShmget, WGo
  <2>2. InOrder'
    BY <1>4 DEF WShmget, WGo, InOrder
  <2>3. (Setup \/ Turn \/ After)'
    BY <1>4 DEF WShmget, WGo
  <2>4. DataWriter'
    BY <1>4 DEF WShmget, WGo
  <2>5. DataReader'
    BY <1>4 DEF WShmget, WGo
  <2>6. QED
    BY <2>1, <2>2, <2>3, <2>4, <2>5, Zenon
<1>5. CASE WReserve
  <2>1. TypeOK'
    BY <1>5 DEF WReserve, WGo, reserveSem
  <2>2. InOrder'
    BY <1>5 DEF WReserve, WGo, reserveSem, InOrder
  <2>3. (Setup \/ Turn \/ After)'
    BY <1>5 DEF WReserve, WGo, reserveSem
  <2>4. DataWriter'
    BY <1>5 DEF WReserve, WGo, reserveSem
  <2>5. DataReader'
    BY <1>5 DEF WReserve, WGo, reserveSem
  <2>6. QED
    BY <2>1, <2>2, <2>3, <2>4, <2>5, Zenon
<1>6. CASE WRead
  <2>1. wpc = "read" /\ UNCHANGED <<sem, semSet, shmSeg, rpc, out>>
    BY <1>6, SMTT(60) DEF WRead, WGo
  <2>2. CASE nread < NumBlocks /\ nread' = nread + 1 /\ block' = nread' /\ wpc' = "release" /\ dead' = dead
    BY <2>1, <2>2, SMTT(60) DEF InOrder
  <2>3. CASE nread = NumBlocks /\ nread' = nread /\ block' = 0 /\ wpc' = "release" /\ dead' = dead
    BY <2>1, <2>3, SMTT(60) DEF InOrder
  <2>4. CASE block' = -1 /\ dead' = dead \cup {"writer"} /\ UNCHANGED <<wpc, nread>>
    BY <2>1, <2>4, SMTT(60) DEF InOrder
  <2>5. QED
    BY <1>6, <2>2, <2>3, <2>4, SMTT(60) DEF WRead, WGo
<1>7. CASE WRelease
  <2>1. TypeOK'
    BY <1>7, SMTT(60) DEF WRelease, WGo, releaseSem
  <2>2. InOrder'
    BY <1>7, SMTT(60) DEF WRelease, WGo, releaseSem, InOrder
  <2>3. (Setup \/ Turn \/ After)'
    BY <1>7, SMTT(60) DEF WRelease, WGo, releaseSem
  <2>4. DataWriter'
    BY <1>7, SMTT(60) DEF WRelease, WGo, releaseSem
  <2>5. DataReader'
    BY <1>7, SMTT(60) DEF WRelease, WGo, releaseSem
  <2>6. QED
    BY <2>1, <2>2, <2>3, <2>4, <2>5, Zenon
<1>8. CASE WEof
  <2>1. TypeOK'
    BY <1>8, SMTT(60) DEF WEof, WGo
  <2>2. InOrder'
    BY <1>8 DEF WEof, WGo, InOrder
  <2>3. (Setup \/ Turn \/ After)'
    BY <1>8, SMTT(60) DEF WEof, WGo
  <2>4. DataWriter'
    BY <1>8, SMTT(60) DEF WEof, WGo
  <2>5. DataReader'
    BY <1>8, SMTT(60) DEF WEof, WGo
  <2>6. QED
    BY <2>1, <2>2, <2>3, <2>4, <2>5, Zenon
<1>9. CASE WLastReserve
  <2>1. TypeOK'
    BY <1>9, SMTT(60) DEF WLastReserve, WGo, reserveSem
  <2>2. InOrder'
    BY <1>9, SMTT(60) DEF WLastReserve, WGo, reserveSem, InOrder
  <2>3. (Setup \/ Turn \/ After)'
    BY <1>9, SMTT(60) DEF WLastReserve, WGo, reserveSem
  <2>4. DataWriter'
    BY <1>9, SMTT(60) DEF WLastReserve, WGo, reserveSem
  <2>5. DataReader'
    BY <1>9, SMTT(60) DEF WLastReserve, WGo, reserveSem
  <2>6. QED
    BY <2>1, <2>2, <2>3, <2>4, <2>5, Zenon
<1>10. CASE WRemoveSem
  <2>1. TypeOK'
    BY <1>10, Zenon DEF WRemoveSem, WGo
  <2>2. InOrder'
    BY <1>10, SMTT(60) DEF WRemoveSem, WGo, InOrder
  <2>3. (Setup \/ Turn \/ After)'
    BY <1>10, SMTT(60) DEF WRemoveSem, WGo
  <2>4. DataWriter'
    BY <1>10, SMTT(60) DEF WRemoveSem, WGo
  <2>5. DataReader'
    BY <1>10, SMTT(60) DEF WRemoveSem, WGo
  <2>6. QED
    BY <2>1, <2>2, <2>3, <2>4, <2>5, Zenon
<1>11. CASE WDetach
  <2>1. TypeOK'
    BY <1>11, SMTT(60) DEF WDetach, WGo
  <2>2. InOrder'
    BY <1>11, SMTT(60) DEF WDetach, WGo, InOrder
  <2>3. (Setup \/ Turn \/ After)'
    BY <1>11, SMTT(60) DEF WDetach, WGo
  <2>4. DataWriter'
    BY <1>11, SMTT(60) DEF WDetach, WGo
  <2>5. DataReader'
    BY <1>11, SMTT(60) DEF WDetach, WGo
  <2>6. QED
    BY <2>1, <2>2, <2>3, <2>4, <2>5, Zenon
<1>12. CASE WRemoveShm
  <2>1. TypeOK'
    BY <1>12, Zenon DEF WRemoveShm, WGo
  <2>2. InOrder'
    BY <1>12, SMTT(60) DEF WRemoveShm, WGo, InOrder
  <2>3. (Setup \/ Turn \/ After)'
    BY <1>12, SMTT(60) DEF WRemoveShm, WGo
  <2>4. DataWriter'
    BY <1>12, SMTT(60) DEF WRemoveShm, WGo
  <2>5. DataReader'
    BY <1>12, SMTT(60) DEF WRemoveShm, WGo
  <2>6. QED
    BY <2>1, <2>2, <2>3, <2>4, <2>5, Zenon
<1>13. CASE RSemget
  <2>1. TypeOK'
    BY <1>13, SMTT(60) DEF RSemget, RGo
  <2>2. InOrder'
    BY <1>13, SMTT(60) DEF RSemget, RGo, InOrder
  <2>3. (Setup \/ Turn \/ After)'
    BY <1>13, SMTT(60) DEF RSemget, RGo
  <2>4. DataWriter'
    BY <1>13, SMTT(60) DEF RSemget, RGo
  <2>5. DataReader'
    BY <1>13, SMTT(60) DEF RSemget, RGo
  <2>6. QED
    BY <2>1, <2>2, <2>3, <2>4, <2>5, Zenon
<1>14. CASE RShmget
  <2>1. TypeOK'
    BY <1>14 DEF RShmget, RGo
  <2>2. InOrder'
    BY <1>14, SMTT(60) DEF RShmget, RGo, InOrder
  <2>3. (Setup \/ Turn \/ After)'
    BY <1>14, SMTT(60) DEF RShmget, RGo
  <2>4. DataWriter'
    BY <1>14, SMTT(60) DEF RShmget, RGo
  <2>5. DataReader'
    BY <1>14, SMTT(60) DEF RShmget, RGo
  <2>6. QED
    BY <2>1, <2>2, <2>3, <2>4, <2>5, Zenon
<1>15. CASE RAttach
  <2>1. TypeOK'
    BY <1>15, SMTT(60) DEF RAttach, RGo
  <2>2. InOrder'
    BY <1>15, SMTT(60) DEF RAttach, RGo, InOrder
  <2>3. (Setup \/ Turn \/ After)'
    BY <1>15, SMTT(60) DEF RAttach, RGo
  <2>4. DataWriter'
    BY <1>15, SMTT(60) DEF RAttach, RGo
  <2>5. DataReader'
    BY <1>15, SMTT(60) DEF RAttach, RGo
  <2>6. QED
    BY <2>1, <2>2, <2>3, <2>4, <2>5, Zenon
<1>16. CASE RReserve
  <2>1. TypeOK'
    BY <1>16, SMTT(60) DEF RReserve, RGo, reserveSem
  <2>2. InOrder'
    BY <1>16, SMTT(60) DEF RReserve, RGo, reserveSem, InOrder
  <2>3. (Setup \/ Turn \/ After)'
    BY <1>16, SMTT(60) DEF RReserve, RGo, reserveSem
  <2>4. DataWriter'
    BY <1>16, SMTT(60) DEF RReserve, RGo, reserveSem
  <2>5. DataReader'
    BY <1>16, SMTT(60) DEF RReserve, RGo, reserveSem
  <2>6. QED
    BY <2>1, <2>2, <2>3, <2>4, <2>5, Zenon
<1>17. CASE REof
  <2>1. TypeOK'
    BY <1>17, SMTT(60) DEF REof, RGo
  <2>2. InOrder'
    BY <1>17, SMTT(60) DEF REof, RGo, InOrder
  <2>3. (Setup \/ Turn \/ After)'
    BY <1>17, SMTT(60) DEF REof, RGo
  <2>4. DataWriter'
    BY <1>17, SMTT(60) DEF REof, RGo
  <2>5. DataReader'
    BY <1>17, SMTT(60) DEF REof, RGo
  <2>6. QED
    BY <2>1, <2>2, <2>3, <2>4, <2>5, Zenon
<1>18. CASE RWrite
  <2>1. TypeOK'
    BY <1>18, SMTT(60) DEF RWrite, RGo
  <2>2. InOrder'
    BY <1>18, SMTT(60) DEF RWrite, RGo, InOrder
  <2>3. (Setup \/ Turn \/ After)'
    BY <1>18, SMTT(60) DEF RWrite, RGo
  <2>4. DataWriter'
    BY <1>18, SMTT(60) DEF RWrite, RGo
  <2>5. DataReader'
    BY <1>18, SMTT(60) DEF RWrite, RGo
  <2>6. QED
    BY <2>1, <2>2, <2>3, <2>4, <2>5, Zenon
<1>19. CASE RRelease
  <2>1. TypeOK'
    BY <1>19, SMTT(60) DEF RRelease, RGo, releaseSem
  <2>2. InOrder'
    BY <1>19, SMTT(60) DEF RRelease, RGo, releaseSem, InOrder
  <2>3. (Setup \/ Turn \/ After)'
    BY <1>19, SMTT(60) DEF RRelease, RGo, releaseSem
  <2>4. DataWriter'
    BY <1>19, SMTT(60) DEF RRelease, RGo, releaseSem
  <2>5. DataReader'
    BY <1>19, SMTT(60) DEF RRelease, RGo, releaseSem
  <2>6. QED
    BY <2>1, <2>2, <2>3, <2>4, <2>5, Zenon
<1>20. CASE RDetach
  <2>1. TypeOK'
    BY <1>20, SMTT(60) DEF RDetach, RGo
  <2>2. InOrder'
    BY <1>20, SMTT(60) DEF RDetach, RGo, InOrder
  <2>3. (Setup \/ Turn \/ After)'
    BY <1>20, SMTT(60) DEF RDetach, RGo
  <2>4. DataWriter'
    BY <1>20, SMTT(60) DEF RDetach, RGo
  <2>5. DataReader'
    BY <1>20, SMTT(60) DEF RDetach, RGo
  <2>6. QED
    BY <2>1, <2>2, <2>3, <2>4, <2>5, Zenon
<1>21. CASE RLastRelease
  <2>1. TypeOK'
    BY <1>21, SMTT(60) DEF RLastRelease, RGo, releaseSem
  <2>2. InOrder'
    BY <1>21, SMTT(60) DEF RLastRelease, RGo, releaseSem, InOrder
  <2>3. (Setup \/ Turn \/ After)'
    BY <1>21, SMTT(60) DEF RLastRelease, RGo, releaseSem
  <2>4. DataWriter'
    BY <1>21, SMTT(60) DEF RLastRelease, RGo, releaseSem
  <2>5. DataReader'
    BY <1>21, SMTT(60) DEF RLastRelease, RGo, releaseSem
  <2>6. QED
    BY <2>1, <2>2, <2>3, <2>4, <2>5, Zenon
<1>22. CASE WDie
  <2>1. TypeOK'
    BY <1>22, SMTT(60) DEF WDie
  <2>2. InOrder'
    BY <1>22, SMTT(60) DEF WDie, InOrder
  <2>3. (Setup \/ Turn \/ After)'
    BY <1>22, SMTT(60) DEF WDie
  <2>4. DataWriter'
    BY <1>22, SMTT(60) DEF WDie
  <2>5. DataReader'
    BY <1>22, SMTT(60) DEF WDie
  <2>6. QED
    BY <2>1, <2>2, <2>3, <2>4, <2>5, Zenon
<1>23. CASE RDie
  <2>1. TypeOK'
    BY <1>23, SMTT(60) DEF RDie
  <2>2. InOrder'
    BY <1>23, SMTT(60) DEF RDie, InOrder
  <2>3. (Setup \/ Turn \/ After)'
    BY <1>23, SMTT(60) DEF RDie
  <2>4. DataWriter'
    BY <1>23, SMTT(60) DEF RDie
  <2>5. DataReader'
    BY <1>23, SMTT(60) DEF RDie
  <2>6. QED
    BY <2>1, <2>2, <2>3, <2>4, <2>5, Zenon
<1>24. CASE UNCHANGED vars
  BY <1>24, SMTT(60) DEF vars, InOrder
<1>25. QED
  BY <1>1, <1>2, <1>3, <1>4, <1>5, <1>6, <1>7, <1>8, <1>9, <1>10, <1>11, <1>12, <1>13, <1>14,
     <1>15, <1>16, <1>17, <1>18, <1>19, <1>20, <1>21, <1>22, <1>23, <1>24 DEF Next, Writer, Reader

\* The writer and the reader are never both inside their turn, the output is an
\* initial part of the input, the objects outlive the reader's use of them,
\* and a reader that has finished has copied every block.
THEOREM ShmXfrCorrect ==
    Spec => [](TypeOK /\ Exclusive /\ InOrder /\ ObjectsOutliveReader /\ CompleteAtEof)
<1>1. IInv => TypeOK /\ Exclusive /\ InOrder /\ ObjectsOutliveReader /\ CompleteAtEof
  BY SMTT(60) DEF IInv, Data, DataReader, AtEof, Setup, Turn, After, Cleanup, WTurn, RTurn,
     Exclusive, ObjectsOutliveReader, CompleteAtEof
<1>2. QED
  BY InitIInv, NextIInv, <1>1, PTL DEF Spec

\* Every step of the two programs is a step of the one-block channel, or none.
LEMMA NextAbstract == IInv /\ [Next]_vars => [Abstract!Next]_Abstract!vars
<1> SUFFICES ASSUME IInv, [Next]_vars PROVE [Abstract!Next]_Abstract!vars
  OBVIOUS
<1> USE BlocksAssumption
        DEF IInv, TypeOK, Setup, Turn, After, Sems, WTurn, RTurn, Cleanup, Data, DataWriter,
            DataReader, NewBlock, AtEof, writer, reader
<1>1. CASE WRead
  <2>1. CASE nread < NumBlocks /\ block' = nread'
    <3>1. Abstract!Put \/ UNCHANGED <<nread, out>>
      BY <1>1, <2>1, SMTT(60) DEF WRead, WGo, Abstract!Put
    <3>2. QED
      BY <1>1, <2>1, <3>1, SMTT(60) DEF WRead, WGo, Abstract!Next, Abstract!vars
  <2>2. CASE nread = NumBlocks /\ block' = 0 /\ wpc' = "release"
    BY <1>1, <2>2, SMTT(60) DEF WRead, WGo, Abstract!Next, Abstract!PutEof
  <2>3. CASE block' = -1 /\ UNCHANGED <<wpc, nread>>
    BY <1>1, <2>3, SMTT(60) DEF WRead, WGo, Abstract!vars
  <2>4. QED
    BY <1>1, <2>1, <2>2, <2>3, SMTT(60) DEF WRead, WGo
<1>2. CASE RWrite
  BY <1>2, SMTT(60) DEF RWrite, RGo, Abstract!Next, Abstract!Get
<1>3. CASE REof
  BY <1>3, SMTT(60) DEF REof, RGo, Abstract!Next, Abstract!GetEof, Abstract!vars
<1>4. CASE Writer /\ ~WRead
  BY <1>4, SMTT(60) DEF Writer, WGo, WSemget, WInitWrite, WInitRead, WShmget, WReserve, WRelease,
     WEof, WLastReserve, WRemoveSem, WDetach, WRemoveShm, Abstract!vars
<1>5. CASE Reader /\ ~RWrite /\ ~REof
  BY <1>5, SMTT(60) DEF Reader, RGo, RSemget, RShmget, RAttach, RReserve, RRelease, RDetach,
     RLastRelease, Abstract!vars
<1>6. CASE WDie \/ RDie \/ UNCHANGED vars
  BY <1>6, SMTT(60) DEF WDie, RDie, vars, Abstract!vars
<1>7. QED
  BY <1>1, <1>2, <1>3, <1>4, <1>5, <1>6, SMTT(60) DEF Next

\* The two programs implement the one-block channel, for any number of blocks.
THEOREM ShmXfrImplements == Spec => ImplementsTransfer
<1>1. Init => Abstract!Init
  BY DEF Init, Abstract!Init
<1>2. QED
  BY <1>1, InitIInv, NextIInv, NextAbstract, PTL DEF Spec, ImplementsTransfer, Abstract!Spec

-----------------------------------------------------------------------------
\* A call has a positive number, no call 0.
NtTypeOK == /\ lastId \in Nat /\ notif.id \in Nat /\ req.id \in Nat
            /\ notif.id <= lastId /\ req.id <= lastId
            /\ (notif.id = 0 <=> notif = NoCall) /\ (req.id = 0 <=> req = NoCall)

\* Before the options are read there are no processes, filters, calls or answers.
Unstarted == /\ mpc = "options" => results = {} /\ asked = {} /\ filters = {} /\ req = NoCall
             /\ mpc \in {"options", "fork1"} => targetPc = "unborn"
             /\ mpc \in {"options", "fork1", "fork2"} => tracerPc = "unborn"

\* What the tracer knows is about the call it has received, and that call is the
\* waiting one if they have the same number.
Traced == /\ notif.id = req.id => notif.path = req.path
          /\ tracerPc \in {"answer", "send"} => mem = req.path
          /\ tracerPc = "send" /\ mem = "tmp" => req.id \in asked

\* A call that waits has not returned.
Waiting == /\ notif # NoCall <=> targetPc = "blocked"
           /\ targetPc = "blocked" => notif.path = nopts.args[arg] /\ notif.id = lastId
           /\ \A r \in results : r.id \in Nat /\ r.id <= lastId /\ r.id # notif.id /\ r.id # 0

\* With the filter that returns ERRNO no call is ever notified.
Filtered == /\ "e" \in filters => nopts.secondFilter = "e"
            /\ nopts.secondFilter = "e" =>
                 /\ targetPc \in {"sendfd", "closefd", "next"} => "e" \in filters
                 /\ targetPc # "blocked" /\ notif = NoCall /\ asked = {}
                 /\ tracerPc \notin {"open", "answer", "send"}

\* The inductive invariant of the target, the tracer and their main process.
NotifyInv == /\ NtTypeOK /\ Unstarted /\ Traced /\ Waiting /\ Filtered
             /\ AnswersMatch

\* No notification has the number 0.
LEMMA NoCallFacts == NoCall.id = 0
  BY DEF NoCall

\* What mkdir() returns is recorded with the number and the pathname of its call.
LEMMA ReturnedRecord ==
    ASSUME NEW c, NEW got, Returned(c, got)
    PROVE  \E r : results' = results \cup {r} /\ r.id = c.id /\ r.path = c.path /\ r.got = got
<1> DEFINE r == [id |-> c.id, path |-> c.path, got |-> got]
<1>1. results' = results \cup {r}
  BY DEF Returned
<1>2. r.id = c.id /\ r.path = c.path /\ r.got = got
  OBVIOUS
<1> HIDE DEF r
<1>3. QED
  BY <1>1, <1>2

\* It holds before main() reads its options.
LEMMA NotifyInitial == NotifyInit => NotifyInv
<1> SUFFICES ASSUME NotifyInit PROVE NotifyInv
  OBVIOUS
<1>1. nopts.secondFilter = "none" /\ lastId = 0 /\ notif.id = 0 /\ req.id = 0
  BY NoCallFacts DEF NotifyInit
<1>2. NtTypeOK /\ Unstarted /\ Traced
  <2>1. NtTypeOK
    <3>1. lastId = 0 /\ notif = NoCall /\ req = NoCall
      BY DEF NotifyInit
    <3>2. notif.id <= lastId /\ req.id <= lastId
      BY <1>1
    <3>3. (notif.id = 0 <=> notif = NoCall) /\ (req.id = 0 <=> req = NoCall)
      BY <3>1, NoCallFacts
    <3>4. QED
      BY <3>1, <3>2, <3>3 DEF NtTypeOK
  <2>2. QED
    BY <1>1, <2>1 DEF NotifyInit, Unstarted, Traced
<1>3. Waiting /\ Filtered /\ AnswersMatch
  BY <1>1 DEF NotifyInit, Waiting, Filtered, AnswersMatch
<1>4. QED
  BY <1>2, <1>3 DEF NotifyInv

\* Every step of the two processes, of the kernel and of a signal keeps it.
LEMMA NotifyStep == NotifyInv /\ [NotifyNext]_noVars => NotifyInv'
<1> SUFFICES ASSUME NotifyInv, [NotifyNext]_noVars PROVE NotifyInv'
  OBVIOUS
<1>1. CASE parseCommandLineOptions
  BY <1>1, NoCallFacts, SMTT(60) DEF parseCommandLineOptions, NotifyInv, NtTypeOK, Unstarted,
     Traced, Waiting, Filtered, AnswersMatch
<1>2. CASE targetProcess
  BY <1>2, SMTT(60) DEF targetProcess, NotifyInv, NtTypeOK, Unstarted, Traced, Waiting, Filtered,
     AnswersMatch
<1>3. CASE tracerProcess
  BY <1>3, SMTT(60) DEF tracerProcess, NotifyInv, NtTypeOK, Unstarted, Traced, Waiting, Filtered,
     AnswersMatch
<1>4. CASE CloseSocketPair
  BY <1>4, SMTT(60) DEF CloseSocketPair, NotifyInv, NtTypeOK, Unstarted, Traced, Waiting,
     Filtered, AnswersMatch
<1>5. CASE WaitTarget
  BY <1>5, SMTT(60) DEF WaitTarget, Release, NotifyInv, NtTypeOK, Unstarted, Traced, Waiting,
     Filtered, AnswersMatch
<1>6. CASE WaitTracer
  BY <1>6, SMTT(60) DEF WaitTracer, NotifyInv, NtTypeOK, Unstarted, Traced, Waiting, Filtered,
     AnswersMatch
<1>7. CASE TargetSigaction
  BY <1>7, SMTT(60) DEF TargetSigaction, NotifyInv, NtTypeOK, Unstarted, Traced, Waiting,
     Filtered, AnswersMatch
<1>8. CASE installNotifyFilter
  BY <1>8, SMTT(60) DEF installNotifyFilter, NotifyInv, NtTypeOK, Unstarted, Traced, Waiting,
     Filtered, AnswersMatch
<1>9. CASE installFilter2
  BY <1>9, SMTT(60) DEF installFilter2, NotifyInv, NtTypeOK, Unstarted, Traced, Waiting, Filtered,
     AnswersMatch
<1>10. CASE sendfd
  BY <1>10, SMTT(60) DEF sendfd, NotifyInv, NtTypeOK, Unstarted, Traced, Waiting, Filtered,
     AnswersMatch
<1>11. CASE CloseNotifyFd
  BY <1>11, SMTT(60) DEF CloseNotifyFd, Release, NotifyInv, NtTypeOK, Unstarted, Traced, Waiting,
     Filtered, AnswersMatch
<1>12. CASE Mkdir
  <2>1. PICK c : c = [id |-> lastId + 1, path |-> nopts.args[arg]]
    BY ZenonT(60) DEF NotifyInv, NtTypeOK, Unstarted, Traced, Waiting, Filtered, AnswersMatch
  <2>a. c.id = lastId + 1 /\ c.path = nopts.args[arg]
    BY <2>1, SMTT(60) DEF NotifyInv, NtTypeOK, Unstarted, Traced, Waiting, Filtered, AnswersMatch
  <2>b. targetPc = "next" /\ lastId' = lastId + 1
    BY <1>12, SMTT(60) DEF Mkdir, NotifyInv, NtTypeOK, Unstarted, Traced, Waiting, Filtered,
       AnswersMatch
  <2>c. lastId + 1 # 0
    BY SMTT(60) DEF NotifyInv, NtTypeOK, Unstarted, Traced, Waiting, Filtered, AnswersMatch
  <2>2. c.id = lastId + 1 /\ c.path = nopts.args[arg] /\ c # NoCall /\ targetPc = "next" /\ lastId' = lastId + 1
    BY <2>a, <2>b, <2>c, NoCallFacts, SMTT(60) DEF NotifyInv, NtTypeOK, Unstarted, Traced,
       Waiting, Filtered, AnswersMatch
  <2>3. notif = NoCall /\ lastId' \in Nat
    BY <1>12, <2>2, SMTT(60) DEF NotifyInv, NtTypeOK, Unstarted, Traced, Waiting, Filtered,
       AnswersMatch
  <2>4. ASSUME NEW got \in {"ENOTSUP", "ENOSYS"}, got = "ENOTSUP" <=> "e" \in filters,
               Returned(c, got), UNCHANGED <<targetPc, notif>>
        PROVE  NotifyInv'
    <3>1. PICK r : results' = results \cup {r} /\ r.id = lastId + 1 /\ r.path = c.path /\ r.got = got
      BY <2>2, <2>4, ReturnedRecord, SMTT(60) DEF NotifyInv, NtTypeOK, Unstarted, Traced, Waiting,
         Filtered, AnswersMatch
    <3>2. NtTypeOK' /\ Unstarted' /\ Traced' /\ Waiting' /\ Filtered'
      <4>1. NtTypeOK'
        BY <1>12, <2>3, SMTT(60) DEF Mkdir, NotifyInv, NtTypeOK
      <4>2. Unstarted'
        BY <1>12, <2>2, <2>3, <2>4, <3>1, NoCallFacts, SMTT(60) DEF Mkdir, NotifyInv, NtTypeOK,
           Unstarted, Traced, Waiting, Filtered, AnswersMatch
      <4>3. Traced'
        BY <1>12, SMTT(60) DEF Mkdir, NotifyInv, NtTypeOK, Traced
      <4>4. Waiting'
        BY <2>2, <2>4, <3>1, SMTT(60) DEF NotifyInv, NtTypeOK, Waiting
      <4>5. Filtered'
        BY <1>12, SMTT(60) DEF Mkdir, NotifyInv, Filtered
      <4>6. QED
        BY <4>1, <4>2, <4>3, <4>4, <4>5, ZenonT(60) DEF NotifyInv, NtTypeOK, Unstarted, Traced,
           Waiting, Filtered, AnswersMatch
    <3>3. AnswersMatch'
      BY <1>12, <2>4, <3>1, SMTT(60) DEF Mkdir, NotifyInv, NtTypeOK, Unstarted, Traced, Waiting,
         Filtered, AnswersMatch
    <3>4. QED
      BY <3>2, <3>3, SMTT(60) DEF NotifyInv, NtTypeOK, Unstarted, Traced, Waiting, Filtered,
         AnswersMatch
  <2>5. CASE "e" \notin filters /\ notif' = c /\ targetPc' = "blocked" /\ UNCHANGED <<results, arg>>
    <3>1. NtTypeOK'
      BY <1>12, NoCallFacts, SMTT(60) DEF Mkdir, NotifyInv, NtTypeOK
    <3>2. Unstarted'
      BY <1>12, <2>2, <2>3, <2>5, NoCallFacts, SMTT(60) DEF Mkdir, NotifyInv, NtTypeOK, Unstarted,
         Traced, Waiting, Filtered, AnswersMatch
    <3>3. Traced'
      BY <1>12, SMTT(60) DEF Mkdir, NotifyInv, NtTypeOK, Traced
    <3>4. Waiting'
      BY <1>12, <2>5, SMTT(60) DEF Mkdir, NotifyInv, NtTypeOK, Waiting
    <3>5. Filtered'
      BY <1>12, SMTT(60) DEF Mkdir, NotifyInv, NtTypeOK, Unstarted, Traced, Filtered
    <3>6. AnswersMatch'
      BY <1>12, <2>5, SMTT(60) DEF Mkdir, NotifyInv, AnswersMatch
    <3>7. QED
      BY <3>1, <3>2, <3>3, <3>4, <3>5, <3>6, ZenonT(60) DEF NotifyInv, NtTypeOK, Unstarted,
         Traced, Waiting, Filtered, AnswersMatch
  <2>6. QED
    BY <1>12, <2>1, <2>4, <2>5, SMTT(60) DEF Mkdir, NotifyInv
<1>13. CASE MkdirFails
  <2>1. PICK r : /\ results' = results \cup {r} /\ r.id = notif.id /\ r.path = notif.path
                 /\ r.got \in {"ENOSYS", "EINTR"}
    BY <1>13, ReturnedRecord, SMTT(60) DEF MkdirFails, NotifyInv, NtTypeOK, Unstarted, Traced,
       Waiting, Filtered, AnswersMatch
  <2>2. notif.id # 0 /\ notif' = NoCall /\ targetPc' = "next"
    BY <1>13, NoCallFacts, SMTT(60) DEF MkdirFails, NotifyInv, NtTypeOK, Unstarted, Traced,
       Waiting, Filtered, AnswersMatch
  <2>3. NtTypeOK' /\ Unstarted' /\ Traced' /\ Waiting' /\ Filtered'
    <3>1. NtTypeOK'
      BY <1>13, NoCallFacts, SMTT(60) DEF MkdirFails, NotifyInv, NtTypeOK
    <3>2. Unstarted'
      BY <1>13, SMTT(60) DEF MkdirFails, NotifyInv, Unstarted
    <3>3. Traced'
      BY <1>13, NoCallFacts, SMTT(60) DEF MkdirFails, NotifyInv, NtTypeOK, Traced
    <3>4. Waiting'
      BY <1>13, <2>1, <2>2, NoCallFacts, SMTT(60) DEF MkdirFails, NotifyInv, NtTypeOK, Unstarted,
         Traced, Waiting, Filtered, AnswersMatch
    <3>5. Filtered'
      BY <1>13, <2>1, <2>2, NoCallFacts, SMTT(60) DEF MkdirFails, NotifyInv, NtTypeOK, Unstarted,
         Traced, Waiting, Filtered, AnswersMatch
    <3>6. QED
      BY <3>1, <3>2, <3>3, <3>4, <3>5, ZenonT(60) DEF NotifyInv, NtTypeOK, Unstarted, Traced,
         Waiting, Filtered, AnswersMatch
  <2>4. AnswersMatch'
    BY <1>13, <2>1, SMTT(60) DEF MkdirFails, NotifyInv, Waiting, Filtered, AnswersMatch
  <2>5. QED
    BY <2>3, <2>4, SMTT(60) DEF NotifyInv
<1>14. CASE TargetEnds
  <2>1. NtTypeOK'
    BY <1>14, NoCallFacts, SMTT(60) DEF TargetEnds, NotifyInv, NtTypeOK
  <2>2. Unstarted'
    BY <1>14, NoCallFacts, SMTT(60) DEF TargetEnds, NotifyInv, Unstarted
  <2>3. Traced'
    BY <1>14, NoCallFacts, SMTT(60) DEF TargetEnds, NotifyInv, NtTypeOK, Traced
  <2>4. Waiting'
    BY <1>14, NoCallFacts, SMTT(60) DEF TargetEnds, NotifyInv, Waiting
  <2>5. Filtered'
    BY <1>14, SMTT(60) DEF TargetEnds, NotifyInv, NtTypeOK, Filtered
  <2>6. AnswersMatch'
    BY <1>14, SMTT(60) DEF TargetEnds, NotifyInv, AnswersMatch
  <2>7. QED
    BY <2>1, <2>2, <2>3, <2>4, <2>5, <2>6, SMTT(60) DEF NotifyInv
<1>15. CASE recvfd
  BY <1>15, SMTT(60) DEF recvfd, NotifyInv, NtTypeOK, Unstarted, Traced, Waiting, Filtered,
     AnswersMatch
<1>16. CASE NotifRecv
  <2>1. NtTypeOK'
    BY <1>16, SMTT(60) DEF NotifRecv, NotifyInv, NtTypeOK
  <2>2. Unstarted'
    BY <1>16, SMTT(60) DEF NotifRecv, NotifyInv, Unstarted
  <2>3. Traced'
    BY <1>16, SMTT(60) DEF NotifRecv, Traced
  <2>4. Waiting'
    BY <1>16, SMTT(60) DEF NotifRecv, NotifyInv, Waiting
  <2>5. Filtered'
    BY <1>16, SMTT(60) DEF NotifRecv, NotifyInv, NtTypeOK, Unstarted, Traced, Waiting, Filtered,
       AnswersMatch
  <2>6. AnswersMatch'
    BY <1>16, SMTT(60) DEF NotifRecv, NotifyInv, NtTypeOK, Unstarted, Traced, Waiting, Filtered,
       AnswersMatch
  <2>7. QED
    BY <2>1, <2>2, <2>3, <2>4, <2>5, <2>6, ZenonT(60) DEF NotifyInv, NtTypeOK
<1>17. CASE ReadMem
  <2>1. NtTypeOK'
    BY <1>17, SMTT(60) DEF ReadMem, TracerEnds, NotifyInv, NtTypeOK
  <2>2. Unstarted'
    BY <1>17, SMTT(60) DEF ReadMem, NotifyInv, Unstarted
  <2>3. Traced'
    BY <1>17, SMTT(60) DEF ReadMem, TracerEnds, NotifyInv, Unstarted, Traced
  <2>4. Waiting'
    BY <1>17, SMTT(60) DEF ReadMem, TracerEnds, Release, NotifyInv, Waiting
  <2>5. Filtered'
    BY <1>17, SMTT(60) DEF ReadMem, NotifyInv, Filtered
  <2>6. AnswersMatch'
    BY <1>17, SMTT(60) DEF ReadMem, TracerEnds, NotifyInv, AnswersMatch
  <2>7. QED
    BY <2>1, <2>2, <2>3, <2>4, <2>5, <2>6, ZenonT(60) DEF NotifyInv
<1>18. CASE Respond
  <2>1. NtTypeOK'
    BY <1>18, SMTT(60) DEF Respond, NotifyInv, NtTypeOK
  <2>2. Unstarted'
    BY <1>18, SMTT(60) DEF Respond, NotifyInv, NtTypeOK, Unstarted, Traced, Waiting, Filtered,
       AnswersMatch
  <2>3. Traced'
    BY <1>18, SMTT(60) DEF Respond, NotifyInv, Traced
  <2>4. Waiting'
    BY <1>18, SMTT(60) DEF Respond, NotifyInv, NtTypeOK, Unstarted, Traced, Waiting, Filtered,
       AnswersMatch
  <2>5. Filtered'
    BY <1>18, SMTT(60) DEF Respond, NotifyInv, Filtered
  <2>6. AnswersMatch'
    BY <1>18, SMTT(60) DEF Respond, NotifyInv, Filtered, AnswersMatch
  <2>7. QED
    BY <2>1, <2>2, <2>3, <2>4, <2>5, <2>6, ZenonT(60) DEF NotifyInv
<1>19. CASE NotifSend
  <2>1. CASE notif # NoCall /\ notif.id = req.id
    <3>1. PICK r : /\ results' = results \cup {r} /\ r.id = notif.id /\ r.path = notif.path
                   /\ r.got = IF mem = "tmp" THEN "ok" ELSE "EPERM"
      BY <1>19, <2>1, ReturnedRecord, SMTT(60) DEF NotifSend
    <3>2. notif.id # 0 /\ notif' = NoCall /\ targetPc' = "next" /\ targetPc = "blocked" /\ tracerPc = "send"
      BY <1>19, <2>1, SMTT(60) DEF NotifSend, NotifyInv, NtTypeOK, Waiting
    <3>3. NtTypeOK' /\ Unstarted' /\ Traced' /\ Waiting' /\ Filtered'
      <4>1. NtTypeOK'
        BY <1>19, NoCallFacts, SMTT(60) DEF NotifSend, NotifyInv, NtTypeOK
      <4>2. Unstarted'
        BY <1>19, SMTT(60) DEF NotifSend, NotifyInv, Unstarted
      <4>3. Traced'
        BY <1>19, <3>2, NoCallFacts, SMTT(60) DEF NotifSend, Traced
      <4>4. Waiting'
        BY <1>19, <3>1, NoCallFacts, SMTT(60) DEF NotifSend, NotifyInv, NtTypeOK, Waiting
      <4>5. Filtered'
        BY <1>19, SMTT(60) DEF NotifSend, NotifyInv, Filtered
      <4>6. QED
        BY <4>1, <4>2, <4>3, <4>4, <4>5, ZenonT(60)
    <3>4. AnswersMatch'
      BY <1>19, <2>1, <3>1, <3>2, SMTT(60) DEF NotifSend, NotifyInv, NtTypeOK, Unstarted, Traced,
         Waiting, Filtered, AnswersMatch
    <3>5. QED
      BY <3>3, <3>4 DEF NotifyInv, NtTypeOK, Unstarted, Traced, Waiting, Filtered, AnswersMatch
  <2>2. CASE ~(notif # NoCall /\ notif.id = req.id)
    <3>1. NtTypeOK'
      BY <1>19, <2>2, SMTT(60) DEF NotifSend, NotifyInv, NtTypeOK, Unstarted, Traced, Waiting,
         Filtered, AnswersMatch
    <3>2. Unstarted'
      BY <1>19, <2>2, SMTT(60) DEF NotifSend, NotifyInv, NtTypeOK, Unstarted, Traced, Waiting,
         Filtered, AnswersMatch
    <3>3. Traced'
      BY <1>19, <2>2, SMTT(60) DEF NotifSend, NotifyInv, NtTypeOK, Unstarted, Traced, Waiting,
         Filtered, AnswersMatch
    <3>4. Waiting'
      BY <1>19, <2>2, SMTT(60) DEF NotifSend, NotifyInv, NtTypeOK, Unstarted, Traced, Waiting,
         Filtered, AnswersMatch
    <3>5. Filtered'
      BY <1>19, <2>2, SMTT(60) DEF NotifSend, NotifyInv, NtTypeOK, Unstarted, Traced, Waiting,
         Filtered, AnswersMatch
    <3>6. AnswersMatch'
      BY <1>19, <2>2, SMTT(60) DEF NotifSend, NotifyInv, NtTypeOK, Unstarted, Traced, Waiting,
         Filtered, AnswersMatch
    <3>7. QED
      BY <3>1, <3>2, <3>3, <3>4, <3>5, <3>6, ZenonT(60) DEF NotifyInv, NtTypeOK, Unstarted,
         Traced, Waiting, Filtered, AnswersMatch
  <2>3. QED
    BY <2>1, <2>2, SMTT(60)
<1>20. CASE RecvFails
  <2>1. NtTypeOK'
    BY <1>20, SMTT(60) DEF RecvFails, TracerEnds, Release, NotifyInv, NtTypeOK
  <2>2. Unstarted'
    BY <1>20, SMTT(60) DEF RecvFails, TracerEnds, Release, NotifyInv, Unstarted
  <2>3. Traced'
    BY <1>20, SMTT(60) DEF RecvFails, TracerEnds, Release, NotifyInv, Unstarted, Traced
  <2>4. Waiting'
    BY <1>20, SMTT(60) DEF RecvFails, TracerEnds, Release, NotifyInv, Waiting
  <2>5. Filtered'
    BY <1>20, SMTT(60) DEF RecvFails, TracerEnds, Release, NotifyInv, Filtered
  <2>6. AnswersMatch'
    BY <1>20, SMTT(60) DEF RecvFails, TracerEnds, Release, NotifyInv, AnswersMatch
  <2>7. QED
    BY <2>1, <2>2, <2>3, <2>4, <2>5, <2>6, ZenonT(60) DEF NotifyInv
<1>21. CASE UNCHANGED noVars
  BY <1>21, SMTT(60) DEF noVars, NotifyInv, NtTypeOK, Unstarted, Traced, Waiting, Filtered,
     AnswersMatch
<1>22. QED
  BY <1>1, <1>2, <1>3, <1>4, <1>5, <1>6, <1>7, <1>8, <1>9, <1>10, <1>11, <1>12, <1>13, <1>14,
     <1>15, <1>16, <1>17, <1>18, <1>19, <1>20, <1>21, ZenonT(60) DEF NotifyNext

\* For every command line, and however often a signal interrupts the target's
\* mkdir(): success is returned only for a pathname below /tmp, after the tracer has
\* itself called mkdir() for this very call; EPERM only for other ones; no call
\* returns twice; and no call is notified past a filter that returns ERRNO.
THEOREM NotifyCorrect == NotifySpec => []AnswersMatch
<1>1. NotifyInv => AnswersMatch
  BY DEF NotifyInv
<1>2. QED
  BY NotifyInitial, NotifyStep, <1>1, PTL DEF NotifySpec
=============================================================================
