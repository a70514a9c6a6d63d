------------------------------ MODULE Transfer ------------------------------
(***************************************************************************)
(* What the pair svshm_xfr_writer / svshm_xfr_reader promises: a stream of *)
(* NumBlocks blocks passes through a buffer of one block, each block is    *)
(* taken once and in order, and the end of file is seen after the last.    *)
(***************************************************************************)
EXTENDS Naturals, Sequences

CONSTANT NumBlocks

VARIABLES put,          \* blocks put into the buffer so far
          got,          \* blocks taken out of it
          eof           \* "no", "put" or "got"

vars == <<put, got, eof>>

Init == put = 0 /\ got = <<>> /\ eof = "no"

Put == /\ put = Len(got) /\ put < NumBlocks
       /\ put' = put + 1
       /\ UNCHANGED <<got, eof>>

Get == /\ Len(got) < put
       /\ got' = Append(got, put)
       /\ UNCHANGED <<put, eof>>

PutEof == /\ put = Len(got) /\ put = NumBlocks /\ eof = "no"
          /\ eof' = "put"
          /\ UNCHANGED <<put, got>>

GetEof == /\ eof = "put"
          /\ eof' = "got"
          /\ UNCHANGED <<put, got>>

Next == Put \/ Get \/ PutEof \/ GetEof

Spec == Init /\ [][Next]_vars
=============================================================================
