------------------------------- MODULE Malloc -------------------------------
(***************************************************************************)
(* exercises/07-memory-allocation/malloc.c: a first-fit allocator over     *)
(* sbrk().  Addresses are offsets from the initial program break, in units *)
(* in which a header takes Meta.  The list of blocks is a sequence.        *)
(***************************************************************************)
EXTENDS Integers, Sequences, FiniteSets

CONSTANTS SizeMod,      \* 2^w, w the width of size_t
          Meta,         \* MEM_BLOCK_META_SIZE
          HeapMax,      \* the break sbrk() cannot go beyond
          Requests,     \* sizes the client asks for
          OtherIncr     \* what the C library adds to the break for itself

ASSUME MallocAssumption == /\ SizeMod \in Nat \ {0}
                           /\ Meta \in Nat \ {0} /\ HeapMax \in Nat
                           /\ OtherIncr \in Nat \ {0}
                           /\ Requests \subseteq 0..(SizeMod - 1)

VARIABLES brk,          \* the program break
          memBlockList, \* the headers, in list order
          live          \* what the client holds: pointer -> size it asked for

vars == <<brk, memBlockList, live>>

Header == [addr : Nat, size : Nat, occupied : {0, 1}]

TypeOK == /\ brk \in 0..HeapMax
          /\ memBlockList \in Seq(Header)
          /\ DOMAIN live \subseteq Nat /\ \A p \in DOMAIN live : live[p] \in Requests

Init == brk = 0 /\ memBlockList = <<>> /\ live = [p \in {} |-> 0]

Indices == 1..Len(memBlockList)
Ptr(i) == memBlockList[i].addr + Meta       \* p + 1

----------------------------------------------------------------------------
Fits(i, sz) == memBlockList[i].occupied = 0 /\ sz <= memBlockList[i].size

\* findFreeBlock() returns block i: the first that is free and large enough.
findFreeBlock(sz, i) == Fits(i, sz) /\ \A j \in 1..(i - 1) : ~Fits(j, sz)

\* The argument of sbrk() is a size_t that the call takes as a signed number.
Signed(n) == IF 2 * n >= SizeMod THEN n - SizeMod ELSE n
NewBreak(n) == brk + Signed(n)
sbrk(n) == NewBreak(n) \in 0..HeapMax /\ brk' = NewBreak(n)

\* BUG: no room is requested for the header.
MutrequestSpace(sz) ==
    /\ sbrk(sz)
    /\ memBlockList' = Append(memBlockList, [addr |-> brk, size |-> sz, occupied |-> 1])

\* requestSpace() succeeds; the new header is linked at the end of the list and
\* marked occupied.
requestSpace(sz) ==
    /\ sbrk((sz + Meta) % SizeMod)
    /\ memBlockList' = Append(memBlockList, [addr |-> brk, size |-> sz, occupied |-> 1])

Hold(ptr, sz) == live' = [p \in DOMAIN live \cup {ptr} |-> IF p = ptr THEN sz ELSE live[p]]

\* BUG: the reused block is not marked occupied.
MutReuse(sz) ==
    \E i \in Indices : /\ findFreeBlock(sz, i)
                       /\ memBlockList' = [memBlockList EXCEPT ![i].occupied = 0]
                       /\ Hold(Ptr(i), sz)
                       /\ UNCHANGED brk

\* myMalloc(sz) finds a free block.
Reuse(sz) ==
    \E i \in Indices : /\ findFreeBlock(sz, i)
                       /\ memBlockList' = [memBlockList EXCEPT ![i].occupied = 1]
                       /\ Hold(Ptr(i), sz)
                       /\ UNCHANGED brk

\* myMalloc(sz) extends the heap.
Extend(sz) == /\ \A i \in Indices : ~Fits(i, sz)
              /\ requestSpace(sz)
              /\ Hold(brk + Meta, sz)

\* myMalloc(sz) returns NULL: sz = 0, or sbrk() failed.
ReturnNull(sz) == /\ \/ sz = 0
                     \/ /\ \A i \in Indices : ~Fits(i, sz)
                        /\ NewBreak((sz + Meta) % SizeMod) \notin 0..HeapMax
                  /\ UNCHANGED vars

myMalloc(sz) == (sz # 0 /\ (Reuse(sz) \/ Extend(sz))) \/ ReturnNull(sz)

\* The header just below ptr is marked free; the assertion on it is
\* FreeSucceeds.  The client frees only what it holds.
myFree(ptr) == /\ \E i \in Indices : /\ Ptr(i) = ptr
                                     /\ memBlockList' = [memBlockList EXCEPT ![i].occupied = 0]
               /\ live' = [p \in DOMAIN live \ {ptr} |-> live[p]]
               /\ UNCHANGED brk

\* printf() allocates its buffers from the same heap.
LibrarySbrk == /\ brk + OtherIncr <= HeapMax
               /\ brk' = brk + OtherIncr
               /\ UNCHANGED <<memBlockList, live>>

Next == \/ \E sz \in Requests : myMalloc(sz)
        \/ \E ptr \in DOMAIN live : myFree(ptr)
        \/ LibrarySbrk

Spec == Init /\ [][Next]_vars

----------------------------------------------------------------------------
\* Requests whose size and header together are a non-negative ssize_t.
SmallRequests == \A sz \in Requests : 2 * (sz + Meta) < SizeMod

Overlap(a, m, b, n) == a < b + n /\ b < a + m

\* No two pointers the client holds share memory: the bytes asked for with one
\* and the bytes, or the header, of the other do not overlap (myMalloc() may
\* hand out a block only after it was freed, and only as much as it has).
LiveDisjoint == \A p, q \in DOMAIN live :
                    p # q => ~Overlap(p, live[p], q - Meta, live[q] + Meta)

\* "Allocates memory on heap" (malloc.c:30): every block lies below the break.
OnHeap == \A i \in Indices : memBlockList[i].addr + Meta + memBlockList[i].size <= brk

\* A pointer the client holds leads myFree() to a header that is occupied, so
\* assert(p->occupied == 1) (malloc.c:73) holds, and an occupied header is held:
\* first fit neither hands out a block twice nor forgets a free one.
FreeSucceeds ==
    DOMAIN live = {Ptr(i) : i \in {j \in Indices : memBlockList[j].occupied = 1}}

\* A block is large enough for what its holder asked for, whatever was
\* allocated in it before (findFreeBlock() reuses larger blocks whole).
LargeEnough == \A i \in Indices : memBlockList[i].occupied = 1 =>
                   Ptr(i) \in DOMAIN live /\ live[Ptr(i)] <= memBlockList[i].size
=============================================================================
