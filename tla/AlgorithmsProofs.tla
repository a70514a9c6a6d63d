---------------------------- MODULE AlgorithmsProofs ----------------------------
(***************************************************************************)
(* Three programs whose difficulty is what they compute.                   *)
(*                                                                         *)
(* Malloc: the allocator of exercises/07 is correct for every heap limit,  *)
(* every header size and every set of requests that are small enough not   *)
(* to wrap.  The list is ordered by address and its blocks do not overlap  *)
(* (Ordered), because sbrk() only ever moves the break up; disjointness of *)
(* what the client holds follows, as each pointer leads to its own block   *)
(* (FreeSucceeds) and stays inside it (LargeEnough).                       *)
(*                                                                         *)
(* AccessControl, acl_update.c: every file gets the ACL its command line   *)
(* asks for, for every sequence of files and every specification.  The     *)
(* invariant says what the entries applied so far make of the current ACL  *)
(* (Partly); recalculating the mask after each entry, as the code does, is *)
(* the same as once at the end (MaskedChange).                             *)
(*                                                                         *)
(* AccessControl, ns_capable.c: the verdict is the kernel's rule for every *)
(* tree of user namespaces.  The walk up the tree loses no ancestor        *)
(* (Walked), and two descriptors are enough for it, whatever numbers the   *)
(* kernel hands out (Descriptors).                                         *)
(***************************************************************************)
EXTENDS Malloc, AccessControl, TLAPS

End(i) == Ptr(i) + memBlockList[i].size

Ordered == \A i, k \in Indices : i < k => End(i) <= memBlockList[k].addr

IInv == TypeOK /\ Ordered /\ OnHeap /\ FreeSucceeds /\ LargeEnough

\* The size and header of a small request do not wrap, nor turn negative.
LEMMA NoWrap == ASSUME SmallRequests, NEW sz \in Requests
                PROVE  Signed((sz + Meta) % SizeMod) = sz + Meta
<1>1. sz \in Nat /\ sz + Meta \in Nat /\ 2 * (sz + Meta) < SizeMod
  BY MallocAssumption DEF SmallRequests
<1>2. (sz + Meta) % SizeMod = sz + Meta
  BY <1>1, MallocAssumption
<1>3. QED
  BY <1>1, <1>2, MallocAssumption DEF Signed

\* A member of the list is a header, its index a number.
LEMMA BlockType == ASSUME TypeOK, NEW i \in Indices
                   PROVE  /\ i \in Nat /\ Len(memBlockList) \in Nat
                          /\ memBlockList[i] \in Header
                          /\ memBlockList[i].addr \in Nat /\ memBlockList[i].size \in Nat
<1>1. i \in Nat /\ Len(memBlockList) \in Nat /\ memBlockList[i] \in Header
  BY DEF TypeOK, Indices
<1>2. QED
  BY <1>1 DEF Header

\* Two blocks of an ordered list have different addresses.
LEMMA PtrInjective == ASSUME TypeOK, Ordered, NEW i \in Indices, NEW k \in Indices, i # k
                      PROVE  Ptr(i) # Ptr(k)
<1>1. /\ memBlockList[i].addr \in Nat /\ memBlockList[i].size \in Nat
      /\ memBlockList[k].addr \in Nat /\ memBlockList[k].size \in Nat
  BY BlockType
<1>2. i < k \/ k < i
  BY BlockType
<1>3. QED
  BY <1>1, <1>2, MallocAssumption DEF Ordered, End, Ptr

\* An empty heap satisfies the invariant.
LEMMA InitIInv == Init => IInv
BY MallocAssumption DEF Init, IInv, TypeOK, Ordered, OnHeap, FreeSucceeds, LargeEnough, Indices

\* A pointer the client holds belongs to one occupied block.
LEMMA LiveHasBlock == ASSUME IInv, NEW p \in DOMAIN live
                      PROVE  \E i \in Indices : /\ memBlockList[i].occupied = 1 /\ Ptr(i) = p
                                                /\ live[p] <= memBlockList[i].size
BY DEF IInv, FreeSucceeds, LargeEnough

\* The invariant implies that what the client holds is disjoint.
LEMMA IInvDisjoint == IInv => LiveDisjoint
<1> SUFFICES ASSUME IInv, NEW p \in DOMAIN live, NEW q \in DOMAIN live, p # q
             PROVE  ~Overlap(p, live[p], q - Meta, live[q] + Meta)
  BY DEF LiveDisjoint
<1>1. PICK i \in Indices : Ptr(i) = p /\ live[p] <= memBlockList[i].size
  BY LiveHasBlock
<1>2. PICK k \in Indices : Ptr(k) = q /\ live[q] <= memBlockList[k].size
  BY LiveHasBlock
<1>3. /\ memBlockList[i].addr \in Nat /\ memBlockList[i].size \in Nat
      /\ memBlockList[k].addr \in Nat /\ memBlockList[k].size \in Nat
      /\ live[p] \in Nat /\ live[q] \in Nat
  <2>1. live[p] \in Requests /\ live[q] \in Requests /\ TypeOK
    BY DEF IInv, TypeOK
  <2>2. live[p] \in Nat /\ live[q] \in Nat
    <3>1. live[p] \in 0..(SizeMod - 1) /\ live[q] \in 0..(SizeMod - 1)
      BY <2>1, MallocAssumption, Zenon
    <3>2. QED
      BY <3>1, MallocAssumption
  <2>3. QED
    BY <2>1, <2>2, BlockType
<1>4. i < k \/ k < i
  <2>1. i # k
    BY <1>1, <1>2
  <2>2. i \in Nat /\ k \in Nat
    BY BlockType DEF IInv
  <2>3. QED
    BY <2>1, <2>2
<1>5. QED
  BY <1>1, <1>2, <1>3, <1>4, MallocAssumption DEF IInv, Ordered, End, Ptr, Overlap

\* A reused block is free, so it was held by nobody; it is now held.
LEMMA ReuseIInv == ASSUME IInv, NEW sz \in Requests, Reuse(sz)
                   PROVE  IInv'
<1>1. PICK i \in Indices : /\ Fits(i, sz)
                           /\ memBlockList' = [memBlockList EXCEPT ![i].occupied = 1]
                           /\ Hold(Ptr(i), sz)
                           /\ brk' = brk
  BY Zenon DEF Reuse, findFreeBlock
<1>2. /\ Indices' = Indices
      /\ \A k \in Indices : /\ memBlockList'[k].addr = memBlockList[k].addr
                            /\ memBlockList'[k].size = memBlockList[k].size
                            /\ Ptr(k)' = Ptr(k)
                            /\ memBlockList'[k].occupied =
                                   IF k = i THEN 1 ELSE memBlockList[k].occupied
  <2>1. memBlockList \in Seq(Header) /\ memBlockList' = [memBlockList EXCEPT ![i].occupied = 1]
    BY <1>1 DEF IInv, TypeOK
  <2>2. Len(memBlockList') = Len(memBlockList)
    BY <2>1
  <2>3. QED
    BY <2>1, <2>2 DEF Indices, Ptr
<1>3. TypeOK'
  <2>1. memBlockList' \in Seq(Header)
    <3>1. [memBlockList[i] EXCEPT !.occupied = 1] \in Header
      BY BlockType DEF IInv, Header
    <3>2. memBlockList' = [memBlockList EXCEPT ![i] = [memBlockList[i] EXCEPT !.occupied = 1]]
      BY <1>1
    <3>3. QED
      BY <3>1, <3>2 DEF IInv, TypeOK, Indices
  <2>2. Ptr(i) \in Nat
    BY BlockType, MallocAssumption, SMTT(60) DEF IInv, Ptr
  <2>3. QED
    BY <1>1, <2>1, <2>2 DEF IInv, TypeOK, Hold
<1>4. Ordered' /\ OnHeap'
  BY <1>1, <1>2 DEF IInv, Ordered, OnHeap, End
<1>5. /\ DOMAIN live' = DOMAIN live \cup {Ptr(i)}
      /\ \A p \in DOMAIN live' : live'[p] = IF p = Ptr(i) THEN sz ELSE live[p]
  BY <1>1 DEF Hold
<1>6. FreeSucceeds'
  BY <1>2, <1>5 DEF IInv, FreeSucceeds
<1>7. LargeEnough'
  <2> SUFFICES ASSUME NEW k \in Indices, memBlockList'[k].occupied = 1
               PROVE  Ptr(k) \in DOMAIN live' /\ live'[Ptr(k)] <= memBlockList[k].size
    BY <1>2 DEF LargeEnough
  <2>1. CASE k = i
    BY <1>1, <1>5, <2>1 DEF Fits
  <2>2. CASE k # i
    BY <1>2, <1>5, <2>2, PtrInjective DEF IInv, LargeEnough
  <2>3. QED
    BY <2>1, <2>2
<1>8. QED
  BY <1>3, <1>4, <1>6, <1>7 DEF IInv

\* A new block starts at the old break, above every other, and ends at the new.
LEMMA ExtendIInv == ASSUME IInv, SmallRequests, NEW sz \in Requests, Extend(sz)
                    PROVE  IInv'
<1>1. /\ brk' = brk + sz + Meta /\ brk' \in 0..HeapMax
      /\ sz \in Nat /\ brk \in Nat /\ Meta \in Nat
  <2>1. brk' = brk + Signed((sz + Meta) % SizeMod) /\ brk' \in 0..HeapMax
    BY DEF Extend, requestSpace, sbrk, NewBreak
  <2>2. Signed((sz + Meta) % SizeMod) = sz + Meta
    BY NoWrap
  <2>3. sz \in Nat /\ brk \in Nat /\ Meta \in Nat
    BY MallocAssumption DEF IInv, TypeOK
  <2>4. QED
    BY <2>1, <2>2, <2>3
<1>2. /\ memBlockList' = Append(memBlockList, [addr |-> brk, size |-> sz, occupied |-> 1])
      /\ Hold(brk + Meta, sz)
  BY DEF Extend, requestSpace
<1> PICK n : n = Len(memBlockList) + 1
  OBVIOUS
<1>3. /\ n \in Nat /\ Indices' = Indices \cup {n} /\ n \notin Indices
      /\ \A k \in Indices : k \in Nat /\ k < n
      /\ \A k \in Indices : memBlockList'[k] = memBlockList[k] /\ Ptr(k)' = Ptr(k)
      /\ memBlockList'[n] = [addr |-> brk, size |-> sz, occupied |-> 1]
      /\ Ptr(n)' = brk + Meta
  <2>1. memBlockList \in Seq(Header) /\ Len(memBlockList) \in Nat
    BY DEF IInv, TypeOK
  <2>2. /\ Len(memBlockList') = n
        /\ \A k \in Indices : memBlockList'[k] = memBlockList[k]
        /\ memBlockList'[n] = [addr |-> brk, size |-> sz, occupied |-> 1]
    BY <1>2, <2>1 DEF Indices
  <2>3. QED
    BY <2>1, <2>2 DEF Indices, Ptr
<1>4. TypeOK'
  <2>1. [addr |-> brk, size |-> sz, occupied |-> 1] \in Header
    BY <1>1 DEF Header
  <2>2. memBlockList' \in Seq(Header)
    BY <1>2, <2>1 DEF IInv, TypeOK
  <2>3. QED
    BY <1>1, <1>2, <2>2, SMTT(60) DEF IInv, TypeOK, Hold
<1>5. \A k \in Indices : /\ End(k) <= brk /\ End(k)' = End(k)
                         /\ memBlockList[k].addr \in Nat /\ memBlockList[k].size \in Nat
                         /\ Ptr(k) # brk + Meta
  <2> SUFFICES ASSUME NEW k \in Indices
               PROVE  /\ End(k) <= brk /\ End(k)' = End(k)
                      /\ memBlockList[k].addr \in Nat /\ memBlockList[k].size \in Nat
                      /\ Ptr(k) # brk + Meta
    OBVIOUS
  <2>1. memBlockList[k].addr \in Nat /\ memBlockList[k].size \in Nat
    BY BlockType DEF IInv
  <2>2. End(k) <= brk /\ End(k)' = End(k)
    BY <1>3 DEF IInv, OnHeap, End, Ptr
  <2>3. QED
    <3>1. Meta > 0
      BY MallocAssumption
    <3>2. memBlockList[k].addr + Meta + memBlockList[k].size <= brk
      BY <2>2 DEF End, Ptr
    <3>3. memBlockList[k].addr + Meta # brk + Meta
      BY <1>1, <2>1, <3>1, <3>2, SMTT(60)
    <3>4. QED
      BY <2>1, <2>2, <3>3 DEF Ptr
<1>6. Ordered'
  BY <1>3, <1>5, SMTT(60) DEF IInv, Ordered, TypeOK, Indices
<1>7. OnHeap'
  <2> SUFFICES ASSUME NEW k \in Indices'
               PROVE  memBlockList'[k].addr + Meta + memBlockList'[k].size <= brk'
    BY DEF OnHeap
  <2>1. CASE k = n
    BY <1>1, <1>3, <2>1, SMTT(60)
  <2>2. CASE k \in Indices
    <3>1. /\ memBlockList'[k] = memBlockList[k]
          /\ memBlockList[k].addr + Meta + memBlockList[k].size <= brk
          /\ memBlockList[k].addr \in Nat /\ memBlockList[k].size \in Nat
      BY <1>3, <1>5, <2>2 DEF End, Ptr
    <3>2. PICK a \in Nat, m \in Nat, z \in Nat :
            a = memBlockList[k].addr /\ m = Meta /\ z = memBlockList[k].size
      BY <1>1, <3>1, SMTT(60)
    <3>3. a + m + z <= brk
      BY <3>1, <3>2
    <3>4. a + m + z <= brk'
      <4>1. brk \in Nat /\ brk' \in Nat /\ brk <= brk'
        BY <1>1
      <4>2. a + m + z \in Nat
        OBVIOUS
      <4>3. QED
        BY <3>3, <4>1, <4>2
    <3>5. QED
      BY <3>1, <3>2, <3>4
  <2>3. QED
    BY <1>3, <2>1, <2>2
<1>8. /\ DOMAIN live' = DOMAIN live \cup {brk + Meta}
      /\ \A p \in DOMAIN live' : live'[p] = IF p = brk + Meta THEN sz ELSE live[p]
  BY <1>2 DEF Hold
<1>9. FreeSucceeds'
  BY <1>3, <1>8, SMTT(60) DEF IInv, FreeSucceeds
<1>10. LargeEnough'
  BY <1>1, <1>3, <1>5, <1>8, SMTT(60) DEF IInv, LargeEnough
<1>11. QED
  BY <1>4, <1>6, <1>7, <1>9, <1>10 DEF IInv

\* Freeing clears one occupied flag and forgets the pointer to that block.
LEMMA FreeIInv == ASSUME IInv, NEW ptr \in DOMAIN live, myFree(ptr)
                  PROVE  IInv'
<1>1. PICK i \in Indices : /\ Ptr(i) = ptr
                           /\ memBlockList' = [memBlockList EXCEPT ![i].occupied = 0]
  BY Zenon DEF myFree
<1>2. /\ Indices' = Indices
      /\ \A k \in Indices : /\ memBlockList'[k].addr = memBlockList[k].addr
                            /\ memBlockList'[k].size = memBlockList[k].size
                            /\ Ptr(k)' = Ptr(k)
                            /\ memBlockList'[k].occupied =
                                   IF k = i THEN 0 ELSE memBlockList[k].occupied
  <2>1. memBlockList \in Seq(Header) /\ memBlockList' = [memBlockList EXCEPT ![i].occupied = 0]
    BY <1>1 DEF IInv, TypeOK
  <2>2. Len(memBlockList') = Len(memBlockList)
    BY <2>1
  <2>3. QED
    BY <2>1, <2>2 DEF Indices, Ptr
<1>3. /\ DOMAIN live' = DOMAIN live \ {ptr} /\ brk' = brk
      /\ \A p \in DOMAIN live' : live'[p] = live[p]
  BY DEF myFree
<1>4. TypeOK'
  <2>1. memBlockList' \in Seq(Header)
    <3>1. [memBlockList[i] EXCEPT !.occupied = 0] \in Header
      BY BlockType DEF IInv, Header
    <3>2. memBlockList' = [memBlockList EXCEPT ![i] = [memBlockList[i] EXCEPT !.occupied = 0]]
      BY <1>1
    <3>3. QED
      BY <3>1, <3>2 DEF IInv, TypeOK, Indices
  <2>2. QED
    BY <1>3, <2>1 DEF IInv, TypeOK
<1>5. Ordered' /\ OnHeap'
  BY <1>2, <1>3, SMTT(60) DEF IInv, Ordered, OnHeap, End
<1>6. \A k \in Indices : k # i => Ptr(k) # ptr
  BY <1>1, PtrInjective DEF IInv
<1>7. FreeSucceeds'
  BY <1>1, <1>2, <1>3, <1>6 DEF IInv, FreeSucceeds
<1>8. LargeEnough'
  BY <1>2, <1>3, <1>6 DEF IInv, LargeEnough
<1>9. QED
  BY <1>4, <1>5, <1>7, <1>8 DEF IInv

\* With requests that do not wrap, every step preserves the invariant.
LEMMA NextIInv == ASSUME SmallRequests PROVE IInv /\ [Next]_vars => IInv'
<1> SUFFICES ASSUME IInv, [Next]_vars PROVE IInv'
  OBVIOUS
<1>1. ASSUME NEW sz \in Requests, myMalloc(sz) PROVE IInv'
  <2>1. CASE Reuse(sz)
    BY <2>1, ReuseIInv
  <2>2. CASE Extend(sz)
    BY <2>2, ExtendIInv
  <2>3. CASE UNCHANGED vars
    BY <2>3, Zenon DEF vars, IInv, TypeOK, Ordered, OnHeap, FreeSucceeds, LargeEnough, Indices, End, Ptr
  <2>4. QED
    BY <1>1, <2>1, <2>2, <2>3 DEF myMalloc, ReturnNull
<1>2. ASSUME NEW ptr \in DOMAIN live, myFree(ptr) PROVE IInv'
  BY <1>2, FreeIInv
<1>3. CASE LibrarySbrk
  <2>1. /\ brk' = brk + OtherIncr /\ brk' <= HeapMax /\ UNCHANGED <<memBlockList, live>>
        /\ brk \in Nat /\ OtherIncr \in Nat /\ HeapMax \in Nat
    BY <1>3, MallocAssumption DEF LibrarySbrk, IInv, TypeOK
  <2>2. TypeOK' /\ Ordered' /\ FreeSucceeds' /\ LargeEnough'
    BY <2>1, SMTT(60) DEF IInv, TypeOK, Ordered, FreeSucceeds, LargeEnough, Indices, End, Ptr
  <2>3. OnHeap'
    <3> SUFFICES ASSUME NEW i \in Indices
                 PROVE  memBlockList[i].addr + Meta + memBlockList[i].size <= brk'
      BY <2>1 DEF OnHeap, Indices
    <3>1. /\ memBlockList[i].addr + Meta + memBlockList[i].size <= brk
          /\ memBlockList[i].addr \in Nat /\ memBlockList[i].size \in Nat /\ Meta \in Nat
      BY BlockType, MallocAssumption DEF IInv, OnHeap
    <3>2. QED
      BY <2>1, <3>1
  <2>4. QED
    BY <2>2, <2>3 DEF IInv
<1>4. CASE UNCHANGED vars
  BY <1>4, SMTT(60) DEF vars, IInv, TypeOK, Ordered, OnHeap, FreeSucceeds, LargeEnough, Indices, End, Ptr
<1>5. QED
  BY <1>1, <1>2, <1>3, <1>4 DEF Next

\* As long as no request wraps, the allocations the client holds never overlap
\* each other or a header, every block lies on the heap, myFree()'s assertion
\* holds, and each block is as large as its holder asked for.
THEOREM MallocCorrect ==
    ASSUME SmallRequests
    PROVE  Spec => [](TypeOK /\ LiveDisjoint /\ OnHeap /\ FreeSucceeds /\ LargeEnough)
<1>1. IInv => TypeOK /\ LiveDisjoint /\ OnHeap /\ FreeSucceeds /\ LargeEnough
  BY IInvDisjoint DEF IInv
<1>2. IInv /\ [Next]_vars => IInv'
  BY NextIInv
<1>3. QED
  BY InitIInv, <1>1, <1>2, PTL DEF Spec

-----------------------------------------------------------------------------
\* The entries left after the first n entries of the specification.
LEMMA AskedDomain ==
  ASSUME NEW a, NEW n \in Nat
  PROVE  DOMAIN Asked(a, n) = IF opts.op = "x" THEN DOMAIN a \ {aclist[i].entry : i \in 1..n}
                              ELSE DOMAIN a \cup {aclist[i].entry : i \in 1..n}
  BY DEF Asked

\* One entry more is one Change more.
LEMMA AskedStep ==
  ASSUME NEW a, NEW n \in Nat
  PROVE  Asked(a, n + 1) = Change(Asked(a, n), aclist[n + 1])
<1> DEFINE E(i) == aclist[i].entry
           P(i) == aclist[i].perms
           G(m) == {E(i) : i \in 1..m}
           last(e, m) == {i \in 1..m : E(i) = e /\ \A k \in 1..m : E(k) = e => k =< i}
           perms(e, m) == UNION {P(i) : i \in last(e, m)}
<1>1. G(n + 1) = G(n) \cup {E(n + 1)}
  OBVIOUS
<1>2. CASE opts.op = "x"
  <2>1. Asked(a, n + 1) = [e \in DOMAIN a \ G(n + 1) |-> a[e]]
    BY <1>2, Zenon DEF Asked
  <2>2. Asked(a, n) = [e \in DOMAIN a \ G(n) |-> a[e]]
    BY <1>2, Zenon DEF Asked
  <2>3. Change(Asked(a, n), aclist[n + 1]) = [x \in (DOMAIN a \ G(n)) \ {E(n + 1)} |-> Asked(a, n)[x]]
    BY <1>2, <2>2, Zenon DEF Change
  <2>4. DOMAIN a \ G(n + 1) = (DOMAIN a \ G(n)) \ {E(n + 1)}
    BY <1>1
  <2> HIDE DEF G, E
  <2> QED BY <2>1, <2>2, <2>3, <2>4
<1>3. CASE opts.op # "x"
  <2>1. Asked(a, n + 1) = [e \in DOMAIN a \cup G(n + 1) |-> IF e \in G(n + 1) THEN perms(e, n + 1) ELSE a[e]]
    BY <1>3, Zenon DEF Asked
  <2>2. Asked(a, n) = [e \in DOMAIN a \cup G(n) |-> IF e \in G(n) THEN perms(e, n) ELSE a[e]]
    BY <1>3, Zenon DEF Asked
  <2>3. Change(Asked(a, n), aclist[n + 1])
           = [x \in (DOMAIN a \cup G(n)) \cup {E(n + 1)} |-> IF x = E(n + 1) THEN P(n + 1) ELSE Asked(a, n)[x]]
    BY <1>3, <2>2, Zenon DEF Change
  <2>4. DOMAIN a \cup G(n + 1) = (DOMAIN a \cup G(n)) \cup {E(n + 1)}
    BY <1>1
  <2>5. perms(E(n + 1), n + 1) = P(n + 1)
    <3>1. last(E(n + 1), n + 1) = {n + 1}
      OBVIOUS
    <3> QED BY <3>1
  <2>6. ASSUME NEW e, e # E(n + 1) PROVE perms(e, n + 1) = perms(e, n)
    <3>1. last(e, n + 1) = last(e, n)
      BY <2>6
    <3> QED BY <3>1
  <2> HIDE DEF G, E, P, perms
  <2> QED BY <1>1, <2>1, <2>2, <2>3, <2>4, <2>5, <2>6, SMTT(60)
<1> QED BY <1>2, <1>3

\* The first entry changes the ACL the file has.
LEMMA ChangeFirst ==
  ASSUME NEW a
  PROVE  Asked(a, 1) = Change(a, aclist[1])
<1>1. Asked(a, 1) = Change(Asked(a, 0), aclist[1])
  BY AskedStep
<1>2. DOMAIN Asked(a, 0) = DOMAIN a /\ \A e \in DOMAIN a : Asked(a, 0)[e] = a[e]
  BY DEF Asked
<1>3. Change(Asked(a, 0), aclist[1]) = Change(a, aclist[1])
  BY <1>2 DEF Change
<1> QED BY <1>1, <1>3

\* The mask depends only on the other entries.
LEMMA CalcSame ==
  ASSUME NEW a, NEW b, DOMAIN a \cup {<<"MASK", 0>>} = DOMAIN b \cup {<<"MASK", 0>>},
         \A x \in DOMAIN a \ {<<"MASK", 0>>} : a[x] = b[x]
  PROVE  acl_calc_mask(a) = acl_calc_mask(b)
<1> DEFINE M == <<"MASK", 0>>
           D == DOMAIN a \cup {M}
<1>1. M[1] = "MASK"
  OBVIOUS
<1> HIDE DEF M
<1>2. GroupClass(a) = GroupClass(b) /\ GroupClass(a) \subseteq DOMAIN a \ {M}
  BY <1>1 DEF GroupClass, M
<1>3. {a[x] : x \in GroupClass(a)} = {b[x] : x \in GroupClass(b)}
  BY <1>2 DEF M
<1> DEFINE m == UNION {a[x] : x \in GroupClass(a)}
<1>4. acl_calc_mask(a) = [x \in D |-> IF x = M THEN m ELSE a[x]]
  BY Zenon DEF acl_calc_mask, M
<1>5. acl_calc_mask(b) = [x \in D |-> IF x = M THEN m ELSE b[x]]
  BY <1>3, Zenon DEF acl_calc_mask, M
<1>6. \A x \in D : x # M => a[x] = b[x]
  BY DEF M
<1> HIDE DEF D, m
<1> QED BY <1>4, <1>5, <1>6

\* Recalculating the mask after an entry, as the loop of acl_update.c does, makes
\* no difference to the mask after the next one.
LEMMA MaskedChange ==
  ASSUME NEW w, NEW e
  PROVE  Masked(Change(Masked(w), e)) = Masked(Change(w, e))
<1>1. CASE opts.n
  BY <1>1, Zenon DEF Masked
<1>2. CASE ~opts.n
  <2> DEFINE M == <<"MASK", 0>>
             c == acl_calc_mask(w)
  <2>1. DOMAIN c = DOMAIN w \cup {M} /\ \A x \in DOMAIN w \ {M} : c[x] = w[x]
    BY DEF acl_calc_mask
  <2> HIDE DEF c
  <2>2. acl_calc_mask(Change(c, e)) = acl_calc_mask(Change(w, e))
    <3>1. CASE opts.op = "x"
      <4>1. /\ Change(c, e) = [x \in DOMAIN c \ {e.entry} |-> c[x]]
            /\ Change(w, e) = [x \in DOMAIN w \ {e.entry} |-> w[x]]
        BY <3>1, Zenon DEF Change
      <4>2. DOMAIN Change(c, e) \cup {M} = DOMAIN Change(w, e) \cup {M}
        BY <2>1, <4>1
      <4>3. \A x \in DOMAIN Change(c, e) \ {M} : Change(c, e)[x] = Change(w, e)[x]
        BY <2>1, <4>1
      <4> QED BY <4>2, <4>3, CalcSame
    <3>2. CASE opts.op # "x"
      <4>1. /\ Change(c, e) = [x \in DOMAIN c \cup {e.entry} |-> IF x = e.entry THEN e.perms ELSE c[x]]
            /\ Change(w, e) = [x \in DOMAIN w \cup {e.entry} |-> IF x = e.entry THEN e.perms ELSE w[x]]
        BY <3>2, Zenon DEF Change
      <4>2. DOMAIN Change(c, e) \cup {M} = DOMAIN Change(w, e) \cup {M}
        BY <2>1, <4>1
      <4>3. \A x \in DOMAIN Change(c, e) \ {M} : Change(c, e)[x] = Change(w, e)[x]
        BY <2>1, <4>1
      <4> QED BY <4>2, <4>3, CalcSame
    <3> QED BY <3>1, <3>2
  <2> QED BY <1>2, <2>2, Zenon DEF Masked, c
<1> QED BY <1>1, <1>2, Zenon

----------------------------------------------------------------------------
\* The two ACLs of a file.
Types == {"ACCESS", "DEFAULT"}
IsAcls(A) == /\ A = [f \in Range(Files) |-> A[f]]
             /\ \A f \in Range(Files) : A[f] = [t \in Types |-> A[f][t]]

\* The file has the ACL the whole specification asks for.
Done(f) == acls[f] = [before[f] EXCEPT ![Type] = Wanted(@)]

\* What the first en - 1 entries make of the ACL of the current file, and no more.
Partly(f) == /\ acls[f] = [before[f] EXCEPT ![Type] = acl]
             /\ \/ en = 1 /\ acl = before[f][Type]
                \/ en > 1 /\ acl = Masked(Asked(before[f][Type], en - 1))

\* The types; the ACLs of the files are functions of file and type.
AclTypeOK == /\ apc \in {"start", "file", "entry", "exit", "error"}
             /\ IsAcls(acls) /\ IsAcls(before)
             /\ j \in Nat /\ en \in Nat /\ j >= 1 /\ en >= 1

\* Whoever works on files has an operation and, unless it is -k, an entry or more.
Parsed == apc \in {"file", "entry"} \/ (apc = "exit" /\ opts.op \in {"m", "x"}) =>
              opts.op = "k" \/ (opts.op \in {"m", "x"} /\ Len(aclist) \in Nat /\ Len(aclist) >= 1)

\* A file the loop has not come to has the ACLs it had.
Untouched == /\ apc = "start" => acls = before /\ j = 1
             /\ apc = "file" => \A i \in DOMAIN Files : i >= j => acls[Files[i]] = before[Files[i]]
             /\ apc \in {"entry", "error"} => \A i \in DOMAIN Files : i > j => acls[Files[i]] = before[Files[i]]

\* A file the loop has left has the ACL asked for, and it has left all at the end.
Changed == opts.op \in {"m", "x"} /\ apc \in {"file", "entry", "exit"} =>
             /\ \A i \in DOMAIN Files : i < j => Done(Files[i])
             /\ apc = "exit" => j > Len(Files)

\* acl_set_file() lets no ACL through that is not valid.
Valid == \A f \in Range(Files), t \in Types : acls[f][t] = <<>> \/ acl_valid(acls[f][t])

\* The inductive invariant of acl_update.c.
AclInv == /\ AclTypeOK /\ Parsed /\ Untouched /\ Changed /\ Valid
          /\ apc = "entry" => /\ opts.op # "k" /\ j <= Len(Files) /\ en <= Len(aclist) + 1
                              /\ Partly(Files[j])

\* The command line names each file once.
LEMMA FilesFacts ==
  /\ Len(Files) \in Nat /\ DOMAIN Files = 1..Len(Files)
  /\ \A i \in DOMAIN Files : Files[i] \in Range(Files)
  /\ \A f \in Range(Files) : \E i \in DOMAIN Files : f = Files[i]
  /\ \A i, k \in DOMAIN Files : Files[i] = Files[k] => i = k
  BY AclAssumption DEF Range

\* The -d option chooses one of the two.
LEMMA TypeIn == Type \in Types
  BY Zenon DEF Type, Types

\* A specification that parses has an entry.
LEMMA ParsedLength ==
  ASSUME NEW c \in CommandLines, NEW r, parseACL(c.spec, r) # <<>>
  PROVE  Len(parseACL(c.spec, r)) \in Nat /\ Len(parseACL(c.spec, r)) >= 1
<1> DEFINE n == Len(c.spec)
           g == [i \in 1..n |-> parseEntrySpec(c.spec[i], r)]
<1>1. n \in Nat /\ DOMAIN c.spec = 1..n
  BY AclAssumption
<1>2. parseACL(c.spec, r) = g
  BY <1>1, Zenon DEF parseACL
<1>3. g \in Seq({parseEntrySpec(c.spec[i], r) : i \in 1..n}) /\ Len(g) = n
  BY <1>1
<1>4. n # 0
  BY <1>1, <1>2, <1>3
<1> HIDE DEF g, n
<1> QED BY <1>1, <1>2, <1>3, <1>4

\* The ACL that stands for the permission bits is valid.
LEMMA MinimalValid == acl_valid(Minimal)
  BY DEF acl_valid, Minimal

\* The invariant holds when main() starts.
LEMMA AclInitial == AclInit => AclInv
<1> SUFFICES ASSUME AclInit PROVE AclInv
  OBVIOUS
<1>1. /\ acls = [f \in Range(Files) |-> [ACCESS |-> Minimal, DEFAULT |-> <<>>]] /\ before = acls
      /\ j = 1 /\ en = 1 /\ apc = "start"
  BY DEF AclInit
<1>2. [ACCESS |-> Minimal, DEFAULT |-> <<>>] = [t \in Types |-> IF t = "ACCESS" THEN Minimal ELSE <<>>]
  BY DEF Types
<1>3. acls = [f \in Range(Files) |-> [t \in Types |-> IF t = "ACCESS" THEN Minimal ELSE <<>>]]
  BY <1>1, <1>2
<1>4. IsAcls(acls)
  BY <1>3 DEF IsAcls
<1>5. Valid
  BY <1>3, MinimalValid DEF Valid, Types
<1> QED BY <1>1, <1>4, <1>5 DEF AclInv, AclTypeOK, Parsed, Untouched, Changed

\* Assigning to one ACL of one file.
Put(A, f, t, a) == [A EXCEPT ![f][t] = a]

\* It changes that one and no other.
LEMMA SetAcl ==
  ASSUME IsAcls(acls), NEW f \in Range(Files), NEW t \in Types, NEW a, acls' = Put(acls, f, t, a)
  PROVE  /\ IsAcls(acls)'
         /\ \A g \in Range(Files) : g # f => acls'[g] = acls[g]
         /\ acls'[f] = [acls[f] EXCEPT ![t] = a] /\ acls'[f][t] = a
         /\ \A u \in Types : u # t => acls'[f][u] = acls[f][u]
<1>1. DOMAIN acls = Range(Files) /\ \A g \in Range(Files) : acls[g] = [u \in Types |-> acls[g][u]]
  BY DEF IsAcls
<1>2. acls' = [g \in Range(Files) |-> IF g = f THEN [acls[f] EXCEPT ![t] = a] ELSE acls[g]]
  BY <1>1, ZenonT(60) DEF Put
<1>3. [acls[f] EXCEPT ![t] = a] = [u \in Types |-> IF u = t THEN a ELSE acls[f][u]]
  BY <1>1
<1>4. IsAcls(acls)'
  <2>1. acls' = [g \in Range(Files) |-> acls'[g]]
    BY <1>2, SMTT(60)
  <2>2. acls'[f] = [u \in Types |-> acls'[f][u]]
    BY <1>2, <1>3
  <2>3. \A g \in Range(Files) : g # f => acls'[g] = acls[g]
    BY <1>2
  <2> QED BY <1>1, <2>1, <2>2, <2>3 DEF IsAcls
<1> QED BY <1>1, <1>2, <1>3, <1>4, SMTT(60)

\* Every step of the loops over files and entries keeps the invariant.
LEMMA AclStep == AclInv /\ [AclNext]_aclVars => AclInv'
<1> SUFFICES ASSUME AclInv, [AclNext]_aclVars PROVE AclInv'
  OBVIOUS
<1>types. apc \in {"start", "file", "entry", "exit", "error"} /\ j \in Nat /\ en \in Nat /\ j >= 1 /\ en >= 1
  BY Zenon DEF AclInv, AclTypeOK
<1>acls. IsAcls(acls) /\ IsAcls(before)
  BY Zenon DEF AclInv, AclTypeOK
<1>parts. Parsed /\ Untouched /\ Changed /\ Valid
  BY Zenon DEF AclInv
<1>entry. apc = "entry" => opts.op # "k" /\ j <= Len(Files) /\ en <= Len(aclist) + 1 /\ Partly(Files[j])
  BY Zenon DEF AclInv
<1>same. ASSUME acls' = acls, before' = before PROVE IsAcls(acls)' /\ IsAcls(before)'
  BY <1>acls, <1>same, Zenon DEF IsAcls
<1>all. ASSUME IsAcls(acls)', IsAcls(before)', Parsed', Untouched', Changed', Valid',
               apc' \in {"start", "file", "entry", "exit", "error"}, j' \in Nat, en' \in Nat, j' >= 1, en' >= 1,
               apc' = "entry" => /\ opts'.op # "k" /\ j' <= Len(Files) /\ en' <= Len(aclist') + 1
                                 /\ Partly(Files[j])'
        PROVE  AclInv'
  BY <1>all, Zenon DEF AclInv, AclTypeOK
<1>1. ASSUME opts' = opts, aclist' = aclist
      PROVE  Type' = Type /\ (\A a : Wanted(a)' = Wanted(a)) /\ (\A a : Masked(a)' = Masked(a))
             /\ (\A a, n : Asked(a, n)' = Asked(a, n))
  <2>1. Type' = Type /\ \A a : Masked(a)' = Masked(a)
    BY <1>1, Zenon DEF Type, Masked
  <2>2. \A a, n : Asked(a, n)' = Asked(a, n)
    BY <1>1, SMTT(60) DEF Asked
  <2>3. \A a : Wanted(a)' = Wanted(a)
    BY <1>1, <2>1, <2>2 DEF Wanted
  <2> QED BY <2>1, <2>2, <2>3
<1>2. ASSUME NEW f \in Range(Files), Inherit(f) PROVE AclInv'
  <2>1. acls' = [acls EXCEPT ![f]["DEFAULT"] = Minimal] /\ before' = acls' /\ apc = "start" /\ apc' = "start"
        /\ j' = j /\ en' = en
    BY <1>2, ZenonT(60) DEF Inherit
  <2>6. PICK t : t = "DEFAULT"
    OBVIOUS
  <2>4. acls' = Put(acls, f, t, Minimal) /\ t \in Types
    BY <2>1, <2>6 DEF Put, Types
  <2>2. IsAcls(acls)'
    BY <1>2, <1>acls, <2>4, SetAcl, ZenonT(60)
  <2>5. /\ \A g \in Range(Files) : g # f => acls'[g] = acls[g]
        /\ acls'[f] = [acls[f] EXCEPT ![t] = Minimal] /\ acls'[f][t] = Minimal
        /\ \A u \in Types : u # t => acls'[f][u] = acls[f][u]
    BY <1>2, <1>acls, <2>4, SetAcl, SMTT(60)
  <2>3. Valid'
    BY <1>parts, <2>5, MinimalValid, ZenonT(60) DEF Valid
  <2>7. IsAcls(before)'
    BY <2>1, <2>2, Zenon DEF IsAcls
  <2>8. Parsed' /\ Untouched' /\ Changed'
    BY <1>parts, <2>1, ZenonT(60) DEF Parsed, Untouched, Changed
  <2> QED BY <1>types, <1>all, <2>1, <2>2, <2>3, <2>7, <2>8, ZenonT(60)
<1>3. CASE Options
  <2>1. /\ apc = "start" /\ opts' \in CommandLines
        /\ aclist' = IF opts'.op = "k" THEN <<>> ELSE parseACL(opts'.spec, opts'.op # "x")
        /\ acls' = acls /\ before' = before /\ j' = j /\ en' = en
    BY <1>3, Zenon DEF Options
  <2>2. opts'.op \in {"m", "x", "V", "k"}
    BY <2>1, AclAssumption, SMTT(60)
  <2>3. apc' \in {"file", "exit", "error"} /\ (apc' = "exit" => opts'.op = "V") /\ (apc' = "file" => opts'.op # "V")
        /\ (apc' = "file" /\ opts'.op \in {"m", "x"} => aclist' # <<>>)
    BY <1>3, <2>2, Zenon DEF Options
  <2>4. Parsed'
    <3>1. CASE opts'.op = "k"
      BY <3>1 DEF Parsed
    <3>2. CASE opts'.op # "k" /\ apc' = "file"
      BY <2>1, <2>2, <2>3, <3>2, ParsedLength, SMTT(60) DEF Parsed
    <3> QED BY <2>2, <2>3, <3>1, <3>2, SMTT(60) DEF Parsed
  <2>5. Untouched'
    BY <1>parts, <2>1, <2>3, SMTT(60) DEF Untouched
  <2>6. Changed'
    BY <1>parts, <1>types, <2>1, <2>3, FilesFacts, SMTT(60) DEF Changed, Untouched
  <2>7. Valid'
    BY <1>parts, <2>1, ZenonT(60) DEF Valid
  <2> QED BY <1>types, <1>same, <1>all, <2>1, <2>3, <2>4, <2>5, <2>6, <2>7, ZenonT(60)
<1>4. CASE NextFile
  <2>1. apc = "file" /\ opts' = opts /\ aclist' = aclist /\ before' = before
    BY <1>4 DEF NextFile
  <2>2. CASE j > Len(Files) /\ apc' = "exit" /\ UNCHANGED <<acls, acl, j, en>>
    <3>1. Parsed' /\ Untouched' /\ Valid'
      BY <1>parts, <2>1, <2>2, ZenonT(60) DEF Parsed, Untouched, Valid
    <3>2. \A f : Done(f)' = Done(f)
      BY <1>1, <2>1, <2>2, SMTT(60) DEF Done
    <3>3. Changed'
      BY <1>parts, <2>1, <2>2, <3>2, ZenonT(60) DEF Changed
    <3> QED BY <1>types, <1>same, <1>all, <2>1, <2>2, <3>1, <3>3, ZenonT(60)
  <2>3. CASE j <= Len(Files) /\ opts.op = "k" /\ acls' = [acls EXCEPT ![Files[j]].DEFAULT = <<>>] /\ j' = j + 1
             /\ UNCHANGED <<acl, en, apc>>
    <3>1. Files[j] \in Range(Files) /\ j \in DOMAIN Files
      BY <1>types, <2>3, FilesFacts
    <3>2. /\ IsAcls(acls)' /\ \A g \in Range(Files) : g # Files[j] => acls'[g] = acls[g]
          /\ acls'[Files[j]]["DEFAULT"] = <<>> /\ acls'[Files[j]]["ACCESS"] = acls[Files[j]]["ACCESS"]
      <4>1. IsAcls(acls) /\ "DEFAULT" \in Types /\ "ACCESS" \in Types /\ "ACCESS" # "DEFAULT"
        BY <1>acls DEF Types
      <4>2. acls' = [acls EXCEPT ![Files[j]]["DEFAULT"] = <<>>]
        BY <2>3, ZenonT(60)
      <4>3. PICK d, t, b : d = Files[j] /\ t = "DEFAULT" /\ b = <<>>
        OBVIOUS
      <4>4. acls' = Put(acls, d, t, b) /\ d \in Range(Files) /\ t \in Types
        BY <3>1, <4>1, <4>2, <4>3 DEF Put
      <4>5. /\ IsAcls(acls)' /\ \A g \in Range(Files) : g # d => acls'[g] = acls[g]
            /\ acls'[d] = [acls[d] EXCEPT ![t] = b] /\ acls'[d][t] = b
            /\ \A u \in Types : u # t => acls'[d][u] = acls[d][u]
        BY ONLY <4>1, <4>4, SetAcl, SMTT(60)
      <4> QED BY <4>1, <4>3, <4>5, SMTT(60)
    <3>3. Parsed' /\ Changed'
      BY <1>parts, <2>1, <2>3, ZenonT(60) DEF Parsed, Changed
    <3>4. \A i \in DOMAIN Files : i > j => acls'[Files[i]] = acls[Files[i]]
      BY <1>types, <3>1, <3>2, FilesFacts
    <3>5. Untouched'
      BY <1>types, <1>parts, <2>1, <2>3, <3>4, FilesFacts DEF Untouched
    <3>6. Valid'
      BY <1>parts, <3>2 DEF Valid, Types
    <3>7. IsAcls(before)'
      BY <1>acls, <2>1, Zenon DEF IsAcls
    <3>8. j' \in Nat /\ j' >= 1
      BY <1>types, <2>3
    <3> QED BY <1>types, <1>all, <2>1, <2>3, <3>2, <3>3, <3>5, <3>6, <3>7, <3>8, ZenonT(60)
  <2>4. CASE j <= Len(Files) /\ opts.op # "k" /\ acl' = acls[Files[j]][Type] /\ en' = 1 /\ apc' = "entry"
             /\ UNCHANGED <<acls, j>>
    <3>1. Files[j] \in Range(Files) /\ acls[Files[j]] = before[Files[j]]
      BY <1>types, <1>parts, <2>1, <2>4, FilesFacts, SMTT(60) DEF Untouched
    <3>2. Partly(Files[j])'
      <4>1. before[Files[j]] = [before[Files[j]] EXCEPT ![Type] = acl']
        BY <1>acls, <2>4, <3>1, TypeIn, SMTT(60) DEF IsAcls
      <4> QED BY <1>1, <2>1, <2>4, <3>1, <4>1, SMTT(60) DEF Partly
    <3>3. Parsed' /\ Valid'
      BY <1>parts, <2>1, <2>4, ZenonT(60) DEF Parsed, Valid
    <3>4. Untouched'
      BY <1>types, <1>parts, <2>1, <2>4, FilesFacts, SMTT(60) DEF Untouched
    <3>5. \A f : Done(f)' = Done(f)
      BY <1>1, <2>1, <2>4, SMTT(60) DEF Done
    <3>6. Changed'
      BY <1>parts, <2>1, <2>4, <3>5, ZenonT(60) DEF Changed
    <3>7. Len(aclist) \in Nat /\ Len(aclist) >= 1
      BY <1>parts, <2>1, <2>4, ZenonT(60) DEF Parsed
    <3>8. en' \in Nat /\ en' >= 1 /\ en' <= Len(aclist) + 1
      BY <2>4, <3>7
    <3> QED BY <1>types, <1>same, <1>all, <2>1, <2>4, <3>2, <3>3, <3>4, <3>6, <3>8, ZenonT(60)
  <2> QED BY <1>4, <2>2, <2>3, <2>4 DEF NextFile
<1>5. CASE ApplyEntry
  <2>1. /\ apc = "entry" /\ en <= Len(aclist) /\ acl' = Masked(Change(acl, aclist[en]))
        /\ opts' = opts /\ aclist' = aclist /\ before' = before /\ j' = j
    BY <1>5, SMTT(60) DEF ApplyEntry
  <2> DEFINE f == Files[j]
             a == before[f][Type]
  <2>2. f \in Range(Files) /\ j \in DOMAIN Files /\ Partly(f) /\ Type \in Types
    BY <1>types, <1>entry, <2>1, TypeIn, FilesFacts, SMTT(60)
  <2>3. acl' = Masked(Asked(a, en))
    <3>1. CASE en = 1
      BY <2>1, <2>2, <3>1, ChangeFirst, SMTT(60) DEF Partly
    <3>2. CASE en > 1
      <4>1. acl = Masked(Asked(a, en - 1))
        BY <2>2, <3>2, SMTT(60) DEF Partly
      <4>2. acl' = Masked(Change(Asked(a, en - 1), aclist[en]))
        BY <2>1, <4>1, MaskedChange, SMTT(60)
      <4>3. Asked(a, en) = Change(Asked(a, en - 1), aclist[en])
        <5>1. en - 1 \in Nat /\ (en - 1) + 1 = en
          BY <1>types, <3>2
        <5> QED BY <5>1, AskedStep, SMTT(60)
      <4> QED BY <4>2, <4>3, SMTT(60)
    <3> QED BY <1>types, <3>1, <3>2
  <2>4. CASE ~acl_valid(acl') /\ apc' = "error" /\ UNCHANGED <<acls, en>>
    <3>1. Parsed' /\ Untouched' /\ Changed' /\ Valid'
      BY <1>parts, <2>1, <2>4, ZenonT(60) DEF Parsed, Untouched, Changed, Valid
    <3> QED BY <1>types, <1>same, <1>all, <2>1, <2>4, <3>1, ZenonT(60)
  <2>5. CASE acl_valid(acl') /\ acls' = [acls EXCEPT ![f][Type] = acl'] /\ en' = en + 1 /\ apc' = apc
    <3>1. /\ IsAcls(acls)' /\ \A g \in Range(Files) : g # f => acls'[g] = acls[g]
          /\ acls'[f] = [acls[f] EXCEPT ![Type] = acl'] /\ acls'[f][Type] = acl'
          /\ \A u \in Types : u # Type => acls'[f][u] = acls[f][u]
      <4>1. IsAcls(acls)
        BY <1>acls
      <4>2. acls' = [acls EXCEPT ![f][Type] = acl']
        BY <2>5, SMTT(60)
      <4>3. PICK d, t, b : d = f /\ t = Type /\ b = acl'
        BY SMTT(60)
      <4>4. acls' = Put(acls, d, t, b) /\ d \in Range(Files) /\ t \in Types
        BY <2>2, <4>2, <4>3, SMTT(60) DEF Put
      <4>5. /\ IsAcls(acls)' /\ \A g \in Range(Files) : g # d => acls'[g] = acls[g]
            /\ acls'[d] = [acls[d] EXCEPT ![t] = b] /\ acls'[d][t] = b
            /\ \A u \in Types : u # t => acls'[d][u] = acls[d][u]
        BY ONLY <4>1, <4>4, SetAcl, SMTT(60)
      <4> QED BY <4>3, <4>5, SMTT(60)
    <3>2. acls'[f] = [before[f] EXCEPT ![Type] = acl']
      BY <1>acls, <2>2, <3>1, ZenonT(60) DEF Partly, IsAcls
    <3>3. Partly(Files[j])'
      BY <1>1, <1>types, <2>1, <2>3, <2>5, <3>2, SMTT(60) DEF Partly
    <3>4. Valid'
      BY <1>parts, <2>5, <3>1, SMTT(60) DEF Valid
    <3>5. \A i \in DOMAIN Files : i # j => acls'[Files[i]] = acls[Files[i]]
      BY <2>2, <3>1, FilesFacts, SMTT(60)
    <3>6. Parsed' /\ Untouched'
      BY <1>types, <1>parts, <2>1, <2>5, <3>5, FilesFacts, SMTT(60) DEF Parsed, Untouched
    <3>7. \A i \in DOMAIN Files : i < j => Done(Files[i])' = Done(Files[i])
      <4>1. Type' = Type /\ before' = before /\ \A b : Wanted(b)' = Wanted(b)
        BY <1>1, <2>1, Zenon
      <4>2. ASSUME NEW d, acls'[d] = acls[d] PROVE Done(d)' = Done(d)
        BY <4>1, <4>2, SMTT(60) DEF Done
      <4>3. \A i \in DOMAIN Files : i < j => i # j
        BY <1>types, FilesFacts
      <4> QED BY <3>5, <4>2, <4>3, Zenon
    <3>8. Changed'
      BY <1>parts, <2>1, <2>5, <3>7, ZenonT(60) DEF Changed
    <3>9. IsAcls(before)'
      BY <1>acls, <2>1, Zenon DEF IsAcls
    <3>10. Len(aclist) \in Nat
      BY <1>parts, <1>entry, <2>1, ZenonT(60) DEF Parsed
    <3>11. en' \in Nat /\ en' >= 1 /\ en' <= Len(aclist) + 1
      BY <1>types, <2>1, <2>5, <3>10
    <3> QED BY <1>types, <1>entry, <1>all, <2>1, <2>5, <3>1, <3>3, <3>4, <3>6, <3>8, <3>9, <3>11, ZenonT(60)
  <2> QED BY <1>5, <2>4, <2>5, SMTT(60) DEF ApplyEntry
<1>6. CASE FileDone
  <2>1. /\ apc = "entry" /\ en > Len(aclist) /\ j' = j + 1 /\ apc' = "file"
        /\ UNCHANGED <<acls, opts, aclist, acl, en, before>>
    BY <1>6, SMTT(60) DEF FileDone
  <2>2. j \in DOMAIN Files /\ Partly(Files[j]) /\ Len(aclist) \in Nat /\ Len(aclist) >= 1 /\ en = Len(aclist) + 1
    BY <1>types, <1>entry, <1>parts, <2>1, FilesFacts, SMTT(60) DEF Parsed
  <2>3. Done(Files[j])
    BY <2>2, SMTT(60) DEF Partly, Done, Wanted
  <2>4. Untouched' /\ Parsed' /\ Valid'
    <3>1. Parsed' /\ Valid'
      BY <1>parts, <2>1, ZenonT(60) DEF Parsed, Valid
    <3>2. Untouched'
      BY <1>types, <1>parts, <2>1, FilesFacts, SMTT(60) DEF Untouched
    <3> QED BY <3>1, <3>2, Zenon
  <2>5. Changed'
    <3>1. /\ opts.op \in {"m", "x"} => \A i \in DOMAIN Files : i < j => Done(Files[i])
          /\ j \in Nat /\ \A i \in DOMAIN Files : i \in Nat
      BY <1>types, <1>parts, <2>1, <2>2, FilesFacts, SMTT(60) DEF Changed
    <3>2. opts.op \in {"m", "x"} => \A i \in DOMAIN Files : i < j + 1 => Done(Files[i])
      BY ONLY <2>3, <3>1
    <3>3. \A f : Done(f)' = Done(f)
      <4>1. Type' = Type /\ before' = before /\ acls' = acls /\ \A b : Wanted(b)' = Wanted(b)
        BY <1>1, <2>1, Zenon
      <4> QED BY <4>1, SMTT(60) DEF Done
    <3> QED BY <2>1, <3>2, <3>3, SMTT(60) DEF Changed
  <2>6. j' \in Nat /\ j' >= 1
    BY <1>types, <2>1
  <2> QED BY <1>types, <1>same, <1>all, <2>1, <2>4, <2>5, <2>6, ZenonT(60)
<1>7. CASE UNCHANGED aclVars
  <2>1. /\ acls' = acls /\ opts' = opts /\ aclist' = aclist /\ acl' = acl /\ j' = j /\ en' = en
        /\ apc' = apc /\ before' = before
    BY <1>7, SMTT(60) DEF aclVars
  <2>2. Parsed' /\ Untouched' /\ Valid'
    BY <1>parts, <2>1, ZenonT(60) DEF Parsed, Untouched, Valid
  <2>3. Changed'
    <3>1. \A f : Done(f)' = Done(f)
      BY <1>1, <2>1, SMTT(60) DEF Done
    <3> QED BY <1>parts, <2>1, <3>1, ZenonT(60) DEF Changed
  <2>4. apc = "entry" => Partly(Files[j])'
    BY <1>1, <1>entry, <2>1, SMTT(60) DEF Partly
  <2> QED BY <1>types, <1>entry, <1>same, <1>all, <2>1, <2>2, <2>3, <2>4, ZenonT(60)
<1> QED BY <1>2, <1>3, <1>4, <1>5, <1>6, <1>7, ZenonT(60) DEF AclNext

\* For every sequence of files and every set of command lines: a run of acl_update
\* that exits with success has left every file with the ACL its specification asks
\* for, no run leaves a file with an ACL that is not valid, and one that fails has
\* not touched the files after the one it failed on.
THEOREM AclCorrect == AclSpec => []AclsUpdated
<1>1. AclInv => AclsUpdated
  BY FilesFacts, SMTT(60) DEF AclInv, AclTypeOK, AclsUpdated, Untouched, Changed, Valid, Done, Types
<1> QED BY <1>1, AclInitial, AclStep, PTL DEF AclSpec

-----------------------------------------------------------------------------
\* A user namespace is created after its parent.
Tree == /\ nsParent \in [1..LastNs -> Nat] /\ \A i \in 1..LastNs : nsParent[i] < i

\* The walk up the tree stays in it and goes to older namespaces.
LEMMA UserNsFacts ==
  ASSUME Tree
  PROVE  /\ 0 \in UserNs
         /\ \A n \in UserNs : n \in Nat /\ n <= LastNs /\ (n # 0 => nsParent[n] \in UserNs /\ nsParent[n] < n)
  BY LastNsAssumption DEF UserNs, Tree

\* A namespace is in its own lineage.
LEMMA LineageSelf == ASSUME NEW n \in UserNs PROVE n \in Lineage(n)
  BY DEF Lineage

\* The lineage is closed under parents.
LEMMA LineageUp ==
  ASSUME Tree, NEW n \in UserNs, NEW m \in Lineage(n), m # 0
  PROVE  nsParent[m] \in Lineage(n)
  BY UserNsFacts DEF Lineage

\* It is the smallest such set.
LEMMA LineageLeast ==
  ASSUME NEW n, NEW S \in SUBSET UserNs, n \in S, \A k \in S \ {0} : nsParent[k] \in S
  PROVE  Lineage(n) \subseteq S
  BY DEF Lineage

\* It is the namespace itself and the lineage of its parent.
LEMMA LineageStep ==
  ASSUME Tree, NEW c \in UserNs, c # 0
  PROVE  Lineage(c) \subseteq {c} \cup Lineage(nsParent[c])
<1> DEFINE S == {c} \cup Lineage(nsParent[c])
<1>1. nsParent[c] \in UserNs
  BY UserNsFacts
<1>2. S \in SUBSET UserNs
  BY DEF Lineage
<1>3. \A k \in S \ {0} : nsParent[k] \in S
  BY <1>1, LineageSelf, LineageUp
<1> QED BY <1>2, <1>3, LineageLeast, ZenonT(60)

\* Ancestors are older.
LEMMA LineageBound ==
  ASSUME Tree, NEW n \in UserNs
  PROVE  \A m \in Lineage(n) : m \in Nat /\ m <= n
<1> DEFINE S == 0..n
<1>1. S \in SUBSET UserNs /\ n \in S
  BY LastNsAssumption DEF UserNs
<1>2. \A k \in S \ {0} : nsParent[k] \in S
  BY <1>1, UserNsFacts
<1>3. Lineage(n) \subseteq S
  BY <1>1, <1>2, LineageLeast, ZenonT(60)
<1> QED BY <1>3

\* The kernel hands out the lowest free descriptor.
LEMMA FreeFacts ==
  ASSUME DOMAIN fds \subseteq {3, 4, 5}
  PROVE  /\ Free \in Nat /\ Free >= 3 /\ Free \notin DOMAIN fds
         /\ \A f \in {3, 4, 5} : f \notin DOMAIN fds => Free <= f
<1>1. PICK f \in 3..6 : f \notin DOMAIN fds /\ \A g \in 3..6 : g \notin DOMAIN fds => f <= g
  BY SMT
<1>2. f \in 3..(LastNs + 9) /\ \A g \in 3..(f - 1) : g \in DOMAIN fds
  BY <1>1, LastNsAssumption
<1>3. Free \in 3..(LastNs + 9) /\ Free \notin DOMAIN fds /\ \A g \in 3..(Free - 1) : g \in DOMAIN fds
  BY <1>1, <1>2 DEF Free
<1> QED BY <1>3, LastNsAssumption

\* The descriptors ns_capable.c ever holds.
Fds == {3, 4, 5}

\* With two of them open, the third is the next one.
LEMMA FreeTwo ==
  ASSUME NEW a \in Fds, NEW b \in Fds, DOMAIN fds = {a, b}
  PROVE  Free \in Fds /\ Free # a /\ Free # b
<1>1. DOMAIN fds \subseteq {3, 4, 5}
  BY DEF Fds
<1>2. PICK f \in {3, 4, 5} : f # a /\ f # b
  BY DEF Fds
<1>3. Free <= f /\ Free \in Nat /\ Free >= 3 /\ Free \notin DOMAIN fds
  BY <1>1, <1>2, FreeFacts
<1> QED BY <1>3 DEF Fds

----------------------------------------------------------------------------
\* The processes and the target live in namespaces of one tree.
World == /\ Tree /\ input.ns \in UserNs /\ input.pidNs \in UserNs

\* The walk has come to namespace n and has not met the process's namespace: if
\* that is an ancestor of the target, it is one of n too, and by the same child.
Walked(n) == /\ n \in Lineage(input.ns) /\ n # input.pidNs /\ input.pidNs # input.ns
             /\ input.pidNs \in Lineage(input.ns) => input.pidNs \in Lineage(n)
             /\ \A m \in Lineage(input.ns) \ {0} : nsParent[m] = input.pidNs => m \in Lineage(n)

\* n is the one child of the process's namespace on the way from the target up.
Found(n) == /\ input.pidNs # input.ns /\ input.pidNs \in Lineage(input.ns)
            /\ {m \in Lineage(input.ns) \ {0} : nsParent[m] = input.pidNs} = {n}

\* At each place of main(), which descriptors are open and what they lead to: the
\* walk holds two, closes the child once it has the parent, and so never needs a
\* fourth.
Descriptors ==
    /\ npc = "start" => DOMAIN fds = {}
    /\ npc = "owning" => /\ DOMAIN fds = {target_ns} /\ target_ns \in Fds
                         /\ input.user => fds[target_ns] = input.ns
    /\ npc = "pid" => /\ DOMAIN fds = {target_userns} /\ target_userns \in Fds
                      /\ fds[target_userns] = input.ns
    /\ npc = "walk" => /\ DOMAIN fds = {child, pid_userns} /\ child # pid_userns
                       /\ child \in Fds /\ pid_userns \in Fds /\ fds[pid_userns] = input.pidNs

\* The inductive invariant of ns_capable.c.
CapInv ==
    /\ npc \in {"start", "owning", "pid", "walk", "owner", "closeDesc", "close", "closePid", "exit", "failed"}
    /\ npc # "start" => World
    /\ Descriptors
    /\ npc \in {"start", "owning", "pid", "walk", "owner"} => verdict = ""
    /\ npc = "walk" => Walked(fds[child])
    /\ npc = "owner" => Found(fds[desc_userns])
    /\ VerdictRight

\* One turn of the loop: at the initial namespace the search has failed, with
\* reason; if the parent is the process's namespace the one child below it is
\* found; otherwise the walk goes on at the parent and has lost nothing.
LEMMA WalkOn ==
  ASSUME World, NEW n \in UserNs, Walked(n)
  PROVE  /\ n = 0 => input.pidNs \notin Lineage(input.ns)
         /\ n # 0 => /\ nsParent[n] \in UserNs
                     /\ nsParent[n] = input.pidNs => Found(n)
                     /\ nsParent[n] # input.pidNs => Walked(nsParent[n])
<1> DEFINE p == nsParent[n]
<1>1. Tree /\ input.ns \in UserNs /\ input.pidNs \in UserNs
  BY SMTT(60) DEF World
<1>2. CASE n = 0
  <2>1. \A m \in Lineage(n) : m \in Nat /\ m <= n
    BY <1>1, LineageBound
  <2>2. Lineage(n) \subseteq {0}
    BY <1>2, <2>1
  <2> QED BY <1>2, <2>2, SMTT(60) DEF Walked
<1>3. CASE n # 0
  <2>1. p \in UserNs /\ p < n
    BY <1>1, <1>3, UserNsFacts
  <2>2. p \in Lineage(input.ns) /\ Lineage(n) \subseteq {n} \cup Lineage(p)
    BY <1>1, <1>3, LineageUp, LineageStep, SMTT(60) DEF Walked
  <2>3. ASSUME p = input.pidNs PROVE Found(n)
    <3>1. ASSUME NEW m \in Lineage(input.ns) \ {0}, nsParent[m] = input.pidNs PROVE m = n
      <4>1. m \in UserNs
        BY DEF Lineage
      <4>2. nsParent[m] < m /\ m \in Nat /\ p \in Nat
        BY <1>1, <2>1, <4>1, UserNsFacts
      <4>3. m \in {n} \cup Lineage(p)
        BY <2>2, <3>1, SMTT(60) DEF Walked
      <4>4. m \in Lineage(p) => m <= p
        BY <1>1, <2>1, LineageBound, SMTT(60)
      <4> QED BY <2>3, <3>1, <4>2, <4>3, <4>4
    <3>2. n \in Lineage(input.ns) \ {0} /\ nsParent[n] = input.pidNs /\ input.pidNs # input.ns
      BY <1>3, <2>3, SMTT(60) DEF Walked
    <3> QED BY <2>2, <2>3, <3>1, <3>2 DEF Found
  <2>4. ASSUME p # input.pidNs PROVE Walked(p)
    BY <2>2, <2>4, SMTT(60) DEF Walked
  <2> QED BY <1>3, <2>1, <2>3, <2>4
<1> QED BY <1>2, <1>3, SMTT(60)

\* It holds when main() starts.
LEMMA CapableInitial == CapableInit => CapInv
<1> SUFFICES ASSUME CapableInit PROVE CapInv
  OBVIOUS
<1>1. npc = "start" /\ verdict = "" /\ fds = <<>>
  BY DEF CapableInit
<1>2. DOMAIN fds = {}
  <2>1. fds = <<>>
    BY <1>1
  <2> QED BY ONLY <2>1
<1> QED BY <1>1, <1>2, Zenon DEF CapInv, Descriptors, VerdictRight

\* Every step of main() keeps it.
LEMMA CapableStep == CapInv /\ [CapableNext]_nsVars => CapInv'
<1> SUFFICES ASSUME CapInv, [CapableNext]_nsVars PROVE CapInv'
  OBVIOUS
<1>1. CASE OpenTarget
  <2>1. Free \in Fds /\ DOMAIN fds = {}
    <3>1. DOMAIN fds = {}
      BY <1>1, ZenonT(60) DEF OpenTarget, CapInv, Descriptors
    <3>2. Free <= 3 /\ Free >= 3 /\ Free \in Nat
      BY <3>1, FreeFacts
    <3> QED BY <3>1, <3>2 DEF Fds
  <2>2. /\ nsParent' \in {p \in [1..LastNs -> 0..(LastNs - 1)] : \A i \in 1..LastNs : p[i] < i}
        /\ npc' = "owning" /\ verdict' = verdict /\ npc = "start" /\ target_ns' = Free
        /\ fds' = With(Free, IF input'.user THEN input'.ns ELSE None)
    BY <1>1, SMTT(60) DEF OpenTarget
  <2>3. Tree'
    BY <2>2, LastNsAssumption DEF Tree
  <2>4. input'.ns \in UserNs /\ input'.pidNs \in UserNs
    BY <1>1, Zenon DEF OpenTarget
  <2>5. DOMAIN fds' = {target_ns'} /\ fds'[target_ns'] = IF input'.user THEN input'.ns ELSE None
    BY <2>1, <2>2, Zenon DEF With
  <2>6. Descriptors'
    BY <2>1, <2>2, <2>5, Zenon DEF Descriptors
  <2> QED BY <2>2, <2>3, <2>4, <2>6, Zenon DEF CapInv, World, VerdictRight
<1>2. ASSUME nsParent' = nsParent, owner' = owner, input' = input
      PROVE  /\ \A n : Lineage(n)' = Lineage(n)
             /\ World => World'
             /\ verdict' = verdict /\ VerdictRight => VerdictRight'
  <2>1. \A n : Lineage(n)' = Lineage(n)
    BY <1>2 DEF Lineage
  <2> QED BY <1>2, <2>1, Zenon DEF World, Tree, VerdictRight
<1>3. CASE owning_userns_of
  <2>1. DOMAIN fds = {target_ns} /\ target_ns \in Fds /\ verdict = "" /\ (input.user => fds[target_ns] = input.ns)
    BY <1>3, Zenon DEF owning_userns_of, CapInv, Descriptors
  <2>2. Free \in Fds /\ Free # target_ns
    BY <2>1, FreeTwo, ZenonT(60)
  <2>3. DOMAIN fds' = {target_userns'} /\ target_userns' \in Fds /\ fds'[target_userns'] = input.ns
    <3>1. CASE input.user
      BY <1>3, <2>1, <3>1, Zenon DEF owning_userns_of
    <3>2. CASE ~input.user
      <4>1. /\ target_userns' = Free
            /\ fds' = [g \in (DOMAIN fds \cup {Free}) \ {target_ns} |-> IF g = Free THEN input.ns ELSE fds[g]]
        BY <1>3, <3>2, Zenon DEF owning_userns_of
      <4> QED BY <2>1, <2>2, <4>1, ZenonT(60)
    <3> QED BY <3>1, <3>2, Zenon
  <2>4. npc' = "pid" /\ verdict' = verdict /\ npc = "owning"
    BY <1>3, Zenon DEF owning_userns_of
  <2>5. nsParent' = nsParent /\ owner' = owner /\ input' = input
    BY <1>3 DEF owning_userns_of, world
  <2>6. Descriptors'
    BY <2>3, <2>4, <2>5, Zenon DEF Descriptors
  <2> QED BY <1>2, <2>1, <2>4, <2>5, <2>6, Zenon DEF CapInv
<1>4. CASE OpenPid
  <2>1. DOMAIN fds = {target_userns} /\ target_userns \in Fds /\ verdict = "" /\ fds[target_userns] = input.ns
    BY <1>4, Zenon DEF OpenPid, CapInv, Descriptors
  <2>2. Free \in Fds /\ Free # target_userns
    BY <2>1, FreeTwo, ZenonT(60)
  <2>3. /\ npc = "pid" /\ child' = target_userns /\ pid_userns' = Free
        /\ fds' = With(Free, input.pidNs)
    BY <1>4, Zenon DEF OpenPid
  <2>4. /\ DOMAIN fds' = {child', pid_userns'} /\ fds'[pid_userns'] = input.pidNs /\ fds'[child'] = input.ns
        /\ child' # pid_userns' /\ child' \in Fds /\ pid_userns' \in Fds
    BY <2>1, <2>2, <2>3, ZenonT(60) DEF With
  <2>8. nsParent' = nsParent /\ owner' = owner /\ input' = input
    BY <1>4, SMTT(60) DEF OpenPid, world
  <2>5. World' /\ World
    BY <1>2, <2>3, <2>8, Zenon DEF CapInv
  <2>6. CASE input.pidNs = input.ns
    <3>1. verdict' = "sets" /\ npc' = "close"
      BY <1>4, <2>1, <2>6, Zenon DEF OpenPid
    <3>5. input.ns \in Lineage(input.ns)
      BY <2>5, LineageSelf, SMTT(60) DEF World
    <3>2. VerdictRight'
      BY <1>2, <2>8, <2>6, <3>1, <3>5, Zenon DEF VerdictRight
    <3>3. Descriptors'
      BY <3>1, SMTT(60) DEF Descriptors
    <3> QED BY <2>5, <3>1, <3>2, <3>3 DEF CapInv
  <2>7. CASE input.pidNs # input.ns
    <3>1. verdict' = "" /\ npc' = "walk"
      BY <1>4, <2>1, <2>7, Zenon DEF OpenPid
    <3>2. Walked(input.ns)
      BY <2>5, <2>7, LineageSelf DEF Walked, World
    <3>3. Walked(fds[child])'
      BY <1>2, <2>4, <2>8, <3>2, Zenon DEF Walked
    <3>4. Descriptors'
      BY <2>4, <2>8, <3>1, ZenonT(60) DEF Descriptors
    <3> QED BY <2>5, <3>1, <3>3, <3>4, ZenonT(60) DEF CapInv, VerdictRight
  <2> QED BY <2>6, <2>7, SMTT(60)
<1>5. CASE is_ancestor_userns
  <2>1. /\ DOMAIN fds = {child, pid_userns} /\ child # pid_userns /\ verdict = ""
        /\ child \in Fds /\ pid_userns \in Fds /\ fds[pid_userns] = input.pidNs
        /\ World /\ Walked(fds[child]) /\ npc = "walk"
    BY <1>5, Zenon DEF is_ancestor_userns, CapInv, Descriptors
  <2> DEFINE n == fds[child]
             p == nsParent[n]
  <2>2. n \in UserNs /\ input.ns \in UserNs
    BY <2>1, ZenonT(60) DEF Walked, Lineage, World
  <2>3. pid_userns' = pid_userns /\ target_userns' = target_userns
    BY <1>5, Zenon DEF is_ancestor_userns
  <2>8. nsParent' = nsParent /\ owner' = owner /\ input' = input
    BY <1>5, SMTT(60) DEF is_ancestor_userns, world
  <2>4. input' = input /\ World'
    BY <1>2, <2>1, <2>8, Zenon
  <2>5. CASE n = 0
    <3>1. verdict' = "none" /\ npc' = "close"
      BY <1>5, <2>5, Zenon DEF is_ancestor_userns
    <3>2. input.pidNs # input.ns /\ input.pidNs \notin Lineage(input.ns)
      BY <2>1, <2>2, <2>5, WalkOn, ZenonT(60) DEF Walked
    <3>3. VerdictRight'
      BY <1>2, <2>8, <3>1, <3>2, Zenon DEF VerdictRight
    <3>4. Descriptors'
      BY <3>1, SMTT(60) DEF Descriptors
    <3> QED BY <2>4, <3>1, <3>3, <3>4, ZenonT(60) DEF CapInv
  <2>6. CASE n # 0 /\ p = input.pidNs
    <3>1. verdict' = "" /\ npc' = "owner" /\ desc_userns' = child /\ fds' = fds
      BY <1>5, <2>1, <2>6, Zenon DEF is_ancestor_userns
    <3>2. Found(n)
      BY <2>1, <2>2, <2>6, WalkOn, ZenonT(60)
    <3>3. Found(fds[desc_userns])'
      <4>1. (fds[desc_userns])' = n
        BY <3>1
      <4>2. Lineage(input.ns)' = Lineage(input.ns)
        BY <1>2, <2>8
      <4> QED BY <2>8, <3>2, <4>1, <4>2, SMTT(60) DEF Found
    <3>4. Descriptors'
      BY <3>1, ZenonT(60) DEF Descriptors
    <3> QED BY <2>4, <3>1, <3>3, <3>4, ZenonT(60) DEF CapInv, VerdictRight
  <2>7. CASE n # 0 /\ p # input.pidNs
    <3>1. /\ verdict' = "" /\ npc' = "walk" /\ child' = Free
          /\ fds' = [g \in (DOMAIN fds \cup {Free}) \ {child} |-> IF g = Free THEN p ELSE fds[g]]
      BY <1>5, <2>1, <2>7, Zenon DEF is_ancestor_userns
    <3>2. Walked(p)
      BY <2>1, <2>2, <2>7, WalkOn, ZenonT(60)
    <3>5. Free \in Fds /\ Free # child /\ Free # pid_userns
      BY <2>1, FreeTwo, ZenonT(60)
    <3>6. DOMAIN fds' = {child', pid_userns'} /\ fds'[child'] = p /\ fds'[pid_userns'] = input.pidNs
      BY <2>1, <2>3, <3>1, <3>5, ZenonT(60)
    <3>3. Walked(fds[child])'
      BY <1>2, <2>8, <3>2, <3>6, Zenon DEF Walked
    <3>4. Descriptors'
      BY <2>1, <2>3, <2>4, <3>1, <3>5, <3>6, ZenonT(60) DEF Descriptors
    <3> QED BY <2>4, <3>1, <3>3, <3>4, ZenonT(60) DEF CapInv, VerdictRight
  <2> QED BY <2>5, <2>6, <2>7, SMTT(60)
<1>6. CASE CheckOwner
  <2>1. Found(fds[desc_userns]) /\ World
    BY <1>6, Zenon DEF CheckOwner, CapInv
  <2>2. /\ verdict' = (IF input.euid = owner[fds[desc_userns]] THEN "all" ELSE "sets")
        /\ npc' = "closeDesc" /\ npc = "owner"
    BY <1>6, Zenon DEF CheckOwner
  <2>3. input' = input /\ owner' = owner /\ nsParent' = nsParent
    BY <1>6, SMTT(60) DEF CheckOwner, world
  <2> DEFINE below == {m \in Lineage(input.ns) \ {0} : nsParent[m] = input.pidNs}
  <2>6. input.pidNs \in Lineage(input.ns) \ {input.ns} /\ below = {fds[desc_userns]}
    BY <2>1 DEF Found
  <2>7. verdict' = IF \A m \in below : owner[m] = input.euid THEN "all" ELSE "sets"
    BY <2>2, <2>6, SMTT(60)
  <2>8. Lineage(input.ns)' = Lineage(input.ns) /\ below' = below
    BY <1>2, <2>3, SMTT(60)
  <2> HIDE DEF below
  <2>4. VerdictRight'
    BY <2>3, <2>6, <2>7, <2>8, Zenon DEF VerdictRight, below
  <2>5. World' /\ Descriptors'
    BY <1>2, <2>1, <2>2, <2>3, Zenon DEF Descriptors
  <2> QED BY <2>2, <2>4, <2>5, ZenonT(60) DEF CapInv
<1>7. CASE CloseDesc \/ CloseTarget \/ ClosePid
  <2>1. /\ npc' \in {"close", "closePid", "exit", "failed"} /\ verdict' = verdict
        /\ npc \in {"closeDesc", "close", "closePid"}
    BY <1>7, Zenon DEF CloseDesc, CloseTarget, ClosePid, Close
  <2>4. nsParent' = nsParent /\ owner' = owner /\ input' = input
    BY <1>7 DEF CloseDesc, CloseTarget, ClosePid, world
  <2>2. World' /\ VerdictRight'
    BY <1>2, <2>1, <2>4, Zenon DEF CapInv
  <2>3. Descriptors'
    BY <2>1, SMTT(60) DEF Descriptors
  <2> QED BY <2>1, <2>2, <2>3, ZenonT(60) DEF CapInv
<1>8. CASE UNCHANGED nsVars
  BY <1>8, ZenonT(60) DEF nsVars, CapInv, Descriptors, World, Tree, Walked, Found, Lineage, VerdictRight
<1> QED BY <1>1, <1>3, <1>4, <1>5, <1>6, <1>7, <1>8, Zenon DEF CapableNext

\* For every tree of user namespaces, every process and every target: the verdict
\* ns_capable.c prints is the kernel's rule (the capability sets of a process in
\* the target's namespace, all capabilities for the owner of the next namespace on
\* the way from an ancestor, none from anywhere else).
THEOREM CapableCorrect == CapableSpec => []VerdictRight
<1>1. CapInv => VerdictRight
  BY DEF CapInv
<1> QED BY <1>1, CapableInitial, CapableStep, PTL DEF CapableSpec
=============================================================================
