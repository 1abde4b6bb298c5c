------------------------------ MODULE MMProofs ------------------------------
(***************************************************************************)
(* The allocator keeps its heap in order and its client's data in place:   *)
(* proofs of the properties of MM, for a heap of any size, any number of   *)
(* blocks and every size up to half the range of a uint32_t.               *)
(***************************************************************************)
EXTENDS MM, HeapProofs
-----------------------------------------------------------------------------
(* The walk along the headers meets the blocks.                            *)

\* Where the walk ends.
Ends(bp) == bp \notin Word \ {0} \/ bp >= heap.brk \/ Size(bp) < MINIMUM

LEMMA StepsOn ==
  ASSUME heap \in Heap, NEW x \in Nat, ~ Ends(x)
  PROVE  NEXT_BLKP(heap, x) \in Nat
<1>1. x \in Word /\ x # 0 /\ ~ (Size(x) < 24)
  BY DEF Ends, MINIMUM
<1>2. x - 4 \in Word
  <2>1. x % 4 = 0 /\ x < MaxHeap /\ MaxHeap \in Nat
    BY <1>1, WordFact, MMHeapAssumption
  <2>2. x - 4 \in Nat /\ (x - 4) % 4 = 0 /\ x - 4 < MaxHeap
    BY <1>1, <2>1
  <2> QED BY <2>2, WordFact
<1>3. heap.mem[x - 4] \in Int
  BY <1>2 DEF Heap
<1>4. Size(x) \in Int
  BY <1>3 DEF Size, GET_SIZE, HDRP, WSIZE
<1>5. NEXT_BLKP(heap, x) = x + Size(x)
  BY DEF NEXT_BLKP, Size, HDRP
<1> QED BY <1>1, <1>4, <1>5

LEMMA BlocksWalk ==
  ASSUME heap \in Heap
  PROVE  \E from : /\ Blocks = from[First]
                   /\ \A bp \in Nat : from[bp] = IF Ends(bp) THEN {}
                                                 ELSE {bp} \cup from[NEXT_BLKP(heap, bp)]
<1> DEFINE Body(f) == [bp \in Nat |->
                        IF bp \notin Word \ {0} \/ bp >= heap.brk \/ Size(bp) < MINIMUM THEN {}
                        ELSE {bp} \cup f[NEXT_BLKP(heap, bp)]]
           from == CHOOSE f : f = Body(f)
           S == {bp \in Nat : Ends(bp)}
           N == [bp \in Nat |-> NEXT_BLKP(heap, bp)]
<1>1. Blocks = from[First]
  BY DEF Blocks
<1>2. PICK R \in [Nat -> SUBSET Nat] :
        \A x \in Nat : R[x] = {x} \cup (IF x \in S THEN {} ELSE R[N[x]])
  <2>1. \A x \in Nat : x \notin S => N[x] \in Nat
    BY StepsOn
  <2>2. Leads(N, Nat, S)
    BY <2>1 DEF Leads
  <2> HIDE DEF S, N
  <2>3. PICK R : Passed(R, N, Nat, S)
    BY <2>2, Walks
  <2> QED BY <2>3 DEF Passed
<1> DEFINE found == [x \in Nat |-> R[x] \ S]
<1>3. found = Body(found)
  <2>1. ASSUME NEW x \in Nat
        PROVE  found[x] = IF Ends(x) THEN {} ELSE {x} \cup found[NEXT_BLKP(heap, x)]
    <3>1. x \in S <=> Ends(x)
      OBVIOUS
    <3>2. N[x] = NEXT_BLKP(heap, x)
      OBVIOUS
    <3>3. x \notin S => N[x] \in Nat
      BY <3>1, StepsOn
    <3> HIDE DEF S, N
    <3>4. found[x] = R[x] \ S /\ (x \notin S => found[N[x]] = R[N[x]] \ S)
      BY <3>3
    <3> HIDE DEF found
    <3>5. R[x] = {x} \cup (IF x \in S THEN {} ELSE R[N[x]])
      BY <1>2
    <3>6. CASE x \in S
      BY <3>1, <3>4, <3>5, <3>6
    <3>7. CASE x \notin S
      BY <3>1, <3>2, <3>4, <3>5, <3>7
    <3> QED BY <3>6, <3>7
  <2> HIDE DEF found
  <2>2. \A x \in Nat : found[x] = Body(found)[x]
    BY <2>1 DEF Ends
  <2>3. found = [x \in Nat |-> found[x]]
    BY DEF found
  <2> QED BY <2>2, <2>3
<1>4. from = Body(from)
  <2> HIDE DEF found, Body
  <2> QED BY <1>3
<1> HIDE DEF from
<1>5. \A bp \in Nat : from[bp] = IF Ends(bp) THEN {} ELSE {bp} \cup from[NEXT_BLKP(heap, bp)]
  BY <1>4 DEF Ends
<1> QED BY <1>1, <1>5

LEMMA BlocksAre ==
  ASSUME NEW C, NEW F, State(heap, C, F)
  PROVE  Blocks = C \ {heap.brk} /\ FreeBlocks = F
<1>1. /\ Frame(heap, C, F) /\ Cuts(C, heap.brk) /\ F \subseteq C \ {heap.brk} /\ heap \in Heap
      /\ heap.brk \in Nat /\ heap.brk \in C /\ First \in C
      /\ \A c \in C : c \in Nat /\ 48 <= c /\ c <= heap.brk
  BY StateFacts, FrameFacts
<1>2. PICK from : /\ Blocks = from[First]
                  /\ \A bp \in Nat : from[bp] = IF Ends(bp) THEN {}
                                                ELSE {bp} \cup from[NEXT_BLKP(heap, bp)]
  BY <1>1, BlocksWalk
<1> DEFINE Behind(c) == {d \in C : c <= d /\ d # heap.brk}
           Wrong == {n \in Nat : \E c \in C : n = heap.brk - c /\ from[c] # Behind(c)}
<1>3. Wrong = {}
  <2> SUFFICES ASSUME Wrong # {} PROVE FALSE
    OBVIOUS
  <2>1. PICK m \in Wrong : \A n \in Wrong : m <= n
    <3>1. Wrong \in SUBSET Nat
      OBVIOUS
    <3> HIDE DEF Wrong
    <3> QED BY <3>1, LeastNat
  <2>2. PICK c \in C : m = heap.brk - c /\ from[c] # Behind(c)
    BY <2>1
  <2>3. CASE c = heap.brk
    <3>1. Ends(c)
      BY <2>3, <1>1 DEF Ends
    <3>2. from[c] = {}
      BY <1>1, <1>2, <3>1
    <3>3. Behind(c) = {}
      BY <2>3, <1>1
    <3> QED BY <2>2, <3>2, <3>3
  <2>4. CASE c # heap.brk
    <3>1. PICK d \in C : Follows(C, c, d)
      BY <2>4, <1>1, SuccessorExists
    <3>2. /\ c \in Nat /\ d \in Nat /\ c + 24 <= d /\ d <= heap.brk
          /\ \A e \in C : e \in Nat /\ (e = c \/ e = d \/ e + 24 <= c \/ d + 24 <= e)
      BY <3>1, <1>1, FollowsFacts
    <3>3. NEXT_BLKP(heap, c) = d /\ Size(c) = d - c
      BY <3>1, <1>1, BlockReads DEF Size
    <3>4. ~ Ends(c)
      <4>1. c \in Word
        BY <2>4, <1>1, TagWords
      <4> QED BY <1>1, <3>2, <3>3, <4>1 DEF Ends, MINIMUM
    <3>5. from[c] = {c} \cup from[d]
      BY <1>2, <3>2, <3>3, <3>4
    <3>6. from[d] = Behind(d)
      <4> SUFFICES ASSUME from[d] # Behind(d) PROVE FALSE
        OBVIOUS
      <4>1. heap.brk - d \in Nat /\ heap.brk - d < heap.brk - c
        BY <1>1, <3>2
      <4>2. heap.brk - d \in Wrong
        BY <4>1
      <4> QED BY <2>1, <2>2, <4>1, <4>2
    <3>7. {c} \cup Behind(d) = Behind(c)
      <4>1. \A e \in C : c <= e <=> e = c \/ d <= e
        BY <3>2
      <4> QED BY <2>4, <4>1
    <3> QED BY <2>2, <3>5, <3>6, <3>7
  <2> QED BY <2>3, <2>4
<1>4. from[First] = Behind(First)
  <2>1. heap.brk - First \in Nat
    BY <1>1
  <2> HIDE DEF Behind
  <2>2. heap.brk - First \in Wrong \/ from[First] = Behind(First)
    BY <1>1, <2>1
  <2> HIDE DEF Wrong
  <2> QED BY <1>3, <2>2
<1>5. Blocks = C \ {heap.brk}
  <2>1. \A c \in C : First <= c
    BY <1>1 DEF First
  <2> QED BY <1>2, <1>4, <2>1
<1>6. ASSUME NEW b \in C \ {heap.brk} PROVE IsFree(b) <=> b \in F
  <2>1. PICK c \in C : Follows(C, b, c)
    BY <1>1, SuccessorExists
  <2> QED BY <1>1, <2>1, BlockReads DEF IsFree
<1> QED BY <1>1, <1>5, <1>6 DEF FreeBlocks
-----------------------------------------------------------------------------
(* What the properties of the heap say in terms of the blocks.             *)

LEMMA StateIsTiled ==
  ASSUME NEW C, NEW F, State(heap, C, F)
  PROVE  Tiled
<1>1. /\ Frame(heap, C, F) /\ Cuts(C, heap.brk) /\ heap.mem[heap.brk - 4] = 1
      /\ heap.brk # First /\ heap.brk \in C /\ Blocks = C \ {heap.brk}
  BY StateFacts, FrameFacts, BlocksAre
<1>2. heap.brk \in {NEXT_BLKP(heap, bp) : bp \in Blocks}
  <2>1. PICK b \in C : Follows(C, b, heap.brk)
    BY <1>1, PredecessorExists
  <2>2. b \in Blocks
    BY <1>1, <2>1, FollowsFacts
  <2>3. NEXT_BLKP(heap, b) = heap.brk
    BY <1>1, <2>1, BlockReads
  <2> QED BY <2>2, <2>3
<1>3. heap.mem[HDRP(heap.brk)] = PACK(0, 1)
  BY <1>1 DEF HDRP, WSIZE, PACK
<1>4. ASSUME NEW b \in Blocks
      PROVE  b % ALIGNMENT = 0 /\ heap.mem[FTRP(heap, b)] = heap.mem[HDRP(b)]
  <2>1. b \in C /\ b # heap.brk
    BY <1>1
  <2>2. PICK c \in C : Follows(C, b, c)
    BY <1>1, <2>1, SuccessorExists
  <2>3. FTRP(heap, b) = c - 8 /\ HDRP(b) = b - 4
    BY <1>1, <2>2, BlockReads DEF HDRP, WSIZE
  <2>4. heap.mem[b - 4] = heap.mem[c - 8]
    BY <1>1, <2>1, <2>2 DEF Frame, Tagged
  <2>5. b % 8 = 0
    BY <1>1, <2>1, FrameFacts
  <2> QED BY <2>3, <2>4, <2>5 DEF ALIGNMENT
<1> QED BY <1>2, <1>3, <1>4 DEF Tiled

LEMMA StateIsCoalesced ==
  ASSUME NEW C, NEW F, State(heap, C, F)
  PROVE  Coalesced
<1>1. /\ Frame(heap, C, F) /\ Cuts(C, heap.brk) /\ heap.mem[heap.brk - 4] = 1
      /\ F \subseteq C \ {heap.brk} /\ FreeBlocks = F
      /\ \A x, y : Follows(C, x, y) => ~ (x \in F /\ y \in F)
  BY StateFacts, BlocksAre
<1>2. ASSUME NEW b \in FreeBlocks PROVE ~ IsFree(NEXT_BLKP(heap, b))
  <2>1. b \in C /\ b # heap.brk /\ b \in F
    BY <1>1
  <2>2. PICK c \in C : Follows(C, b, c)
    BY <1>1, <2>1, SuccessorExists
  <2>3. NEXT_BLKP(heap, b) = c /\ c \notin F
    BY <1>1, <2>1, <2>2, BlockReads
  <2>4. CASE c = heap.brk
    BY <1>1, <2>3, <2>4 DEF IsFree, GET_ALLOC, HDRP, WSIZE
  <2>5. CASE c # heap.brk
    <3>1. PICK d \in C : Follows(C, c, d)
      BY <1>1, <2>5, SuccessorExists
    <3>2. GET_ALLOC(heap, HDRP(c)) = 1
      BY <1>1, <2>3, <3>1, BlockReads
    <3> QED BY <2>3, <3>2 DEF IsFree
  <2> QED BY <2>4, <2>5
<1> QED BY <1>2 DEF Coalesced

LEMMA StateIsListed ==
  ASSUME NEW C, NEW F, State(heap, C, F)
  PROVE  FreeListExact
<1>1. Linked(heap, F) /\ FreeBlocks = F
  BY StateFacts, BlocksAre
<1>2. PICK n \in Nat : \E list \in [1 .. n -> F] : LinkedAs(heap, F, n, list)
  BY <1>1 DEF Linked
<1>3. PICK list \in [1 .. n -> F] : LinkedAs(heap, F, n, list)
  BY <1>2
<1>4. /\ \A x \in F : \E k \in 1 .. n : list[k] = x
      /\ \A j, k \in 1 .. n : list[j] = list[k] => j = k
      /\ heap.free = IF n = 0 THEN Prologue ELSE list[1]
      /\ \A k \in 1 .. n :
           /\ NEXT_FREE(heap, list[k]) = IF k = n THEN Prologue ELSE list[k + 1]
           /\ PREV_FREE(heap, list[k]) = IF k = 1 THEN NULL ELSE list[k - 1]
  BY <1>3 DEF LinkedAs
<1>5. Cardinality(F) = n
  <2>1. list \in Bijection(1 .. n, F)
    <3>1. list \in Injection(1 .. n, F)
      BY <1>4 DEF Injection, IsInjective
    <3>2. list \in Surjection(1 .. n, F)
      BY <1>4 DEF Surjection
    <3> QED BY <3>1, <3>2 DEF Bijection
  <2>2. ExistsBijection(1 .. n, F)
    BY <2>1 DEF ExistsBijection
  <2> QED BY <2>2, FS_CountingElements
<1>6. {list[k] : k \in 1 .. n} = F
  BY <1>4
<1>7. \E l \in [1 .. n -> F] :
        /\ {l[k] : k \in 1 .. n} = F
        /\ heap.free = IF n = 0 THEN Prologue ELSE l[1]
        /\ \A k \in 1 .. n :
             /\ NEXT_FREE(heap, l[k]) = IF k = n THEN Prologue ELSE l[k + 1]
             /\ PREV_FREE(heap, l[k]) = IF k = 1 THEN NULL ELSE l[k - 1]
  BY <1>4, <1>6
<1> QED BY <1>1, <1>5, <1>7 DEF FreeListExact

LEMMA StateFindsRoom ==
  ASSUME NEW C, NEW F, State(heap, C, F), NEW size, Moderate(size), size # 0,
         mm_malloc(heap, size).bp = NULL
  PROVE  \A bp \in FreeBlocks : Size(bp) < AdjustedSize(size)
<1>1. /\ Frame(heap, C, F) /\ Cuts(C, heap.brk) /\ F \subseteq C \ {heap.brk}
      /\ FreeBlocks = F
  BY StateFacts, BlocksAre
<1> DEFINE asize == AdjustedSize(size)
           r == mm_malloc(heap, size)
<1>2. Refused(r, heap, C, F, asize) \/ Allocated(r, heap, C, F, asize)
  BY MallocKeepsOrder
<1> HIDE DEF r, asize
<1>3. \A b, c : Follows(C, b, c) /\ b \in F => c - b < asize
  BY <1>2 DEF Refused, Allocated, r
<1>4. ASSUME NEW b \in F PROVE Size(b) < asize
  <2>1. b \in C /\ b # heap.brk
    BY <1>1
  <2>2. PICK c \in C : Follows(C, b, c)
    BY <1>1, <2>1, SuccessorExists
  <2>3. Size(b) = c - b
    BY <1>1, <2>2, BlockReads DEF Size
  <2> QED BY <1>3, <2>2, <2>3
<1> QED BY <1>1, <1>4 DEF asize
-----------------------------------------------------------------------------
(* What the client holds.                                                  *)

\* The block at b is one of the allocated ones, H, with room for n bytes, and
\* holds v in them.
Owned(h, b, n, v, H) ==
  /\ \E e : <<b, e>> \in H /\ b + n + 8 <= e
  /\ \A k \in Nat : 4 * k < n => h.mem[b + 4 * k] = v

\* The client's blocks other than that of id are the extents of K, in order.
Others(h, p, q, id, K) ==
  /\ \A j \in Ids \ {id} : p[j] # NULL => Owned(h, p[j], q[j], Fill[j], K)
  /\ \A x \in K : \E j \in Ids \ {id} : p[j] = x[1]

\* The heap is in order, its allocated blocks are those of the client, and each
\* holds what the client wrote there.
Client(h, p, q, C, F) ==
  /\ State(h, C, F)
  /\ p \in [Ids -> Nat] /\ q \in [Ids -> Sizes \cup {0}]
  /\ \A j \in Ids : p[j] = NULL => q[j] = 0
  /\ \A i, j \in Ids : p[i] = p[j] /\ p[i] # NULL => i = j
  /\ \A j \in Ids : p[j] # NULL => Owned(h, p[j], q[j], Fill[j], Held(C, F))
  /\ \A x \in Held(C, F) : \E j \in Ids : p[j] = x[1]

LEMMA SizesAreNat == Sizes \subseteq Nat
BY MMAssumption, MMHeapAssumption

LEMMA OwnedKept ==
  ASSUME NEW h, NEW C, NEW F, State(h, C, F), NEW K, K \subseteq Held(C, F),
         NEW g, SameData(g, h, K), NEW b, NEW n \in Nat, NEW v, Owned(h, b, n, v, K)
  PROVE  Owned(g, b, n, v, K)
<1>1. PICK e : <<b, e>> \in K /\ b + n + 8 <= e
  BY DEF Owned
<1>2. /\ b \in Nat /\ e \in Nat /\ b % 8 = 0 /\ e <= MaxHeap /\ MaxHeap \in Nat
  <2>1. <<b, e>> \in Held(C, F)
    BY <1>1
  <2>2. b \in Nat /\ e \in Nat /\ b % 8 = 0
    BY <2>1, HeldFacts
  <2>3. e <= h.brk /\ h.brk <= MaxHeap /\ MaxHeap \in Nat /\ h.brk \in Nat
    BY <2>1, HeldFacts
  <2> QED BY <2>2, <2>3
<1>3. ASSUME NEW k \in Nat, 4 * k < n PROVE g.mem[b + 4 * k] = h.mem[b + 4 * k]
  <2>1. /\ b <= b + 4 * k /\ b + 4 * k < e - 8
        /\ b + 4 * k \in Nat /\ (b + 4 * k) % 4 = 0 /\ b + 4 * k < MaxHeap
    BY <1>1, <1>2, <1>3
  <2>2. b + 4 * k \in Word
    BY <2>1, WordFact
  <2>3. <<b, e>>[1] = b /\ <<b, e>>[2] = e
    OBVIOUS
  <2> QED BY <1>1, <2>1, <2>2, <2>3 DEF SameData
<1> QED BY <1>1, <1>3 DEF Owned

LEMMA OthersKept ==
  ASSUME NEW h, NEW C, NEW F, State(h, C, F), NEW K, K \subseteq Held(C, F),
         NEW g, SameData(g, h, K), NEW p, NEW q \in [Ids -> Nat], NEW id, Others(h, p, q, id, K)
  PROVE  Others(g, p, q, id, K)
<1>1. ASSUME NEW j \in Ids \ {id}, p[j] # NULL PROVE Owned(g, p[j], q[j], Fill[j], K)
  <2>1. q[j] \in Nat /\ Owned(h, p[j], q[j], Fill[j], K)
    BY <1>1 DEF Others
  <2> QED BY <2>1, OwnedKept
<1> QED BY <1>1 DEF Others

\* Without its block, id leaves the others theirs.
LEMMA OthersOwn ==
  ASSUME NEW h, NEW p, NEW q, NEW C, NEW F, Client(h, p, q, C, F), NEW id \in Ids
  PROVE  /\ p[id] = NULL => Others(h, p, q, id, Held(C, F))
         /\ \A c : <<p[id], c>> \in Held(C, F) =>
              Others(h, p, q, id, Held(C, F) \ {<<p[id], c>>})
<1> DEFINE H == Held(C, F)
<1>1. /\ State(h, C, F)
      /\ \A i, j \in Ids : p[i] = p[j] /\ p[i] # NULL => i = j
      /\ \A j \in Ids : p[j] # NULL => Owned(h, p[j], q[j], Fill[j], H)
      /\ \A x \in H : \E j \in Ids : p[j] = x[1]
  BY DEF Client
<1>2. ASSUME NEW x \in H PROVE x[1] # NULL /\ x = <<x[1], x[2]>> /\ Follows(C, x[1], x[2])
  <2>1. x = <<x[1], x[2]>> /\ Follows(C, x[1], x[2]) /\ x[1] \in C
    BY DEF Held
  <2>2. \A c \in C : c # NULL
    <3>1. Frame(h, C, F)
      BY <1>1, StateFacts
    <3>2. \A c \in C : c \in Nat /\ 48 <= c
      BY <3>1, FrameFacts
    <3> QED BY <3>2 DEF NULL
  <2> QED BY <2>1, <2>2
<1> HIDE DEF H
<1>3. ASSUME p[id] = NULL PROVE Others(h, p, q, id, H)
  <2>1. \A x \in H : \E j \in Ids \ {id} : p[j] = x[1]
    BY <1>1, <1>2, <1>3
  <2> QED BY <1>1, <2>1 DEF Others
<1>4. ASSUME NEW c, <<p[id], c>> \in H
      PROVE  Others(h, p, q, id, H \ {<<p[id], c>>})
  <2> DEFINE K == H \ {<<p[id], c>>}
  <2>1. ASSUME NEW j \in Ids \ {id}, p[j] # NULL PROVE Owned(h, p[j], q[j], Fill[j], K)
    <3>1. p[j] # p[id]
      BY <1>1, <2>1
    <3>2. Owned(h, p[j], q[j], Fill[j], H)
      BY <1>1, <2>1
    <3>3. PICK e : <<p[j], e>> \in H /\ p[j] + q[j] + 8 <= e
      BY <3>2 DEF Owned
    <3>4. <<p[j], e>> \in K
      BY <3>1, <3>3
    <3> QED BY <3>2, <3>3, <3>4 DEF Owned
  <2>2. ASSUME NEW x \in K PROVE \E j \in Ids \ {id} : p[j] = x[1]
    <3>1. PICK j \in Ids : p[j] = x[1]
      BY <1>1
    <3>2. x = <<x[1], x[2]>> /\ Follows(C, x[1], x[2]) /\ x # <<p[id], c>>
      BY <1>2
    <3>3. Follows(C, p[id], c) /\ Cuts(C, h.brk)
      BY <1>1, <1>4, HeldFacts, StateFacts DEF H
    <3>4. j # id
      BY <3>1, <3>2, <3>3, FollowsUnique
    <3> QED BY <3>1, <3>4
  <2> QED BY <2>1, <2>2 DEF Others
<1> QED BY <1>3, <1>4 DEF H

\* id has got the block at b.
LEMMA Gained ==
  ASSUME NEW h, NEW p, NEW q, NEW C, NEW F, Client(h, p, q, C, F), NEW id \in Ids,
         NEW g, NEW D, NEW E, State(g, D, E), NEW K, NEW b \in Nat, NEW e,
         Held(D, E) = K \cup {<<b, e>>}, Others(g, p, q, id, K), \A x \in K : x[1] # b,
         b # NULL, NEW n \in Sizes, Owned(g, b, n, Fill[id], Held(D, E))
  PROVE  Client(g, [p EXCEPT ![id] = b], [q EXCEPT ![id] = n], D, E)
<1> DEFINE p2 == [p EXCEPT ![id] = b]
           q2 == [q EXCEPT ![id] = n]
<1>1. /\ p \in [Ids -> Nat] /\ q \in [Ids -> Sizes \cup {0}]
      /\ \A j \in Ids : p[j] = NULL => q[j] = 0
      /\ \A i, j \in Ids : p[i] = p[j] /\ p[i] # NULL => i = j
  BY DEF Client
<1>2. /\ p2 \in [Ids -> Nat] /\ q2 \in [Ids -> Sizes \cup {0}]
      /\ p2[id] = b /\ q2[id] = n
      /\ \A j \in Ids \ {id} : p2[j] = p[j] /\ q2[j] = q[j]
  BY <1>1
<1> HIDE DEF p2, q2
<1>3. \A j \in Ids : p2[j] = NULL => q2[j] = 0
  BY <1>1, <1>2
<1>4. ASSUME NEW j \in Ids \ {id} PROVE p2[j] # b
  <2> SUFFICES ASSUME p[j] = b PROVE FALSE
    BY <1>2
  <2>1. Owned(g, p[j], q[j], Fill[j], K)
    BY DEF Others
  <2>2. PICK d : <<b, d>> \in K
    BY <2>1 DEF Owned
  <2>3. <<b, d>>[1] = b
    OBVIOUS
  <2> QED BY <2>2, <2>3
<1>5. \A i, j \in Ids : p2[i] = p2[j] /\ p2[i] # NULL => i = j
  BY <1>1, <1>2, <1>4
<1>6. ASSUME NEW j \in Ids, p2[j] # NULL PROVE Owned(g, p2[j], q2[j], Fill[j], Held(D, E))
  <2>1. CASE j = id
    BY <2>1, <1>2
  <2>2. CASE j # id
    <3>1. Owned(g, p[j], q[j], Fill[j], K)
      BY <2>2, <1>2, <1>6 DEF Others
    <3>2. PICK d : <<p[j], d>> \in K /\ p[j] + q[j] + 8 <= d
      BY <3>1 DEF Owned
    <3>3. <<p[j], d>> \in Held(D, E)
      BY <3>2
    <3>4. Owned(g, p[j], q[j], Fill[j], Held(D, E))
      BY <3>1, <3>2, <3>3 DEF Owned
    <3> QED BY <2>2, <1>2, <3>4
  <2> QED BY <2>1, <2>2
<1>7. ASSUME NEW x \in Held(D, E) PROVE \E j \in Ids : p2[j] = x[1]
  <2>1. CASE x = <<b, e>>
    <3>1. x[1] = b
      BY <2>1
    <3> QED BY <3>1, <1>2
  <2>2. CASE x \in K
    <3>1. PICK j \in Ids \ {id} : p[j] = x[1]
      BY <2>2 DEF Others
    <3> QED BY <3>1, <1>2
  <2> QED BY <2>1, <2>2
<1>8. Client(g, p2, q2, D, E)
  BY <1>2, <1>3, <1>5, <1>6, <1>7 DEF Client
<1> QED BY <1>8 DEF p2, q2

\* id has no block, any more or still.
LEMMA Lost ==
  ASSUME NEW h, NEW p, NEW q, NEW C, NEW F, Client(h, p, q, C, F), NEW id \in Ids,
         NEW g, NEW D, NEW E, State(g, D, E), Others(g, p, q, id, Held(D, E))
  PROVE  Client(g, [p EXCEPT ![id] = NULL], [q EXCEPT ![id] = 0], D, E)
<1> DEFINE p2 == [p EXCEPT ![id] = NULL]
           q2 == [q EXCEPT ![id] = 0]
<1>1. /\ p \in [Ids -> Nat] /\ q \in [Ids -> Sizes \cup {0}]
      /\ \A j \in Ids : p[j] = NULL => q[j] = 0
      /\ \A i, j \in Ids : p[i] = p[j] /\ p[i] # NULL => i = j
  BY DEF Client
<1>2. /\ p2 \in [Ids -> Nat] /\ q2 \in [Ids -> Sizes \cup {0}]
      /\ p2[id] = NULL /\ q2[id] = 0
      /\ \A j \in Ids \ {id} : p2[j] = p[j] /\ q2[j] = q[j]
  BY <1>1 DEF NULL
<1> HIDE DEF p2, q2
<1>3. \A j \in Ids : p2[j] = NULL => q2[j] = 0
  BY <1>1, <1>2
<1>4. \A i, j \in Ids : p2[i] = p2[j] /\ p2[i] # NULL => i = j
  BY <1>1, <1>2
<1>5. ASSUME NEW j \in Ids, p2[j] # NULL PROVE Owned(g, p2[j], q2[j], Fill[j], Held(D, E))
  <2>1. j # id
    BY <1>2, <1>5
  <2> QED BY <2>1, <1>2, <1>5 DEF Others
<1>6. ASSUME NEW x \in Held(D, E) PROVE \E j \in Ids : p2[j] = x[1]
  <2>1. PICK j \in Ids \ {id} : p[j] = x[1]
    BY DEF Others
  <2> QED BY <2>1, <1>2
<1>7. Client(g, p2, q2, D, E)
  BY <1>2, <1>3, <1>4, <1>5, <1>6 DEF Client
<1> QED BY <1>7 DEF p2, q2

\* The client fills what it has not filled yet.
LEMMA BlockFilled ==
  ASSUME NEW g, NEW D, NEW E, State(g, D, E), NEW b, NEW e, <<b, e>> \in Held(D, E),
         NEW size \in Nat, b + size + 8 <= e, NEW kept \in Nat, NEW v \in Int,
         \A k \in Nat : 4 * k < kept => g.mem[b + 4 * k] = v
  PROVE  LET f == memset(g, WordsOf(b, size) \ WordsOf(b, kept), v)
         IN  /\ State(f, D, E) /\ SameData(f, g, Held(D, E) \ {<<b, e>>})
             /\ Owned(f, b, size, v, Held(D, E))
<1> DEFINE A == WordsOf(b, size) \ WordsOf(b, kept)
           f == memset(g, A, v)
<1>1. /\ b \in Nat /\ e \in Nat /\ b % 8 = 0 /\ e <= MaxHeap /\ MaxHeap \in Nat /\ g \in Heap
  <2>1. b \in Nat /\ e \in Nat /\ b % 8 = 0
    BY HeldFacts
  <2>2. e <= g.brk /\ g.brk <= MaxHeap /\ MaxHeap \in Nat /\ g.brk \in Nat
    BY HeldFacts
  <2> QED BY <2>1, <2>2, StateFacts
<1>2. \A a : a \in A <=> /\ \E k \in Nat : 4 * k < size /\ a = b + 4 * k
                         /\ ~ \E k \in Nat : 4 * k < kept /\ a = b + 4 * k
  <2>1. \A a : a \in WordsOf(b, size) <=> \E k \in Nat : 4 * k < size /\ a = b + 4 * k
    BY <1>1, WordsOfFact
  <2>2. \A a : a \in WordsOf(b, kept) <=> \E k \in Nat : 4 * k < kept /\ a = b + 4 * k
    BY <1>1, WordsOfFact
  <2> QED BY <2>1, <2>2
<1> HIDE DEF A
<1>3. Keeps(f, g, A) /\ f.free = g.free /\ \A a \in A \cap Word : f.mem[a] = v
  BY <1>1, MemsetFacts
<1> HIDE DEF f
<1>4. ASSUME NEW k \in Nat, 4 * k < size
      PROVE  b + 4 * k \in Word /\ b <= b + 4 * k /\ b + 4 * k < e - 8
  <2>1. /\ b <= b + 4 * k /\ b + 4 * k < e - 8
        /\ b + 4 * k \in Nat /\ (b + 4 * k) % 4 = 0 /\ b + 4 * k < MaxHeap
    BY <1>1, <1>4
  <2> QED BY <2>1, WordFact
<1>5. Keeps(f, g, Payload(b, e)) /\ f.free = g.free
  <2>1. A \subseteq Payload(b, e)
    BY <1>2, <1>4 DEF Payload
  <2> QED BY <1>3, <2>1 DEF Keeps
<1>6. State(f, D, E) /\ SameData(f, g, Held(D, E) \ {<<b, e>>})
  BY <1>5, PayloadWritten
<1>7. ASSUME NEW k \in Nat, 4 * k < size PROVE f.mem[b + 4 * k] = v
  <2>1. b + 4 * k \in Word
    BY <1>4, <1>7
  <2>2. CASE b + 4 * k \in A
    BY <1>3, <2>1, <2>2
  <2>3. CASE b + 4 * k \notin A
    <3>1. PICK l \in Nat : 4 * l < kept /\ b + 4 * k = b + 4 * l
      BY <1>2, <1>7, <2>3
    <3>2. g.mem[b + 4 * l] = v
      BY <3>1
    <3> QED BY <1>3, <2>1, <2>3, <3>1, <3>2 DEF Keeps
  <2> QED BY <2>2, <2>3
<1>8. Owned(f, b, size, v, Held(D, E))
  BY <1>7 DEF Owned
<1> QED BY <1>6, <1>8 DEF f, A
-----------------------------------------------------------------------------
(* The inductive invariant.                                                *)

IInv ==
  resets \in 0 .. MaxResets /\ \E C, F : Client(heap, ptr, req, C, F)

\* Every size that is asked for has a block that fits.
ModerateSizes == \A size \in Sizes : Moderate(size)

LEMMA ClientFacts ==
  ASSUME NEW h, NEW p, NEW q, NEW C, NEW F, Client(h, p, q, C, F)
  PROVE  /\ State(h, C, F) /\ p \in [Ids -> Nat] /\ q \in [Ids -> Nat]
         /\ \A j \in Ids : p[j] = NULL => q[j] = 0
         /\ \A j \in Ids : p[j] # NULL => Owned(h, p[j], q[j], Fill[j], Held(C, F))
<1>1. q \in [Ids -> Sizes \cup {0}] /\ Sizes \cup {0} \subseteq Nat
  BY SizesAreNat DEF Client
<1>2. q \in [Ids -> Nat]
  BY <1>1
<1> QED BY <1>2 DEF Client

\* id takes nothing.
LEMMA TakesNothing ==
  ASSUME IInv, NEW C, NEW F, Client(heap, ptr, req, C, F), NEW id \in Ids,
         NEW K, K \subseteq Held(C, F), Others(heap, ptr, req, id, K),
         NEW r, r.bp = NULL, Ordered(r.heap, heap, K, K), NEW size, Takes(id, r, size)
  PROVE  IInv'
<1>1. /\ heap' = r.heap /\ ptr' = [ptr EXCEPT ![id] = NULL] /\ req' = [req EXCEPT ![id] = 0]
      /\ resets' = resets
  BY DEF Takes
<1>2. PICK D, E : State(r.heap, D, E) /\ Held(D, E) = K /\ SameData(r.heap, heap, K)
  BY DEF Ordered
<1>3. Others(r.heap, ptr, req, id, K)
  BY <1>2, ClientFacts, OthersKept
<1>4. Client(r.heap, [ptr EXCEPT ![id] = NULL], [req EXCEPT ![id] = 0], D, E)
  BY <1>2, <1>3, Lost
<1> QED BY <1>1, <1>4 DEF IInv

\* What a call returns when it has given a block of size bytes.
Gives(r, K, size) ==
  /\ r.bp # NULL /\ \A x \in K : x[1] # r.bp
  /\ \E e \in Nat : r.bp + size + 8 <= e /\ Ordered(r.heap, heap, K \cup {<<r.bp, e>>}, K)

\* id takes a block.
LEMMA TakesBlock ==
  ASSUME IInv, NEW C, NEW F, Client(heap, ptr, req, C, F), NEW id \in Ids,
         NEW K, K \subseteq Held(C, F), Others(heap, ptr, req, id, K),
         NEW size \in Sizes, NEW r, Gives(r, K, size), Takes(id, r, size),
         \A k \in Nat : 4 * k < size /\ 4 * k < req[id] => r.heap.mem[r.bp + 4 * k] = Fill[id]
  PROVE  IInv'
<1> DEFINE b == r.bp
           g == r.heap
           kept == IF size < req[id] THEN size ELSE req[id]
           f == memset(g, WordsOf(b, size) \ WordsOf(b, kept), Fill[id])
<1>1. /\ heap' = f /\ ptr' = [ptr EXCEPT ![id] = b] /\ req' = [req EXCEPT ![id] = size]
      /\ resets' = resets /\ b # NULL /\ \A x \in K : x[1] # b
  BY DEF Takes, Gives
<1>2. PICK e \in Nat : b + size + 8 <= e /\ Ordered(g, heap, K \cup {<<b, e>>}, K)
  BY DEF Gives
<1>3. PICK D, E : /\ State(g, D, E) /\ Held(D, E) = K \cup {<<b, e>>} /\ SameData(g, heap, K)
  BY <1>2 DEF Ordered
<1>4. size \in Nat /\ kept \in Nat /\ Fill[id] \in Int /\ req \in [Ids -> Nat]
  BY SizesAreNat, ClientFacts, MMAssumption
<1>5. \A k \in Nat : 4 * k < kept => g.mem[b + 4 * k] = Fill[id]
  BY <1>4
<1> HIDE DEF b, g, kept
<1>6. b \in Nat /\ <<b, e>> \in Held(D, E)
  <2>1. State(g, D, E) /\ <<b, e>> \in Held(D, E)
    BY <1>3
  <2>2. b \in Nat
    BY <2>1, HeldFacts
  <2> QED BY <2>1, <2>2
<1>7. /\ State(f, D, E) /\ SameData(f, g, Held(D, E) \ {<<b, e>>})
      /\ Owned(f, b, size, Fill[id], Held(D, E))
  BY <1>2, <1>3, <1>4, <1>5, <1>6, BlockFilled
<1> HIDE DEF f
<1>8. SameData(f, heap, K)
  <2>1. <<b, e>> \notin K
    <3>1. <<b, e>>[1] = b
      OBVIOUS
    <3> QED BY <1>1, <3>1
  <2>2. K \subseteq Held(D, E) \ {<<b, e>>}
    BY <1>3, <2>1
  <2>3. SameData(f, g, K) /\ SameData(g, heap, K)
    BY <1>3, <1>7, <2>2, SameDataPart
  <2> QED BY <2>3, SameDataTransitive
<1>9. Others(f, ptr, req, id, K)
  BY <1>4, <1>8, ClientFacts, OthersKept
<1>10. Client(f, [ptr EXCEPT ![id] = b], [req EXCEPT ![id] = size], D, E)
  BY <1>1, <1>3, <1>6, <1>7, <1>9, Gained
<1> QED BY <1>1, <1>10 DEF IInv

LEMMA Started ==
  ASSUME NEW h, NEW C, NEW F, State(h, C, F), Held(C, F) = {}
  PROVE  Client(h, [id \in Ids |-> NULL], [id \in Ids |-> 0], C, F)
BY DEF Client, NULL

LEMMA RoomGiven ==
  ASSUME NEW g, NEW h, NEW K, NEW b, NEW e \in Nat, Ordered(g, h, K \cup {<<b, e>>}, K),
         NEW size \in Nat, NEW asize \in Nat, b + asize <= e, size + 8 <= asize
  PROVE  b \in Nat /\ b + size + 8 <= e
<1>1. PICK D, E : State(g, D, E) /\ Held(D, E) = K \cup {<<b, e>>}
  BY DEF Ordered
<1>2. State(g, D, E) /\ <<b, e>> \in Held(D, E)
  BY <1>1
<1>3. b \in Nat
  BY <1>2, HeldFacts
<1> QED BY <1>3

\* What a malloc of the client returns.
LEMMA Asked ==
  ASSUME NEW C, NEW F, State(heap, C, F), NEW size, Moderate(size), size # 0
  PROVE  LET r == mm_malloc(heap, size)
         IN  (r.bp = NULL /\ r.heap = heap) \/ Gives(r, Held(C, F), size)
<1> DEFINE asize == AdjustedSize(size)
           r == mm_malloc(heap, size)
<1>1. Refused(r, heap, C, F, asize) \/ Allocated(r, heap, C, F, asize)
  BY MallocKeepsOrder
<1>2. asize \in Nat /\ size \in Nat /\ size + 8 <= asize
  BY ModerateFits DEF Moderate
<1> HIDE DEF r, asize
<1>3. CASE Refused(r, heap, C, F, asize)
  BY <1>3 DEF Refused, r
<1>4. CASE Allocated(r, heap, C, F, asize)
  <2>1. PICK e \in Nat : r.bp + asize <= e
                         /\ Ordered(r.heap, heap, Held(C, F) \cup {<<r.bp, e>>}, Held(C, F))
    BY <1>4 DEF Allocated
  <2>2. r.bp + size + 8 <= e
    BY <1>2, <2>1, RoomGiven
  <2>3. Gives(r, Held(C, F), size)
    BY <1>4, <2>1, <2>2 DEF Gives, Allocated
  <2> QED BY <2>3 DEF r
<1> QED BY <1>1, <1>3, <1>4

\* What a realloc of the client's block returns.
LEMMA AskedAgain ==
  ASSUME NEW C, NEW F, Client(heap, ptr, req, C, F), NEW id \in Ids, ptr[id] # NULL,
         NEW c, <<ptr[id], c>> \in Held(C, F), NEW size, Moderate(size), size # 0
  PROVE  LET r == mm_realloc(heap, ptr[id], size)
         IN  \/ r.bp = NULL /\ r.heap = heap
             \/ /\ Gives(r, Held(C, F) \ {<<ptr[id], c>>}, size)
                /\ \A k \in Nat : 4 * k < size /\ 4 * k < req[id] => r.heap.mem[r.bp + 4 * k] = Fill[id]
<1> DEFINE asize == AdjustedSize(size)
           b == ptr[id]
           K == Held(C, F) \ {<<b, c>>}
           r == mm_realloc(heap, b, size)
<1>1. /\ State(heap, C, F) /\ req \in [Ids -> Nat]
      /\ Owned(heap, b, req[id], Fill[id], Held(C, F))
  BY ClientFacts
<1>2. asize \in Nat /\ size \in Nat /\ size + 8 <= asize
  BY ModerateFits DEF Moderate
<1>3. (r.bp = NULL /\ r.heap = heap) \/ Resized(r, heap, K, b, c, size, asize)
  BY <1>1, ReallocKeepsOrder
<1> HIDE DEF b, r, asize
<1>4. /\ b + req[id] + 8 <= c
      /\ \A k \in Nat : 4 * k < req[id] => heap.mem[b + 4 * k] = Fill[id]
  <2>1. PICK e : <<b, e>> \in Held(C, F) /\ b + req[id] + 8 <= e
    BY <1>1 DEF Owned
  <2>2. <<b, c>> \in Held(C, F)
    BY DEF b
  <2>3. Follows(C, b, e) /\ Follows(C, b, c) /\ Cuts(C, heap.brk)
    BY <1>1, <2>1, <2>2, StateFacts DEF Held
  <2>4. e = c
    BY <2>3, FollowsUnique
  <2> QED BY <1>1, <2>1, <2>4 DEF Owned
<1>5. b \in Nat /\ c \in Nat /\ req[id] \in Nat
  <2>1. <<b, c>> \in Held(C, F)
    BY DEF b
  <2> QED BY <1>1, <2>1, HeldFacts
<1> HIDE DEF K
<1>6. ASSUME Resized(r, heap, K, b, c, size, asize)
      PROVE  /\ Gives(r, K, size)
             /\ \A k \in Nat : 4 * k < size /\ 4 * k < req[id] => r.heap.mem[r.bp + 4 * k] = Fill[id]
  <2>1. PICK e \in Nat : r.bp + asize <= e /\ Ordered(r.heap, heap, K \cup {<<r.bp, e>>}, K)
    BY <1>6 DEF Resized
  <2>2. r.bp + size + 8 <= e
    BY <1>2, <2>1, RoomGiven
  <2>3. Gives(r, K, size)
    BY <1>6, <2>1, <2>2 DEF Gives, Resized
  <2>4. ASSUME NEW k \in Nat, 4 * k < size, 4 * k < req[id]
        PROVE  r.heap.mem[r.bp + 4 * k] = Fill[id]
    <3>1. b + 4 * k < c - 8
      BY <1>4, <1>5, <2>4
    <3>2. r.heap.mem[r.bp + 4 * k] = heap.mem[b + 4 * k]
      BY <1>6, <2>4, <3>1 DEF Resized
    <3> QED BY <1>4, <2>4, <3>2
  <2> QED BY <2>3, <2>4
<1> QED BY <1>3, <1>6 DEF r, b, K

LEMMA InitInv == Init => IInv
<1> SUFFICES ASSUME Init PROVE IInv
  OBVIOUS
<1>1. PICK C, F : State(mm_init(mem_init), C, F) /\ Held(C, F) = {}
  BY FreshMemory, InitMakesOrder
<1>2. Client(mm_init(mem_init), [id \in Ids |-> NULL], [id \in Ids |-> 0], C, F)
  BY <1>1, Started
<1>3. 0 \in 0 .. MaxResets
  BY MMAssumption
<1> QED BY <1>2, <1>3 DEF Init, IInv

LEMMA ResetInv ==
  ASSUME IInv, Reset
  PROVE  IInv'
<1>1. PICK C, F : State(heap, C, F)
  BY DEF IInv, Client
<1>2. PICK D, E : State(mm_init(mem_reset_brk(heap)), D, E) /\ Held(D, E) = {}
  BY <1>1, UsedMemory, InitMakesOrder
<1>3. Client(mm_init(mem_reset_brk(heap)), [id \in Ids |-> NULL], [id \in Ids |-> 0], D, E)
  BY <1>2, Started
<1>4. resets' \in 0 .. MaxResets
  BY MMAssumption DEF IInv, Reset
<1> QED BY <1>3, <1>4 DEF Reset, IInv

\* The block of id, with what is left when it goes.
LEMMA BlockOf ==
  ASSUME NEW C, NEW F, Client(heap, ptr, req, C, F), NEW id \in Ids, ptr[id] # NULL
  PROVE  \E c : /\ <<ptr[id], c>> \in Held(C, F)
                /\ Others(heap, ptr, req, id, Held(C, F) \ {<<ptr[id], c>>})
                /\ Ordered(mm_free(heap, ptr[id]), heap, Held(C, F) \ {<<ptr[id], c>>},
                           Held(C, F) \ {<<ptr[id], c>>})
<1>1. State(heap, C, F) /\ Owned(heap, ptr[id], req[id], Fill[id], Held(C, F))
  BY ClientFacts
<1>2. PICK c : <<ptr[id], c>> \in Held(C, F)
  BY <1>1 DEF Owned
<1>3. Follows(C, ptr[id], c) /\ ptr[id] \notin F
  BY <1>1, <1>2, HeldFacts
<1> DEFINE K == Held(C, F) \ {<<ptr[id], c>>}
<1>4. Others(heap, ptr, req, id, K)
  BY <1>2, OthersOwn
<1>5. Ordered(mm_free(heap, ptr[id]), heap, K, K)
  BY <1>1, <1>3, FreeKeepsOrder
<1> WITNESS c
<1> QED BY <1>2, <1>4, <1>5

LEMMA NothingChanges ==
  ASSUME NEW C, NEW F, State(heap, C, F)
  PROVE  Ordered(heap, heap, Held(C, F), Held(C, F))
BY DEF Ordered, SameData

\* Freeing, also by a realloc to nothing.
LEMMA FreedInv ==
  ASSUME IInv, NEW id \in Ids, NEW r, r.bp = NULL, r.heap = mm_free(heap, ptr[id]),
         NEW size, Takes(id, r, size)
  PROVE  IInv'
<1>1. PICK C, F : Client(heap, ptr, req, C, F)
  BY DEF IInv
<1>2. CASE ptr[id] = NULL
  <2>1. r.heap = heap
    BY <1>2 DEF mm_free
  <2>2. Ordered(r.heap, heap, Held(C, F), Held(C, F))
    BY <1>1, <2>1, ClientFacts, NothingChanges
  <2>3. Others(heap, ptr, req, id, Held(C, F))
    BY <1>1, <1>2, OthersOwn
  <2> QED BY <1>1, <2>2, <2>3, TakesNothing
<1>3. CASE ptr[id] # NULL
  <2> DEFINE K(c) == Held(C, F) \ {<<ptr[id], c>>}
  <2>1. PICK c : /\ <<ptr[id], c>> \in Held(C, F)
                 /\ Others(heap, ptr, req, id, K(c))
                 /\ Ordered(mm_free(heap, ptr[id]), heap, K(c), K(c))
    BY <1>1, <1>3, BlockOf
  <2>2. K(c) \subseteq Held(C, F)
    OBVIOUS
  <2> HIDE DEF K
  <2>3. Ordered(r.heap, heap, K(c), K(c))
    BY <2>1
  <2> QED BY <1>1, <2>1, <2>2, <2>3, TakesNothing
<1> QED BY <1>2, <1>3

LEMMA FreeInv ==
  ASSUME IInv, NEW id \in Ids, Free(id)
  PROVE  IInv'
<1> DEFINE r == [heap |-> mm_free(heap, ptr[id]), bp |-> NULL]
<1>1. Takes(id, r, 0)
  BY DEF Free, Takes
<1>2. r.bp = NULL /\ r.heap = mm_free(heap, ptr[id])
  OBVIOUS
<1> HIDE DEF r
<1> QED BY <1>1, <1>2, FreedInv

\* id asks for a block when it has none.
LEMMA AskedInv ==
  ASSUME ModerateSizes, IInv, NEW id \in Ids, ptr[id] = NULL, NEW size \in Sizes, size # 0,
         Takes(id, mm_malloc(heap, size), size)
  PROVE  IInv'
<1> DEFINE r == mm_malloc(heap, size)
<1>1. PICK C, F : Client(heap, ptr, req, C, F)
  BY DEF IInv
<1>2. State(heap, C, F) /\ req[id] = 0 /\ Others(heap, ptr, req, id, Held(C, F))
  BY <1>1, ClientFacts, OthersOwn
<1>3. (r.bp = NULL /\ r.heap = heap) \/ Gives(r, Held(C, F), size)
  BY <1>2, Asked DEF ModerateSizes
<1>4. Takes(id, r, size)
  OBVIOUS
<1> HIDE DEF r
<1>5. CASE r.bp = NULL /\ r.heap = heap
  <2>1. Ordered(r.heap, heap, Held(C, F), Held(C, F))
    BY <1>2, <1>5, NothingChanges
  <2> QED BY <1>1, <1>2, <1>4, <1>5, <2>1, TakesNothing
<1>6. CASE Gives(r, Held(C, F), size)
  <2>1. \A k \in Nat : 4 * k < size /\ 4 * k < req[id] => r.heap.mem[r.bp + 4 * k] = Fill[id]
    BY <1>2
  <2> QED BY <1>1, <1>2, <1>4, <1>6, <2>1, TakesBlock
<1> QED BY <1>3, <1>5, <1>6

LEMMA MallocInv ==
  ASSUME ModerateSizes, IInv, NEW id \in Ids, NEW size \in Sizes, Malloc(id, size)
  PROVE  IInv'
<1>1. ptr[id] = NULL /\ Takes(id, mm_malloc(heap, size), size)
  BY DEF Malloc
<1>2. CASE size = 0
  <2> DEFINE r == mm_malloc(heap, size)
  <2>1. r = [heap |-> heap, bp |-> NULL]
    BY <1>2 DEF mm_malloc
  <2>2. r.bp = NULL /\ r.heap = mm_free(heap, ptr[id]) /\ Takes(id, r, size)
    BY <1>1, <2>1 DEF mm_free
  <2> HIDE DEF r
  <2> QED BY <2>2, FreedInv
<1>3. CASE size # 0
  BY <1>1, <1>3, AskedInv
<1> QED BY <1>2, <1>3

LEMMA ReallocInv ==
  ASSUME ModerateSizes, IInv, NEW id \in Ids, NEW size \in Sizes, Realloc(id, size)
  PROVE  IInv'
<1> DEFINE r == mm_realloc(heap, ptr[id], size)
<1>1. IF r.bp = NULL /\ size # 0 THEN heap' = r.heap /\ UNCHANGED <<ptr, req, resets>>
      ELSE Takes(id, r, size)
  BY DEF Realloc
<1>2. PICK C, F : Client(heap, ptr, req, C, F)
  BY DEF IInv
<1>3. State(heap, C, F)
  BY <1>2, ClientFacts
<1>4. CASE size = 0
  <2>1. r.bp = NULL /\ r.heap = mm_free(heap, ptr[id])
    BY <1>4 DEF mm_realloc
  <2>2. Takes(id, r, size)
    BY <1>1, <1>4
  <2> HIDE DEF r
  <2> QED BY <2>1, <2>2, FreedInv
<1>5. CASE size # 0 /\ ptr[id] = NULL
  <2>1. r = mm_malloc(heap, size)
    BY <1>5 DEF mm_realloc
  <2>2. (r.bp = NULL /\ r.heap = heap) \/ Gives(r, Held(C, F), size)
    BY <1>3, <1>5, <2>1, Asked DEF ModerateSizes
  <2> HIDE DEF r
  <2>3. CASE r.bp = NULL
    <3>1. r.heap = heap
      BY <2>2, <2>3 DEF Gives
    <3>2. UNCHANGED vars
      BY <1>1, <1>5, <2>3, <3>1 DEF vars
    <3> QED BY <3>2 DEF vars, IInv
  <2>4. CASE r.bp # NULL
    <3>1. Takes(id, mm_malloc(heap, size), size)
      BY <1>1, <2>1, <2>4
    <3> QED BY <1>5, <3>1, AskedInv
  <2> QED BY <2>3, <2>4
<1>6. CASE size # 0 /\ ptr[id] # NULL
  <2> DEFINE K(c) == Held(C, F) \ {<<ptr[id], c>>}
             Carried == \A k \in Nat : 4 * k < size /\ 4 * k < req[id] =>
                          r.heap.mem[r.bp + 4 * k] = Fill[id]
  <2>1. PICK c : <<ptr[id], c>> \in Held(C, F) /\ Others(heap, ptr, req, id, K(c))
    BY <1>2, <1>6, BlockOf
  <2>2. (r.bp = NULL /\ r.heap = heap) \/ (Gives(r, K(c), size) /\ Carried)
    <3>1. Moderate(size)
      BY DEF ModerateSizes
    <3> QED BY <1>2, <1>6, <2>1, <3>1, AskedAgain
  <2>3. K(c) \subseteq Held(C, F)
    OBVIOUS
  <2> HIDE DEF r, K
  <2>4. CASE r.bp = NULL
    <3>1. r.heap = heap
      BY <2>2, <2>4 DEF Gives
    <3>2. UNCHANGED vars
      BY <1>1, <1>6, <2>4, <3>1 DEF vars
    <3> QED BY <3>2 DEF vars, IInv
  <2>5. CASE r.bp # NULL
    <3>1. Takes(id, r, size)
      BY <1>1, <2>5
    <3>2. Gives(r, K(c), size) /\ Others(heap, ptr, req, id, K(c))
      BY <2>1, <2>2, <2>5
    <3>3. \A k \in Nat : 4 * k < size /\ 4 * k < req[id] => r.heap.mem[r.bp + 4 * k] = Fill[id]
      BY <2>2, <2>5
    <3> QED BY <1>2, <2>3, <3>1, <3>2, <3>3, TakesBlock
  <2> QED BY <2>4, <2>5
<1> QED BY <1>4, <1>5, <1>6

LEMMA StepKeepsInv ==
  ASSUME ModerateSizes, IInv, [Next]_vars
  PROVE  IInv'
<1>1. ASSUME NEW id \in Ids, NEW size \in Sizes, Malloc(id, size) PROVE IInv'
  BY <1>1, MallocInv
<1>2. ASSUME NEW id \in Ids, NEW size \in Sizes, Realloc(id, size) PROVE IInv'
  BY <1>2, ReallocInv
<1>3. ASSUME NEW id \in Ids, Free(id) PROVE IInv'
  BY <1>3, FreeInv
<1>4. CASE Reset
  BY <1>4, ResetInv
<1>5. CASE UNCHANGED vars
  BY <1>5 DEF vars, IInv
<1> QED BY <1>1, <1>2, <1>3, <1>4, <1>5 DEF Next

\* The heap stays in order under every sequence of calls.
THEOREM HeapInOrder ==
  ASSUME ModerateSizes
  PROVE  Spec => []IInv
<1>1. Init => IInv
  BY InitInv
<1>2. IInv /\ [Next]_vars => IInv'
  BY StepKeepsInv
<1> QED BY <1>1, <1>2, PTL DEF Spec
-----------------------------------------------------------------------------
(* What holds in every state.                                              *)

LEMMA InvTypeOK == IInv => TypeOK
<1> SUFFICES ASSUME IInv PROVE TypeOK
  OBVIOUS
<1>1. PICK C, F : Client(heap, ptr, req, C, F)
  BY DEF IInv
<1>2. /\ State(heap, C, F) /\ ptr \in [Ids -> Nat]
      /\ \A j \in Ids : ptr[j] # NULL => Owned(heap, ptr[j], req[j], Fill[j], Held(C, F))
  BY <1>1, ClientFacts
<1>3. Blocks = C \ {heap.brk} /\ FreeBlocks = F
  BY <1>2, BlocksAre
<1>4. Frame(heap, C, F) /\ Linked(heap, F) /\ F \subseteq C \ {heap.brk}
  BY <1>2, StateFacts
<1>5. heap.mem \in [Word -> Int] /\ heap.brk \in 0 .. MaxHeap
  <2>1. heap \in Heap /\ heap.brk \in Nat /\ heap.brk <= MaxHeap /\ MaxHeap \in Nat
    BY <1>4, FrameFacts
  <2> QED BY <2>1 DEF Heap
<1>6. heap.free \in {Prologue} \cup Blocks
  <2>1. PICK n \in Nat : \E list \in [1 .. n -> F] : LinkedAs(heap, F, n, list)
    BY <1>4 DEF Linked
  <2>2. PICK list \in [1 .. n -> F] : LinkedAs(heap, F, n, list)
    BY <2>1
  <2>3. heap.free = IF n = 0 THEN Prologue ELSE list[1]
    BY <2>2 DEF LinkedAs
  <2>4. n # 0 => list[1] \in F
    BY <2>1
  <2> QED BY <1>3, <1>4, <2>3, <2>4
<1>7. ptr \in [Ids -> {NULL} \cup Blocks]
  <2>1. ASSUME NEW j \in Ids, ptr[j] # NULL PROVE ptr[j] \in Blocks
    <3>1. PICK e : <<ptr[j], e>> \in Held(C, F)
      BY <1>2, <2>1 DEF Owned
    <3>2. ptr[j] \in C /\ ptr[j] # heap.brk
      BY <1>2, <3>1, HeldFacts
    <3> QED BY <1>3, <3>2
  <2> QED BY <1>2, <2>1
<1>8. req \in [Ids -> Sizes \cup {0}] /\ resets \in 0 .. MaxResets
  BY <1>1 DEF Client, IInv
<1> QED BY <1>5, <1>6, <1>7, <1>8 DEF TypeOK

LEMMA InvNoLeak == IInv => NoLeak
<1> SUFFICES ASSUME IInv PROVE NoLeak
  OBVIOUS
<1>1. PICK C, F : Client(heap, ptr, req, C, F)
  BY DEF IInv
<1>2. /\ State(heap, C, F)
      /\ \A j \in Ids : ptr[j] # NULL => Owned(heap, ptr[j], req[j], Fill[j], Held(C, F))
      /\ \A x \in Held(C, F) : \E j \in Ids : ptr[j] = x[1]
  BY <1>1, ClientFacts DEF Client
<1>3. /\ Blocks = C \ {heap.brk} /\ FreeBlocks = F /\ Frame(heap, C, F) /\ Cuts(C, heap.brk)
  BY <1>2, BlocksAre, StateFacts
<1>4. ASSUME NEW b \in Blocks \ FreeBlocks PROVE \E j \in Live : ptr[j] = b
  <2>1. b \in C /\ b # heap.brk /\ b \notin F
    BY <1>3
  <2>2. PICK c \in C : Follows(C, b, c)
    BY <1>3, <2>1, SuccessorExists
  <2>3. <<b, c>> \in Held(C, F) /\ <<b, c>>[1] = b
    BY <2>1, <2>2 DEF Held
  <2>4. PICK j \in Ids : ptr[j] = b
    BY <1>2, <2>3
  <2>5. b # NULL
    <3>1. b \in Nat /\ 48 <= b
      BY <1>3, <2>1, FrameFacts
    <3> QED BY <3>1 DEF NULL
  <2> QED BY <2>4, <2>5 DEF Live
<1>5. ASSUME NEW j \in Live PROVE ptr[j] \in Blocks \ FreeBlocks
  <2>1. PICK e : <<ptr[j], e>> \in Held(C, F)
    BY <1>2 DEF Live, Owned
  <2>2. ptr[j] \in C /\ ptr[j] # heap.brk /\ ptr[j] \notin F
    BY <1>2, <2>1, HeldFacts
  <2> QED BY <1>3, <2>2
<1> QED BY <1>4, <1>5 DEF NoLeak

\* Memory, pointers and sizes stay within their ranges, and what the client and
\* free_listp point to are blocks (mm.c:100-112).
THEOREM TypesHold ==
  ASSUME ModerateSizes
  PROVE  Spec => []TypeOK
BY HeapInOrder, InvTypeOK, PTL

\* The heap can be walked along headers and along footers, whatever calls have
\* split and merged in it (mm.c:57-74, 119-138, 237-253).
THEOREM HeapTiled ==
  ASSUME ModerateSizes
  PROVE  Spec => []Tiled
<1>1. IInv => Tiled
  BY StateIsTiled DEF IInv, Client
<1> QED BY <1>1, HeapInOrder, PTL

\* No insertion or removal, from whichever place in the list, loses a free block,
\* keeps one that is not free, or leaves a pointer behind (mm.c:310-327).
THEOREM ListExact ==
  ASSUME ModerateSizes
  PROVE  Spec => []FreeListExact
<1>1. IInv => FreeListExact
  BY StateIsListed DEF IInv, Client
<1> QED BY <1>1, HeapInOrder, PTL

\* Free neighbours never stay apart (mm.c:167-205).
THEOREM NeighboursMerged ==
  ASSUME ModerateSizes
  PROVE  Spec => []Coalesced
<1>1. IInv => Coalesced
  BY StateIsCoalesced DEF IInv, Client
<1> QED BY <1>1, HeapInOrder, PTL

\* The allocated blocks are those that the client holds (mm.c:153-164, 256-307).
THEOREM NothingLost ==
  ASSUME ModerateSizes
  PROVE  Spec => []NoLeak
BY HeapInOrder, InvNoLeak, PTL

\* A request is refused only when no free block has room for it (mm.c:140-150,
\* 220-229).
THEOREM RefusedOnlyWhenFull ==
  ASSUME ModerateSizes
  PROVE  Spec => []FailsOnlyWhenFull
<1>1. IInv => FailsOnlyWhenFull
  <2> SUFFICES ASSUME IInv, NEW size \in Sizes \ {0}, mm_malloc(heap, size).bp = NULL
               PROVE  \A bp \in FreeBlocks : Size(bp) < AdjustedSize(size)
    BY DEF FailsOnlyWhenFull
  <2>1. PICK C, F : State(heap, C, F)
    BY DEF IInv, Client
  <2>2. Moderate(size) /\ size # 0
    BY DEF ModerateSizes
  <2> QED BY <2>1, <2>2, StateFindsRoom
<1> QED BY <1>1, HeapInOrder, PTL
-----------------------------------------------------------------------------
(* The package implements AllocSpec.                                       *)

\* No block of n bytes at b meets the other blocks.
LEMMA ClientLayout ==
  ASSUME NEW h, NEW p, NEW q, NEW C, NEW F, Client(h, p, q, C, F), NEW i \in Ids, p[i] # NULL
  PROVE  /\ p[i] \in Nat /\ p[i] > 0 /\ p[i] % 8 = 0 /\ p[i] + q[i] <= MaxHeap
         /\ \A j \in Ids \ {i} :
              p[j] # NULL => p[i] + q[i] <= p[j] \/ p[j] + q[j] <= p[i]
<1>1. /\ State(h, C, F) /\ q \in [Ids -> Nat] /\ MaxHeap \in Nat
      /\ \A j \in Ids : p[j] # NULL => Owned(h, p[j], q[j], Fill[j], Held(C, F))
      /\ \A j, k \in Ids : p[j] = p[k] /\ p[j] # NULL => j = k
  BY ClientFacts, MMHeapAssumption DEF Client
<1>2. ASSUME NEW j \in Ids, p[j] # NULL
      PROVE  \E e \in Nat : /\ <<p[j], e>> \in Held(C, F) /\ p[j] + q[j] + 8 <= e
                            /\ p[j] \in Nat /\ 48 <= p[j] /\ p[j] % 8 = 0
                            /\ e <= MaxHeap /\ q[j] \in Nat
  <2>1. PICK e : <<p[j], e>> \in Held(C, F) /\ p[j] + q[j] + 8 <= e
    BY <1>1, <1>2 DEF Owned
  <2>2. e \in Nat /\ p[j] \in Nat /\ 48 <= p[j] /\ p[j] % 8 = 0
    BY <1>1, <2>1, HeldFacts
  <2>3. e <= h.brk /\ h.brk <= MaxHeap /\ h.brk \in Nat
    BY <1>1, <2>1, HeldFacts
  <2>4. e <= MaxHeap /\ q[j] \in Nat
    BY <1>1, <2>2, <2>3
  <2> QED BY <2>1, <2>2, <2>4
<1>3. PICK e \in Nat : /\ <<p[i], e>> \in Held(C, F) /\ p[i] + q[i] + 8 <= e
                       /\ p[i] \in Nat /\ 48 <= p[i] /\ p[i] % 8 = 0
                       /\ e <= MaxHeap /\ q[i] \in Nat
  BY <1>2
<1>4. ASSUME NEW j \in Ids \ {i}, p[j] # NULL
      PROVE  p[i] + q[i] <= p[j] \/ p[j] + q[j] <= p[i]
  <2>1. PICK d \in Nat : /\ <<p[j], d>> \in Held(C, F) /\ p[j] + q[j] + 8 <= d
                         /\ p[j] \in Nat /\ q[j] \in Nat
    BY <1>2, <1>4
  <2>2. p[i] # p[j]
    BY <1>1
  <2>3. d <= p[i] \/ e <= p[j]
    BY <1>1, <1>3, <2>1, <2>2, HeldApart
  <2> QED BY <1>3, <2>1, <2>3
<1> QED BY <1>1, <1>3, <1>4

LEMMA ClientIntact ==
  ASSUME NEW h, NEW p, NEW q, NEW C, NEW F, Client(h, p, q, C, F), NEW j \in Ids, p[j] # NULL
  PROVE  \A a \in WordsOf(p[j], q[j]) : h.mem[a] = Fill[j]
<1> SUFFICES ASSUME NEW a \in WordsOf(p[j], q[j]) PROVE h.mem[a] = Fill[j]
  OBVIOUS
<1>1. /\ p[j] \in Nat /\ q[j] \in Nat
      /\ Owned(h, p[j], q[j], Fill[j], Held(C, F))
  BY ClientFacts
<1>2. PICK k \in Nat : 4 * k < q[j] /\ a = p[j] + 4 * k
  BY <1>1, WordsOfFact
<1> QED BY <1>1, <1>2 DEF Owned

LEMMA InvIntact ==
  /\ IInv => \A j \in Ids : Intact(j) = TRUE
  /\ IInv' => \A j \in Ids : Intact(j)' = TRUE
<1>1. ASSUME IInv, NEW j \in Ids PROVE Intact(j) = TRUE
  <2>1. Intact(j) \in BOOLEAN
    BY DEF Intact
  <2>2. Intact(j)
    BY <1>1, ClientIntact DEF IInv, Intact
  <2> QED BY <2>1, <2>2
<1>2. ASSUME IInv', NEW j \in Ids PROVE Intact(j)' = TRUE
  <2>1. Intact(j)' \in BOOLEAN
    BY DEF Intact
  <2>2. Intact(j)'
    BY <1>2, ClientIntact DEF IInv, Intact
  <2> QED BY <2>1, <2>2
<1> QED BY <1>1, <1>2

LEMMA IntactStays ==
  ASSUME IInv, IInv'
  PROVE  [j \in Ids |-> Intact(j)]' = [j \in Ids |-> Intact(j)]
<1>1. \A j \in Ids : Intact(j) = TRUE /\ Intact(j)' = TRUE
  BY InvIntact
<1>2. [j \in Ids |-> Intact(j)] = [j \in Ids |-> TRUE]
  BY <1>1
<1>3. [j \in Ids |-> Intact(j)]' = [j \in Ids |-> TRUE]
  BY <1>1
<1> QED BY <1>2, <1>3

\* Seen from AllocSpec, a call gives id a payload or takes what it had.
LEMMA CallImplements ==
  ASSUME IInv, IInv', NEW id \in Ids, NEW r, NEW size \in Sizes, size # 0 \/ r.bp = NULL,
         Takes(id, r, size)
  PROVE  Alloc!Next
<1>1. /\ ptr' = [ptr EXCEPT ![id] = r.bp]
      /\ req' = [req EXCEPT ![id] = IF r.bp = NULL THEN 0 ELSE size]
  BY DEF Takes
<1>2. ptr \in [Ids -> Nat] /\ req \in [Ids -> Nat]
  BY ClientFacts DEF IInv
<1>4. [j \in Ids |-> Intact(j)]' = [j \in Ids |-> Intact(j)]
  BY IntactStays
<1>5. CASE r.bp = NULL
  <2>1. Alloc!Release({id})
    BY <1>1, <1>2, <1>4, <1>5 DEF Alloc!Release, NULL
  <2> QED BY <2>1 DEF Alloc!Next
<1>6. CASE r.bp # NULL
  <2>1. ptr'[id] = r.bp /\ req'[id] = size
    BY <1>1, <1>2, <1>6
  <2>2. \A j \in Ids \ {id} : ptr'[j] = ptr[j] /\ req'[j] = req[j]
    BY <1>1, <1>2
  <2>3. /\ r.bp \in Nat /\ r.bp > 0 /\ r.bp % 8 = 0 /\ r.bp + size <= MaxHeap
        /\ \A j \in Ids \ {id} : ptr[j] # NULL =>
             r.bp + size <= ptr[j] \/ ptr[j] + req[j] <= r.bp
    <3>1. PICK D, E : Client(heap', ptr', req', D, E)
      BY DEF IInv
    <3>2. ptr'[id] # NULL
      BY <2>1, <1>6
    <3>3. /\ ptr'[id] \in Nat /\ ptr'[id] > 0 /\ ptr'[id] % 8 = 0 /\ ptr'[id] + req'[id] <= MaxHeap
          /\ \A j \in Ids \ {id} : ptr'[j] # NULL =>
               ptr'[id] + req'[id] <= ptr'[j] \/ ptr'[j] + req'[j] <= ptr'[id]
      BY <3>1, <3>2, ClientLayout
    <3> QED BY <2>1, <2>2, <3>3
  <2>4. size \in Nat /\ size > 0 /\ MaxHeap \in Nat
    BY <1>6, SizesAreNat, MMHeapAssumption
  <2>5. Alloc!Gets(id, r.bp, size)
    BY <1>1, <1>4, <1>6 DEF Alloc!Gets
  <2>6. Alloc!Fits(id, r.bp, size)
    BY <2>3 DEF Alloc!Fits, ALIGNMENT, NULL
  <2>7. r.bp \in 1 .. MaxHeap
    BY <2>3, <2>4
  <2>8. Alloc!Allocate(id, size)
    BY <2>4, <2>5, <2>6, <2>7 DEF Alloc!Allocate
  <2> QED BY <2>8 DEF Alloc!Next
<1> QED BY <1>5, <1>6

LEMMA InitImplements == Init => Alloc!Init
<1> SUFFICES ASSUME Init PROVE Alloc!Init
  OBVIOUS
<1>1. IInv
  BY InitInv
<1>2. \A j \in Ids : Intact(j) = TRUE
  BY <1>1, InvIntact
<1>3. [j \in Ids |-> Intact(j)] = [j \in Ids |-> TRUE]
  BY <1>2
<1> QED BY <1>3 DEF Init, Alloc!Init, NULL

LEMMA StepImplements ==
  ASSUME ModerateSizes, IInv, IInv', [Next]_vars
  PROVE  [Alloc!Next]_(Alloc!vars)
<1>1. [j \in Ids |-> Intact(j)]' = [j \in Ids |-> Intact(j)]
  BY IntactStays
<1>2. ASSUME NEW id \in Ids, NEW size \in Sizes, Malloc(id, size) PROVE Alloc!Next
  <2> DEFINE r == mm_malloc(heap, size)
  <2>1. Takes(id, r, size)
    BY <1>2 DEF Malloc
  <2>2. size = 0 => r.bp = NULL
    BY DEF mm_malloc
  <2> HIDE DEF r
  <2> QED BY <2>1, <2>2, CallImplements
<1>3. ASSUME NEW id \in Ids, NEW size \in Sizes, Realloc(id, size)
      PROVE  Alloc!Next \/ UNCHANGED <<ptr, req>>
  <2> DEFINE r == mm_realloc(heap, ptr[id], size)
  <2>1. size = 0 => r.bp = NULL
    BY DEF mm_realloc
  <2>2. CASE r.bp = NULL /\ size # 0
    BY <1>3, <2>2 DEF Realloc
  <2>3. CASE ~ (r.bp = NULL /\ size # 0)
    <3>1. Takes(id, r, size)
      BY <1>3, <2>3 DEF Realloc
    <3> HIDE DEF r
    <3>2. size # 0 \/ r.bp = NULL
      BY <2>1
    <3> QED BY <3>1, <3>2, CallImplements
  <2> QED BY <2>2, <2>3
<1>4. ASSUME NEW id \in Ids, Free(id) PROVE Alloc!Next
  <2>1. ptr \in [Ids -> Nat] /\ req \in [Ids -> Nat]
    BY ClientFacts DEF IInv
  <2>2. Alloc!Release({id})
    BY <1>1, <1>4, <2>1 DEF Free, Alloc!Release, NULL
  <2> QED BY <2>2 DEF Alloc!Next
<1>5. CASE Reset
  <2>1. Alloc!Release(Ids)
    BY <1>1, <1>5 DEF Reset, Alloc!Release, NULL
  <2> QED BY <2>1 DEF Alloc!Next
<1>6. CASE UNCHANGED vars
  BY <1>1, <1>6 DEF vars, Alloc!vars
<1>7. UNCHANGED <<ptr, req>> => UNCHANGED Alloc!vars
  BY <1>1 DEF Alloc!vars
<1> QED BY <1>2, <1>3, <1>4, <1>5, <1>6, <1>7 DEF Next

\* Whatever the client asks for and wherever the package puts it, payloads are
\* aligned, in the heap and apart, and what the client wrote into a block stays
\* until it frees the block, also when a realloc moves it (mm.c:207-307).
THEOREM AllocatorCorrect ==
  ASSUME ModerateSizes
  PROVE  Spec => ImplementsAlloc
<1>1. Init => Alloc!Init
  BY InitImplements
<1>2. IInv /\ IInv' /\ [Next]_vars => [Alloc!Next]_(Alloc!vars)
  BY StepImplements
<1> QED BY <1>1, <1>2, HeapInOrder, PTL DEF Spec, ImplementsAlloc, Alloc!Spec
=============================================================================
