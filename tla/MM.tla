--------------------------------- MODULE MM ---------------------------------
(***************************************************************************)
(* A client of the allocator of lab 6: a program, or the driver mdriver.c, *)
(* that calls mm_malloc, mm_realloc and mm_free as their contract allows,  *)
(* fills each block it gets, and starts over with mem_reset_brk and        *)
(* mm_init on the memory of its earlier run.                               *)
(***************************************************************************)
EXTENDS MMHeap, FiniteSets

CONSTANTS Ids,       \* the blocks of the client
          Sizes,     \* the sizes it asks for, in bytes
          Fill,      \* what it writes into the words of each block
          MaxResets  \* bound on the number of times it starts over

ASSUME MMAssumption ==
  /\ Fill \in [Ids -> Nat] /\ Sizes \subseteq 0 .. WordLimit - 1
  /\ MaxResets \in Nat

VARIABLES heap,   \* the memory, mem_brk and free_listp
          ptr,    \* the blocks of the client, NULL when it has none
          req,    \* and their sizes
          resets

vars == <<heap, ptr, req, resets>>

Live == {id \in Ids : ptr[id] # NULL}

Init ==
  /\ heap = mm_init(mem_init)
  /\ ptr = [id \in Ids |-> NULL] /\ req = [id \in Ids |-> 0] /\ resets = 0

\* The client takes what a call returned, and fills what it has not filled yet.
Takes(id, r, size) ==
  LET kept == IF size < req[id] THEN size ELSE req[id]
  IN  /\ heap' = IF r.bp = NULL THEN r.heap
                 ELSE memset(r.heap, WordsOf(r.bp, size) \ WordsOf(r.bp, kept), Fill[id])
      /\ ptr'  = [ptr EXCEPT ![id] = r.bp]
      /\ req'  = [req EXCEPT ![id] = IF r.bp = NULL THEN 0 ELSE size]
      /\ UNCHANGED resets

Malloc(id, size) ==
  ptr[id] = NULL /\ Takes(id, mm_malloc(heap, size), size)

\* A realloc that fails leaves the block to the client.
Realloc(id, size) ==
  LET r == mm_realloc(heap, ptr[id], size)
  IN  IF r.bp = NULL /\ size # 0 THEN heap' = r.heap /\ UNCHANGED <<ptr, req, resets>>
                                 ELSE Takes(id, r, size)

Free(id) ==
  /\ heap' = mm_free(heap, ptr[id])
  /\ ptr'  = [ptr EXCEPT ![id] = NULL] /\ req' = [req EXCEPT ![id] = 0]
  /\ UNCHANGED resets

Reset ==
  /\ resets < MaxResets /\ resets' = resets + 1
  /\ heap' = mm_init(mem_reset_brk(heap))
  /\ ptr'  = [id \in Ids |-> NULL] /\ req' = [id \in Ids |-> 0]

Next ==
  \/ \E id \in Ids, size \in Sizes : Malloc(id, size) \/ Realloc(id, size)
  \/ \E id \in Ids : Free(id)
  \/ Reset

Spec == Init /\ [][Next]_vars
-----------------------------------------------------------------------------
(* The blocks as the tags describe them.                                   *)

Size(bp)   == GET_SIZE(heap, HDRP(bp))
IsFree(bp) == GET_ALLOC(heap, HDRP(bp)) = 0

\* The payloads from the prologue on, as far as headers lead on.
Blocks ==
  LET from[bp \in Nat] ==
        IF bp \notin Word \ {0} \/ bp >= heap.brk \/ Size(bp) < MINIMUM THEN {}
        ELSE {bp} \cup from[NEXT_BLKP(heap, bp)]
  IN  from[First]

FreeBlocks == {bp \in Blocks : IsFree(bp)}

TypeOK ==
  /\ heap.mem \in [Word -> Int] /\ heap.brk \in 0 .. MaxHeap
  /\ heap.free \in {Prologue} \cup Blocks
  /\ ptr \in [Ids -> {NULL} \cup Blocks] /\ req \in [Ids -> Sizes \cup {0}]
  /\ resets \in 0 .. MaxResets

\* The blocks tile the heap from the prologue to the epilogue; each is aligned
\* and its footer agrees with its header, so that the heap can be walked in both
\* directions (mm.c:57-74, 119-138, 237-253).
Tiled ==
  /\ heap.brk \in {NEXT_BLKP(heap, bp) : bp \in Blocks}
  /\ heap.mem[HDRP(heap.brk)] = PACK(0, 1)
  /\ \A bp \in Blocks :
       bp % ALIGNMENT = 0 /\ heap.mem[FTRP(heap, bp)] = heap.mem[HDRP(bp)]

\* The free list holds the free blocks, each once, and each element finds the
\* one before it (mm.c:310-327).
FreeListExact ==
  LET n == Cardinality(FreeBlocks)
  IN  \E list \in [1 .. n -> FreeBlocks] :
        /\ {list[k] : k \in 1 .. n} = FreeBlocks
        /\ heap.free = IF n = 0 THEN Prologue ELSE list[1]
        /\ \A k \in 1 .. n :
             /\ NEXT_FREE(heap, list[k]) = IF k = n THEN Prologue ELSE list[k + 1]
             /\ PREV_FREE(heap, list[k]) = IF k = 1 THEN NULL ELSE list[k - 1]

\* No two free blocks are neighbours: memory that is free together can be given
\* out together (mm.c:167-205).
Coalesced == \A bp \in FreeBlocks : ~ IsFree(NEXT_BLKP(heap, bp))

\* No block is lost: the allocated blocks are those the client holds, so when it
\* has freed all of them the heap is one free block (mm.c:153-164, 256-307).
NoLeak == Blocks \ FreeBlocks = {ptr[id] : id \in Live}

\* A request fails only when no free block is large enough for it: the search
\* from free_listp to the prologue misses none (mm.c:140-150, 220-229).
FailsOnlyWhenFull ==
  \A size \in Sizes \ {0} :
    mm_malloc(heap, size).bp = NULL =>
      \A bp \in FreeBlocks : Size(bp) < AdjustedSize(size)

\* The block holds what the client wrote there.
Intact(id) ==
  ptr[id] # NULL => \A a \in WordsOf(ptr[id], req[id]) : heap.mem[a] = Fill[id]

Alloc == INSTANCE AllocSpec WITH
           intact <- [id \in Ids |-> Intact(id)], Alignment <- ALIGNMENT

\* The package implements AllocSpec: payloads are aligned, in the heap and apart
\* from one another, and no call, on whichever block, changes what the client
\* wrote into a block it holds, also when the block moves (mm.c:207-307).
ImplementsAlloc == Alloc!Spec
=============================================================================
