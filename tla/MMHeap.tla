------------------------------- MODULE MMHeap -------------------------------
(***************************************************************************)
(* The dynamic storage allocator of lab 6 (mm.c) on the simulated heap of  *)
(* memlib.c, as functions from a heap to a heap.                           *)
(*                                                                         *)
(* A heap h is a record: h.mem maps the address of each 4-byte word to its *)
(* value, h.brk is mem_brk and h.free is free_listp.  Addresses are offsets*)
(* from mem_start_brk, in bytes; NULL is 0.  A block starts at a payload   *)
(* pointer bp; its header, one word before bp, and its footer, its last    *)
(* word but one, hold its size and whether it is allocated.  A free block  *)
(* keeps the free-list pointers, two words each, at bp and bp + 8.         *)
(***************************************************************************)
EXTENDS Integers

CONSTANTS MaxHeap,   \* MAX_HEAP, the bytes the heap can grow to
          WordLimit  \* a uint32_t is below it, 2^32 in the code

ASSUME MMHeapAssumption ==
  /\ MaxHeap \in Nat /\ MaxHeap % 4 = 0 /\ MaxHeap >= 72
  /\ WordLimit \in Nat /\ WordLimit % 16 = 0 /\ WordLimit \div 2 > MaxHeap

ALIGNMENT == 8
WSIZE     == 4
DSIZE     == 8
CHUNKSIZE == 16
MINIMUM   == 24
NULL      == 0

Word == {4 * k : k \in 0 .. (MaxHeap \div 4) - 1}   \* addresses of words

Prologue == 8    \* heap_listp + DSIZE
First    == 48   \* the payload of the first block behind the prologue
-----------------------------------------------------------------------------
(* Arithmetic of uint32_t and int.                                         *)

uint32(n) == n % WordLimit
int(n)    == IF n >= WordLimit \div 2 THEN n - WordLimit ELSE n

ALIGN(n)  == LET m == uint32(n + 7) IN m - (m % 8)
MAX(x, y) == IF x > y THEN x ELSE y

\* The size of the block for a request of size bytes.
AdjustedSize(size) == MAX(int(uint32(ALIGN(size) + DSIZE)), MINIMUM)
-----------------------------------------------------------------------------
(* Reading and writing the heap.                                           *)

PACK(size, alloc)  == size + alloc
GET_SIZE(h, p)     == h.mem[p] - (h.mem[p] % 8)
GET_ALLOC(h, p)    == h.mem[p] % 2
PUT(h, p, val)     == [h EXCEPT !.mem[p] = val]

HDRP(bp)           == bp - WSIZE
FTRP(h, bp)        == bp + GET_SIZE(h, HDRP(bp)) - DSIZE
NEXT_BLKP(h, bp)   == bp + GET_SIZE(h, bp - WSIZE)
PREV_BLKP(h, bp)   == bp - GET_SIZE(h, bp - DSIZE)

NEXT_FREE(h, bp)   == h.mem[bp + DSIZE]
PREV_FREE(h, bp)   == h.mem[bp]

\* Header and footer; the footer is where the new size puts it.
PutTags(h, bp, size, alloc) ==
  [h EXCEPT !.mem[HDRP(bp)] = PACK(size, alloc),
            !.mem[bp + size - DSIZE] = PACK(size, alloc)]

\* A pointer fills two words.
PutPointer(h, p, bp) == [h EXCEPT !.mem[p] = bp, !.mem[p + WSIZE] = 0]

\* The words that n bytes from p on occupy.
WordsOf(p, n) == {p + 4 * k : k \in 0 .. ((n + 3) \div 4) - 1}

memset(h, words, val) ==
  [h EXCEPT !.mem = [a \in Word |-> IF a \in words THEN val ELSE h.mem[a]]]

memcpy(h, dst, src, n) ==
  [h EXCEPT !.mem = [a \in Word |-> IF a \in WordsOf(dst, n) THEN h.mem[src + (a - dst)]
                                                              ELSE h.mem[a]]]
-----------------------------------------------------------------------------
(* The free list: last in, first out, ended by the prologue.               *)

insertBlock(h, bp) ==
  LET h1 == PutPointer(h, bp + DSIZE, h.free)
      h2 == PutPointer(h1, h.free, bp)
      h3 == PutPointer(h2, bp, NULL)
  IN  [h3 EXCEPT !.free = bp]

\* Fault: the next block still points back to bp.
removeBlock_OneWay(h, bp) ==
  IF PREV_FREE(h, bp) # NULL
    THEN PutPointer(h, PREV_FREE(h, bp) + DSIZE, NEXT_FREE(h, bp))
    ELSE [h EXCEPT !.free = NEXT_FREE(h, bp)]

\* Fault: the head becomes what was before bp.
removeBlock_Swapped(h, bp) == [h EXCEPT !.free = PREV_FREE(h, bp)]

removeBlock(h, bp) ==
  LET prev == PREV_FREE(h, bp)
      next == NEXT_FREE(h, bp)
      h1   == IF prev # NULL THEN PutPointer(h, prev + DSIZE, next)
                             ELSE [h EXCEPT !.free = next]
  IN  PutPointer(h1, next, prev)

\* Fault: a block that fits exactly is passed over.
find_fit_Strict(h, asize) ==
  LET from[bp \in Word] ==
        IF GET_ALLOC(h, HDRP(bp)) = 1 THEN NULL
        ELSE IF asize < GET_SIZE(h, HDRP(bp)) THEN bp
        ELSE IF NEXT_FREE(h, bp) \notin Word THEN NULL ELSE from[NEXT_FREE(h, bp)]
  IN  from[h.free]

\* The first free block on the list that is large enough. (That the list stays in
\* the heap is what FreeListExact says; where it does not, the search ends.)
find_fit(h, asize) ==
  LET from[bp \in Word] ==
        IF GET_ALLOC(h, HDRP(bp)) = 1 THEN NULL
        ELSE IF asize <= GET_SIZE(h, HDRP(bp)) THEN bp
        ELSE IF NEXT_FREE(h, bp) \notin Word THEN NULL ELSE from[NEXT_FREE(h, bp)]
  IN  from[h.free]
-----------------------------------------------------------------------------
(* Blocks.  An operator that returns a pointer too returns [heap, bp].     *)

\* Fault: a free block in front is not looked for.
JoinsPrev_Never(h, bp) == FALSE

\* A block that finds itself as its predecessor is the first one.
JoinsPrev(h, bp) ==
  GET_ALLOC(h, FTRP(h, PREV_BLKP(h, bp))) = 0 /\ PREV_BLKP(h, bp) # bp

\* Merges the free block bp with its free neighbours and puts it on the list.
coalesce(h, bp) ==
  LET prev     == PREV_BLKP(h, bp)
      next     == NEXT_BLKP(h, bp)
      joinPrev == JoinsPrev(h, bp)
      joinNext == GET_ALLOC(h, HDRP(next)) = 0
      h1       == IF joinPrev THEN removeBlock(h, prev) ELSE h
      h2       == IF joinNext THEN removeBlock(h1, next) ELSE h1
      start    == IF joinPrev THEN prev ELSE bp
      end      == IF joinNext THEN NEXT_BLKP(h, next) ELSE next
      h3       == IF joinPrev \/ joinNext THEN PutTags(h2, start, end - start, 0) ELSE h2
  IN  [heap |-> insertBlock(h3, start), bp |-> start]

mem_sbrk(h, incr) ==
  IF int(incr) < 0 \/ h.brk + incr > MaxHeap
    THEN [heap |-> h, bp |-> NULL]
    ELSE [heap |-> [h EXCEPT !.brk = h.brk + incr], bp |-> h.brk]

extend_heap(h, words) ==
  LET asize == MAX(4 * (words + (words % 2)), MINIMUM)
      s     == mem_sbrk(h, asize)
      h1    == PutTags(s.heap, s.bp, asize, 0)
  IN  IF s.bp = NULL THEN s
      ELSE coalesce(PUT(h1, HDRP(NEXT_BLKP(h1, s.bp)), PACK(0, 1)), s.bp)

\* Fault: the allocated part of a block that is split gets no footer.
place_NoFooter(h, bp, asize) ==
  LET csize == GET_SIZE(h, HDRP(bp))
      h1    == removeBlock(PUT(h, HDRP(bp), PACK(asize, 1)), bp)
  IN  IF csize - asize >= MINIMUM
        THEN coalesce(PutTags(h1, bp + asize, csize - asize, 0), bp + asize).heap
        ELSE removeBlock(PutTags(h, bp, csize, 1), bp)

place(h, bp, asize) ==
  LET csize == GET_SIZE(h, HDRP(bp))
      h1    == removeBlock(PutTags(h, bp, asize, 1), bp)
  IN  IF csize - asize >= MINIMUM
        THEN coalesce(PutTags(h1, bp + asize, csize - asize, 0), bp + asize).heap
        ELSE removeBlock(PutTags(h, bp, csize, 1), bp)

mm_malloc(h, size) ==
  LET asize == AdjustedSize(size)
      bp    == find_fit(h, asize)
      more  == extend_heap(h, MAX(asize, CHUNKSIZE) \div WSIZE)
      found == IF bp # NULL THEN [heap |-> h, bp |-> bp] ELSE more
  IN  IF size = 0 \/ found.bp = NULL THEN [heap |-> h, bp |-> NULL]
      ELSE [heap |-> place(found.heap, found.bp, asize), bp |-> found.bp]

mm_free(h, bp) ==
  IF bp = NULL THEN h
  ELSE coalesce(PutTags(h, bp, GET_SIZE(h, HDRP(bp)), 0), bp).heap

\* Faults: the old block is not freed; it is freed before it is copied.
Moved_KeepsOld(h, new, bp, n) == memcpy(h, new, bp, n)
Moved_FreesFirst(h, new, bp, n) == memcpy(mm_free(h, bp), new, bp, n)

\* The contents of bp move to new.
Moved(h, new, bp, n) == mm_free(memcpy(h, new, bp, n), bp)

\* Shrinking splits off and frees the rest when it is larger than a minimal
\* block; growing allocates anew, copies and frees the old block.
mm_realloc(h, bp, size) ==
  LET asize   == AdjustedSize(size)
      oldsize == GET_SIZE(h, HDRP(bp))
      rest    == oldsize - asize
      h1      == PUT(PutTags(h, bp, asize, 1), HDRP(bp + asize), PACK(rest, 1))
      new     == mm_malloc(h, size)
      n       == IF size < oldsize THEN size ELSE oldsize
  IN  IF size = 0 THEN [heap |-> mm_free(h, bp), bp |-> NULL]
      ELSE IF bp = NULL \/ (asize > oldsize /\ new.bp = NULL) THEN new
      ELSE IF asize > oldsize
        THEN [heap |-> Moved(new.heap, new.bp, bp, n), bp |-> new.bp]
      ELSE IF rest <= MINIMUM THEN [heap |-> h, bp |-> bp]
      ELSE [heap |-> mm_free(h1, bp + asize), bp |-> bp]

mem_init         == [mem |-> [a \in Word |-> 0], brk |-> 0, free |-> NULL]
mem_reset_brk(h) == [h EXCEPT !.brk = 0]

\* On an empty heap, whose memory may hold what an earlier use left there.  It
\* has room for this: mem_sbrk does not fail.
mm_init(h) ==
  LET h1 == [h EXCEPT !.brk = 2 * MINIMUM, !.free = Prologue,
                      !.mem[0] = 0,
                      !.mem[WSIZE] = PACK(MINIMUM, 1),
                      !.mem[DSIZE] = 0, !.mem[DSIZE + WSIZE] = 0,
                      !.mem[MINIMUM] = PACK(MINIMUM, 1),
                      !.mem[WSIZE + MINIMUM] = PACK(0, 1)]
  IN  extend_heap(h1, CHUNKSIZE \div WSIZE).heap
=============================================================================
