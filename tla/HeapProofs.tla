----------------------------- MODULE HeapProofs -----------------------------
(***************************************************************************)
(* Every operation of the allocator keeps its heap in order, whatever the  *)
(* size of the heap and the blocks in it.                                  *)
(*                                                                         *)
(* A heap is described by two sets of addresses: C, where its blocks begin *)
(* and the end of the last, and F, the free ones among them.  Frame(h, C,  *)
(* F) says that the tags describe these blocks, Linked(h, L) that the free *)
(* list holds L, and State(h, C, F) that the heap is in order: framed, the *)
(* list holding F, and no two free blocks adjacent.  An operation takes a  *)
(* heap that C and F describe to one that some D and E describe; Held(C,   *)
(* F), the extents of the allocated blocks, says which blocks it gave or   *)
(* took, and SameData that the payloads of the others are the same.        *)
(***************************************************************************)
EXTENDS MMHeap, FiniteSetTheorems, WellFoundedInduction, TLAPS

Heap == [mem : [Word -> Int], brk : Int, free : Int]

LEMMA WordFact == \A a : a \in Word <=> a \in Nat /\ a % 4 = 0 /\ a < MaxHeap
<1>1. ASSUME NEW a, a \in Word PROVE a \in Nat /\ a % 4 = 0 /\ a < MaxHeap
  BY <1>1, MMHeapAssumption DEF Word
<1>2. ASSUME NEW a \in Nat, a % 4 = 0, a < MaxHeap PROVE a \in Word
  <2>1. a = 4 * (a \div 4) /\ a \div 4 \in 0 .. (MaxHeap \div 4) - 1
    BY <1>2, MMHeapAssumption
  <2> QED BY <2>1 DEF Word
<1> QED BY <1>1, <1>2

\* The natural numbers are well-ordered: induction without a predicate.
LEMMA LeastNat ==
  ASSUME NEW S \in SUBSET Nat, S # {}
  PROVE  \E m \in S : \A n \in S : m <= n
<1> DEFINE R == {ss \in Nat \X Nat : ss[1] < ss[2]}
<1>1. IsWellFoundedOn(R, Nat)
  BY NatLessThanWellFounded DEF OpToRel
<1>2. PICK x \in S : \A y \in S : ~ (<<y, x>> \in R)
  <2> HIDE DEF R
  <2> QED BY <1>1, WFMin
<1>3. \A y \in S : ~ (y < x)
  <2> SUFFICES ASSUME NEW y \in S, y < x PROVE FALSE
    OBVIOUS
  <2>1. <<y, x>> \in Nat \X Nat
    OBVIOUS
  <2>2. <<y, x>>[1] < <<y, x>>[2]
    OBVIOUS
  <2> QED BY <2>1, <2>2, <1>2
<1> QED BY <1>3
-----------------------------------------------------------------------------
(* What a write changes.                                                   *)

\* The heap g has the words of h, but for those in the set changed.
Keeps(g, h, changed) ==
  /\ g \in Heap /\ g.brk = h.brk
  /\ \A a \in Word \ changed : g.mem[a] = h.mem[a]

LEMMA PutFacts ==
  ASSUME NEW h \in Heap, NEW p \in Word, NEW v \in Int
  PROVE  LET g == PUT(h, p, v)
         IN Keeps(g, h, {p}) /\ g.mem[p] = v /\ g.free = h.free
BY DEF PUT, Keeps, Heap

LEMMA PutPointerFacts ==
  ASSUME NEW h \in Heap, NEW p \in Word, p + WSIZE \in Word, NEW v \in Int
  PROVE  LET g == PutPointer(h, p, v)
         IN Keeps(g, h, {p, p + 4}) /\ g.mem[p] = v /\ g.free = h.free
<1> DEFINE m == [h.mem EXCEPT ![p] = v, ![p + WSIZE] = 0]
           g == PutPointer(h, p, v)
<1>1. g = [h EXCEPT !.mem = m]
  BY DEF PutPointer, Heap
<1>2. p # p + WSIZE /\ p + WSIZE = p + 4
  BY WordFact DEF WSIZE
<1>3. m \in [Word -> Int] /\ m[p] = v /\ \A a \in Word \ {p, p + WSIZE} : m[a] = h.mem[a]
  BY <1>2 DEF Heap
<1>4. g.mem = m /\ g.brk = h.brk /\ g.free = h.free /\ g \in Heap
  BY <1>1, <1>3 DEF Heap
<1> QED BY <1>2, <1>3, <1>4 DEF Keeps

LEMMA PutTagsFacts ==
  ASSUME NEW h \in Heap, NEW bp \in Int, NEW size \in Int, NEW alloc \in {0, 1},
         bp - WSIZE \in Word, bp + size - DSIZE \in Word
  PROVE  LET g == PutTags(h, bp, size, alloc)
         IN  /\ Keeps(g, h, {bp - 4, bp + size - 8}) /\ g.free = h.free
             /\ g.mem[bp - 4] = size + alloc /\ g.mem[bp + size - 8] = size + alloc
<1> DEFINE m == [h.mem EXCEPT ![bp - WSIZE] = size + alloc, ![bp + size - DSIZE] = size + alloc]
           g == PutTags(h, bp, size, alloc)
<1>1. g = [h EXCEPT !.mem = m]
  BY DEF PutTags, PACK, HDRP, Heap
<1>2. bp - WSIZE = bp - 4 /\ bp + size - DSIZE = bp + size - 8
  BY DEF WSIZE, DSIZE
<1>3. /\ m \in [Word -> Int]
      /\ m[bp - WSIZE] = size + alloc /\ m[bp + size - DSIZE] = size + alloc
      /\ \A a \in Word \ {bp - WSIZE, bp + size - DSIZE} : m[a] = h.mem[a]
  BY DEF Heap
<1>4. g.mem = m /\ g.brk = h.brk /\ g.free = h.free /\ g \in Heap
  BY <1>1, <1>3 DEF Heap
<1> QED BY <1>2, <1>3, <1>4 DEF Keeps

LEMMA MemsetFacts ==
  ASSUME NEW h \in Heap, NEW words, NEW v \in Int
  PROVE  LET g == memset(h, words, v)
         IN  /\ Keeps(g, h, words) /\ g.free = h.free
             /\ \A a \in words \cap Word : g.mem[a] = v
BY DEF memset, Keeps, Heap

LEMMA KeepsTransitive ==
  ASSUME NEW f, NEW g, NEW h, NEW A, NEW B, Keeps(g, f, A), Keeps(h, g, B)
  PROVE  Keeps(h, f, A \cup B)
BY DEF Keeps
-----------------------------------------------------------------------------
(* The free list.                                                          *)

\* Blocks whose link words are apart.
Spaced(L) ==
  /\ \A x \in L : x \in Nat /\ x % 8 = 0 /\ First <= x /\ x + 16 <= MaxHeap
  /\ \A x, y \in L : x < y => x + 16 <= y

Links(L) == {a \in Word : \E x \in L \cup {Prologue} : x <= a /\ a < x + 16}

\* The list holds the blocks of L, each once, and is linked both ways.
LinkedAs(h, L, n, list) ==
  /\ n \in Nat /\ list \in [1 .. n -> L]
  /\ \A x \in L : \E k \in 1 .. n : list[k] = x
  /\ \A j, k \in 1 .. n : list[j] = list[k] => j = k
  /\ h.free = IF n = 0 THEN Prologue ELSE list[1]
  /\ \A k \in 1 .. n :
       /\ NEXT_FREE(h, list[k]) = IF k = n THEN Prologue ELSE list[k + 1]
       /\ PREV_FREE(h, list[k]) = IF k = 1 THEN NULL ELSE list[k - 1]

Linked(h, L) == \E n \in Nat : \E list \in [1 .. n -> L] : LinkedAs(h, L, n, list)

LEMMA LinkWordsFacts ==
  ASSUME NEW L, Spaced(L)
  PROVE  /\ \A x \in L \cup {Prologue} :
              /\ x \in Nat /\ x # NULL
              /\ x \in Word /\ x + 4 \in Word /\ x + 8 \in Word /\ x + 12 \in Word
         /\ \A x, y \in L \cup {Prologue} : x = y \/ x + 16 <= y \/ y + 16 <= x
<1>1. \A x \in L \cup {Prologue} : x \in Nat /\ x % 8 = 0 /\ 8 <= x /\ x + 16 <= MaxHeap
  BY MMHeapAssumption DEF Spaced, Prologue, First
<1>2. ASSUME NEW x \in L \cup {Prologue}
      PROVE  x \in Word /\ x + 4 \in Word /\ x + 8 \in Word /\ x + 12 \in Word
  BY <1>1, WordFact, MMHeapAssumption
<1>3. \A x, y \in L \cup {Prologue} : x < y => x + 16 <= y
  BY <1>1 DEF Spaced, Prologue, First
<1>4. \A x, y \in L \cup {Prologue} : x = y \/ x + 16 <= y \/ y + 16 <= x
  BY <1>1, <1>3
<1> QED BY <1>1, <1>2, <1>4 DEF NULL

\* Writes elsewhere do not touch the list.
LEMMA LinkedKept ==
  ASSUME NEW L, Spaced(L), NEW h \in Heap, Linked(h, L),
         NEW g, NEW A, Keeps(g, h, A), A \cap Links(L) = {}, g.free = h.free
  PROVE  Linked(g, L)
<1>0. PICK n \in Nat : \E list \in [1 .. n -> L] : LinkedAs(h, L, n, list)
  BY DEF Linked
<1>1. PICK list \in [1 .. n -> L] : LinkedAs(h, L, n, list)
  BY <1>0
<1>2. \A x \in L : g.mem[x] = h.mem[x] /\ g.mem[x + 8] = h.mem[x + 8]
  <2> SUFFICES ASSUME NEW x \in L
               PROVE  g.mem[x] = h.mem[x] /\ g.mem[x + 8] = h.mem[x + 8]
    OBVIOUS
  <2>1. x \in Word /\ x + 8 \in Word /\ x \in Nat
    BY LinkWordsFacts
  <2>2. x \in Links(L) /\ x + 8 \in Links(L)
    BY <2>1 DEF Links
  <2> QED BY <2>1, <2>2 DEF Keeps
<1>3. LinkedAs(g, L, n, list)
  BY <1>1, <1>2 DEF LinkedAs, NEXT_FREE, PREV_FREE, DSIZE
<1> QED BY <1>3 DEF Linked

LEMMA InsertLinked ==
  ASSUME NEW L, NEW bp, bp \notin L, Spaced(L \cup {bp}), NEW h \in Heap, Linked(h, L)
  PROVE  LET g == insertBlock(h, bp)
         IN  Linked(g, L \cup {bp}) /\ Keeps(g, h, Links(L \cup {bp}))
<1> DEFINE h1 == PutPointer(h, bp + DSIZE, h.free)
           h2 == PutPointer(h1, h.free, bp)
           h3 == PutPointer(h2, bp, NULL)
           g  == [h3 EXCEPT !.free = bp]
           M  == L \cup {bp}
<1>0. PICK n \in Nat : \E list \in [1 .. n -> L] : LinkedAs(h, L, n, list)
  BY DEF Linked
<1>1. PICK list \in [1 .. n -> L] : LinkedAs(h, L, n, list)
  BY <1>0
<1>2. /\ \A x \in M \cup {Prologue} :
              /\ x \in Nat /\ x # NULL
              /\ x \in Word /\ x + 4 \in Word /\ x + 8 \in Word /\ x + 12 \in Word
      /\ \A x, y \in M \cup {Prologue} : x = y \/ x + 16 <= y \/ y + 16 <= x
  BY LinkWordsFacts
<1>3. h.free \in M \cup {Prologue} /\ h.free # bp
  <2>1. n # 0 => list[1] \in L
    OBVIOUS
  <2>2. bp # Prologue
    BY DEF Spaced, Prologue, First
  <2> QED BY <1>1, <2>1, <2>2 DEF LinkedAs
<1>4. bp \in M \cup {Prologue} /\ L \subseteq M \cup {Prologue}
  OBVIOUS
<1>5. Keeps(h1, h, {bp + 8, bp + 12}) /\ h1.mem[bp + 8] = h.free
  <2>1. bp + 8 \in Word /\ bp + 8 + WSIZE \in Word /\ h.free \in Int /\ bp + 8 + 4 = bp + 12
    BY <1>2, <1>4 DEF DSIZE, WSIZE, Heap
  <2> QED BY <2>1, PutPointerFacts DEF DSIZE
<1>6. Keeps(h2, h1, {h.free, h.free + 4}) /\ h2.mem[h.free] = bp
  <2> HIDE DEF h1
  <2>1. h.free \in Word /\ h.free + WSIZE \in Word
    BY <1>2, <1>3 DEF WSIZE
  <2>2. bp \in Int
    BY <1>2, <1>4
  <2>3. h1 \in Heap
    BY <1>5 DEF Keeps
  <2> QED BY <2>1, <2>2, <2>3, <1>5, PutPointerFacts
<1>7. Keeps(h3, h2, {bp, bp + 4}) /\ h3.mem[bp] = NULL
  <2>1. bp \in Word /\ bp + WSIZE \in Word /\ NULL \in Int /\ h2 \in Heap
    BY <1>2, <1>4, <1>6 DEF WSIZE, Keeps, NULL
  <2> HIDE DEF h2
  <2> QED BY <2>1, PutPointerFacts
<1> HIDE DEF h1, h2, h3
<1>8. g \in Heap /\ g.mem = h3.mem /\ g.brk = h3.brk /\ g.free = bp
  <2>1. bp \in Int /\ h3 \in Heap
    BY <1>2, <1>4, <1>7 DEF Keeps
  <2> QED BY <2>1 DEF Heap
<1> HIDE DEF g
<1>9. Keeps(g, h, Links(M))
  <2>1. Keeps(h3, h, {bp + 8, bp + 12, h.free, h.free + 4, bp, bp + 4})
    BY <1>5, <1>6, <1>7 DEF Keeps
  <2>2. \A x \in M \cup {Prologue} : {x, x + 4, x + 8, x + 12} \subseteq Links(M)
    <3> SUFFICES ASSUME NEW x \in M \cup {Prologue}
                 PROVE  x \in Links(M) /\ x + 4 \in Links(M) /\ x + 8 \in Links(M)
                        /\ x + 12 \in Links(M)
      OBVIOUS
    <3> HIDE DEF M
    <3> QED BY <1>2 DEF Links
  <2>3. {bp + 8, bp + 12, h.free, h.free + 4, bp, bp + 4} \subseteq Links(M)
    BY <2>2, <1>3, <1>4
  <2> QED BY <2>1, <2>3, <1>8 DEF Keeps
<1>10. /\ g.mem[bp] = NULL /\ g.mem[bp + 8] = h.free /\ g.mem[h.free] = bp
       /\ \A x \in L : g.mem[x + 8] = h.mem[x + 8]
       /\ \A x \in L : x # h.free => g.mem[x] = h.mem[x]
  <2>1. bp \in Nat /\ h.free \in Nat /\ (bp + 16 <= h.free \/ h.free + 16 <= bp)
    BY <1>2, <1>3, <1>4
  <2>2. g.mem[bp] = NULL
    BY <1>7, <1>8
  <2>3. g.mem[bp + 8] = h.free
    <3>1. bp + 8 \in Word /\ bp + 8 \notin {h.free, h.free + 4} /\ bp + 8 \notin {bp, bp + 4}
      BY <2>1, <1>2, <1>4
    <3> QED BY <3>1, <1>5, <1>6, <1>7, <1>8 DEF Keeps
  <2>4. g.mem[h.free] = bp
    <3>1. h.free \in Word /\ h.free \notin {bp, bp + 4}
      BY <2>1, <1>2, <1>3
    <3> QED BY <3>1, <1>6, <1>7, <1>8 DEF Keeps
  <2>5. ASSUME NEW x \in L
        PROVE  /\ g.mem[x + 8] = h.mem[x + 8]
               /\ x # h.free => g.mem[x] = h.mem[x]
    <3>1. /\ x \in Nat /\ x \in Word /\ x + 8 \in Word /\ x # bp
          /\ bp + 16 <= x \/ x + 16 <= bp
          /\ x = h.free \/ h.free + 16 <= x \/ x + 16 <= h.free
      BY <1>2, <1>3, <1>4
    <3>2. /\ x + 8 \notin {bp + 8, bp + 12} /\ x + 8 \notin {h.free, h.free + 4}
          /\ x + 8 \notin {bp, bp + 4}
      BY <3>1, <2>1
    <3>3. x # h.free => /\ x \notin {bp + 8, bp + 12} /\ x \notin {h.free, h.free + 4}
                        /\ x \notin {bp, bp + 4}
      BY <3>1, <2>1
    <3> QED BY <3>1, <3>2, <3>3, <1>5, <1>6, <1>7, <1>8 DEF Keeps
  <2> QED BY <2>2, <2>3, <2>4, <2>5
<1>11. Linked(g, M)
  <2> DEFINE new == [k \in 1 .. n + 1 |-> IF k = 1 THEN bp ELSE list[k - 1]]
  <2>1. new \in [1 .. n + 1 -> M]
    OBVIOUS
  <2>2. new[1] = bp /\ \A k \in 1 .. n : new[k + 1] = list[k]
    OBVIOUS
  <2>3. \A k \in 1 .. n + 1 : k = 1 \/ (k - 1 \in 1 .. n /\ new[k] = list[k - 1])
    OBVIOUS
  <2> HIDE DEF new
  <2>4. \A x \in M : \E k \in 1 .. n + 1 : new[k] = x
    <3> SUFFICES ASSUME NEW x \in M PROVE \E k \in 1 .. n + 1 : new[k] = x
      OBVIOUS
    <3>1. CASE x = bp
      BY <3>1, <2>2
    <3>2. CASE x \in L
      <4>1. PICK k \in 1 .. n : list[k] = x
        BY <3>2, <1>1 DEF LinkedAs
      <4>2. k + 1 \in 1 .. n + 1 /\ new[k + 1] = x
        BY <4>1, <2>2
      <4> QED BY <4>2
    <3> QED BY <3>1, <3>2
  <2>5. \A j, k \in 1 .. n + 1 : new[j] = new[k] => j = k
    <3> SUFFICES ASSUME NEW j \in 1 .. n + 1, NEW k \in 1 .. n + 1, new[j] = new[k]
                 PROVE  j = k
      OBVIOUS
    <3>1. CASE j = 1 /\ k # 1
      BY <3>1, <2>2, <2>3
    <3>2. CASE j # 1 /\ k = 1
      BY <3>2, <2>2, <2>3
    <3>3. CASE j # 1 /\ k # 1
      <4>1. j - 1 = k - 1
        BY <3>3, <2>3, <1>1 DEF LinkedAs
      <4> QED BY <4>1
    <3> QED BY <3>1, <3>2, <3>3
  <2>6. ASSUME NEW k \in 1 .. n + 1
        PROVE  /\ g.mem[new[k] + 8] = IF k = n + 1 THEN Prologue ELSE new[k + 1]
               /\ g.mem[new[k]] = IF k = 1 THEN NULL ELSE new[k - 1]
    <3>1. CASE k = 1
      <4>1. h.free = IF n = 0 THEN Prologue ELSE new[2]
        BY <1>1, <2>2 DEF LinkedAs
      <4> QED BY <3>1, <4>1, <2>2, <1>10
    <3>2. CASE k # 1
      <4>1. k - 1 \in 1 .. n /\ new[k] = list[k - 1] /\ list[k - 1] \in L
        BY <3>2, <2>3
      <4>2. g.mem[new[k] + 8] = IF k - 1 = n THEN Prologue ELSE list[k]
        BY <4>1, <1>1, <1>10 DEF LinkedAs, NEXT_FREE, DSIZE
      <4>3. k - 1 # n => new[k + 1] = list[k]
        BY <4>1, <2>2
      <4>4. g.mem[new[k]] = new[k - 1]
        <5>1. CASE k = 2
          BY <5>1, <4>1, <2>2, <1>1, <1>10 DEF LinkedAs
        <5>2. CASE k # 2
          <6>1. 1 \in 1 .. n /\ list[k - 1] # list[1]
            BY <5>2, <4>1, <1>1 DEF LinkedAs
          <6>2. list[k - 1] # h.free
            BY <6>1, <1>1 DEF LinkedAs
          <6>3. h.mem[list[k - 1]] = list[k - 2]
            BY <5>2, <4>1, <1>1 DEF LinkedAs, PREV_FREE
          <6>4. new[k - 1] = list[k - 2]
            BY <5>2, <4>1, <2>3
          <6> QED BY <6>2, <6>3, <6>4, <4>1, <1>10
        <5> QED BY <5>1, <5>2
      <4> QED BY <3>2, <4>1, <4>2, <4>3, <4>4
    <3> QED BY <3>1, <3>2
  <2>7. LinkedAs(g, M, n + 1, new)
    BY <2>1, <2>2, <2>4, <2>5, <2>6, <1>8 DEF LinkedAs, NEXT_FREE, PREV_FREE, DSIZE
  <2> QED BY <2>1, <2>7 DEF Linked
<1> QED BY <1>9, <1>11 DEF insertBlock, g, h1, h2, h3

LEMMA RemoveLinked ==
  ASSUME NEW L, NEW bp \in L, Spaced(L), NEW h \in Heap, Linked(h, L)
  PROVE  LET g == removeBlock(h, bp)
         IN  Linked(g, L \ {bp}) /\ Keeps(g, h, Links(L \ {bp}))
<1> DEFINE prev == PREV_FREE(h, bp)
           next == NEXT_FREE(h, bp)
           h1   == IF prev # NULL THEN PutPointer(h, prev + DSIZE, next)
                                  ELSE [h EXCEPT !.free = next]
           g    == PutPointer(h1, next, prev)
           M    == L \ {bp}
<1>0. PICK n \in Nat : \E list \in [1 .. n -> L] : LinkedAs(h, L, n, list)
  BY DEF Linked
<1>1. PICK list \in [1 .. n -> L] : LinkedAs(h, L, n, list)
  BY <1>0
<1>2. PICK j \in 1 .. n : list[j] = bp
  BY <1>1 DEF LinkedAs
<1>3. /\ \A x \in L \cup {Prologue} :
              /\ x \in Nat /\ x # NULL
              /\ x \in Word /\ x + 4 \in Word /\ x + 8 \in Word /\ x + 12 \in Word
      /\ \A x, y \in L \cup {Prologue} : x = y \/ x + 16 <= y \/ y + 16 <= x
  BY LinkWordsFacts
<1>4. /\ prev = IF j = 1 THEN NULL ELSE list[j - 1]
      /\ next = IF j = n THEN Prologue ELSE list[j + 1]
  BY <1>1, <1>2 DEF LinkedAs
<1>5. Prologue \notin L
  BY DEF Spaced, Prologue, First
<1>6. /\ prev \in M \cup {NULL} /\ next \in M \cup {Prologue} /\ prev # next
      /\ NULL \notin M
  <2>1. j # 1 => j - 1 \in 1 .. n /\ list[j - 1] \in L /\ list[j - 1] # bp
    BY <1>1, <1>2 DEF LinkedAs
  <2>2. j # n => j + 1 \in 1 .. n /\ list[j + 1] \in L /\ list[j + 1] # bp
    BY <1>1, <1>2 DEF LinkedAs
  <2>3. j # 1 /\ j # n => list[j - 1] # list[j + 1]
    BY <2>1, <2>2, <1>1 DEF LinkedAs
  <2>4. NULL # Prologue
    BY DEF NULL, Prologue
  <2> QED BY <2>1, <2>2, <2>3, <2>4, <1>3, <1>4, <1>5
<1>7. prev \in Nat /\ next \in Nat
  BY <1>3, <1>6 DEF NULL
<1> HIDE DEF prev, next
<1>8. /\ Keeps(h1, h, IF prev = NULL THEN {} ELSE {prev + 8, prev + 12})
      /\ prev # NULL => h1.mem[prev + 8] = next
      /\ h1.free = IF prev = NULL THEN next ELSE h.free
  <2>1. CASE prev = NULL
    <3>1. h1 = [h EXCEPT !.free = next]
      BY <2>1
    <3> QED BY <2>1, <3>1, <1>7 DEF Keeps, Heap
  <2>2. CASE prev # NULL
    <3>1. h1 = PutPointer(h, prev + 8, next)
      BY <2>2 DEF DSIZE
    <3>2. prev + 8 \in Word /\ prev + 8 + WSIZE \in Word /\ prev + 8 + 4 = prev + 12
      BY <2>2, <1>3, <1>6, <1>7 DEF WSIZE
    <3> HIDE DEF h1
    <3>3. Keeps(h1, h, {prev + 8, prev + 12}) /\ h1.mem[prev + 8] = next /\ h1.free = h.free
      BY <3>1, <3>2, <1>7, PutPointerFacts
    <3> QED BY <2>2, <3>3
  <2> QED BY <2>1, <2>2
<1> HIDE DEF h1
<1>9. Keeps(g, h1, {next, next + 4}) /\ g.mem[next] = prev /\ g.free = h1.free
  <2>1. h1 \in Heap /\ next \in Word /\ next + WSIZE \in Word /\ prev \in Int
    BY <1>3, <1>6, <1>7, <1>8 DEF Keeps, WSIZE
  <2> QED BY <2>1, PutPointerFacts
<1> HIDE DEF g
<1>10. Keeps(g, h, Links(M))
  <2>1. \A x \in M \cup {Prologue} : {x, x + 4, x + 8, x + 12} \subseteq Links(M)
    <3> SUFFICES ASSUME NEW x \in M \cup {Prologue}
                 PROVE  x \in Links(M) /\ x + 4 \in Links(M) /\ x + 8 \in Links(M)
                        /\ x + 12 \in Links(M)
      OBVIOUS
    <3>1. /\ x \in Nat
          /\ x \in Word /\ x + 4 \in Word /\ x + 8 \in Word /\ x + 12 \in Word
      BY <1>3
    <3> HIDE DEF M
    <3> QED BY <3>1 DEF Links
  <2>2. prev # NULL => {prev + 8, prev + 12} \subseteq Links(M)
    BY <2>1, <1>6
  <2>3. {next, next + 4} \subseteq Links(M)
    BY <2>1, <1>6
  <2> QED BY <2>2, <2>3, <1>8, <1>9 DEF Keeps
<1>11. ASSUME NEW x \in M
       PROVE  /\ g.mem[x + 8] = IF x = prev THEN next ELSE h.mem[x + 8]
              /\ g.mem[x] = IF x = next THEN prev ELSE h.mem[x]
  <2>1. /\ x \in Nat /\ x \in Word /\ x + 8 \in Word /\ x # NULL
        /\ x = next \/ next + 16 <= x \/ x + 16 <= next
        /\ prev = NULL \/ x = prev \/ prev + 16 <= x \/ x + 16 <= prev
    BY <1>3, <1>6
  <2>2. x + 8 \notin {next, next + 4} /\ (x # next => x \notin {next, next + 4})
    BY <2>1, <1>7
  <2>3. prev # NULL => /\ x \notin {prev + 8, prev + 12}
                       /\ x # prev => x + 8 \notin {prev + 8, prev + 12}
    BY <2>1, <1>7
  <2>4. g.mem[x + 8] = h1.mem[x + 8] /\ (x # next => g.mem[x] = h1.mem[x])
    BY <2>1, <2>2, <1>9 DEF Keeps
  <2>5. (x # prev => h1.mem[x + 8] = h.mem[x + 8]) /\ h1.mem[x] = h.mem[x]
    BY <2>1, <2>3, <1>8 DEF Keeps
  <2> QED BY <2>1, <2>4, <2>5, <1>8, <1>9
<1>12. Linked(g, M)
  <2> DEFINE new == [k \in 1 .. n - 1 |-> IF k < j THEN list[k] ELSE list[k + 1]]
  <2>1. \A k \in 1 .. n - 1 : new[k] = IF k < j THEN list[k] ELSE list[k + 1]
    OBVIOUS
  <2>2. \A k \in 1 .. n - 1 : k \in 1 .. n /\ k + 1 \in 1 .. n
    OBVIOUS
  <2>3. ASSUME NEW k \in 1 .. n, k # j PROVE list[k] \in M
    BY <2>3, <1>1, <1>2 DEF LinkedAs
  <2>4. \A k \in 1 .. n - 1 : new[k] \in M
    BY <2>1, <2>2, <2>3
  <2>5. new \in [1 .. n - 1 -> M]
    BY <2>4
  <2> HIDE DEF new
  <2>6. ASSUME NEW x \in M PROVE \E k \in 1 .. n - 1 : new[k] = x
    <3>1. PICK i \in 1 .. n : list[i] = x
      BY <2>6, <1>1 DEF LinkedAs
    <3>2. CASE i < j
      <4>1. i \in 1 .. n - 1 /\ new[i] = x
        BY <3>1, <3>2, <2>1
      <4> QED BY <4>1
    <3>3. CASE i > j
      <4>1. i - 1 \in 1 .. n - 1 /\ ~ (i - 1 < j) /\ i - 1 + 1 = i
        BY <3>3
      <4>2. new[i - 1] = x
        BY <3>1, <4>1, <2>1
      <4> QED BY <4>1, <4>2
    <3>4. i # j
      BY <3>1, <1>2
    <3> QED BY <3>2, <3>3, <3>4
  <2>7. \A i, k \in 1 .. n - 1 : new[i] = new[k] => i = k
    <3> SUFFICES ASSUME NEW i \in 1 .. n - 1, NEW k \in 1 .. n - 1, new[i] = new[k]
                 PROVE  i = k
      OBVIOUS
    <3> DEFINE at(m) == IF m < j THEN m ELSE m + 1
    <3>1. at(i) \in 1 .. n /\ at(k) \in 1 .. n /\ list[at(i)] = list[at(k)]
      BY <2>1, <2>2
    <3>2. at(i) = at(k)
      <4> HIDE DEF at
      <4> QED BY <3>1, <1>1 DEF LinkedAs
    <3> QED BY <3>2
  <2>8. \A i, k \in 1 .. n : list[i] = list[k] <=> i = k
    BY <1>1 DEF LinkedAs
  <2>9. g.free = IF n - 1 = 0 THEN Prologue ELSE new[1]
    <3>1. CASE j = 1
      <4>1. prev = NULL /\ g.free = next
        BY <3>1, <1>4, <1>8, <1>9
      <4>2. n # 1 => new[1] = list[2]
        BY <3>1, <2>1
      <4> QED BY <3>1, <4>1, <4>2, <1>4
    <3>2. CASE j # 1
      <4>1. prev # NULL
        BY <3>2, <1>4, <2>3, <1>6
      <4>2. g.free = list[1] /\ n - 1 # 0
        BY <3>2, <4>1, <1>8, <1>9, <1>1 DEF LinkedAs
      <4>3. new[1] = list[1]
        BY <3>2, <2>1
      <4> QED BY <4>2, <4>3
    <3> QED BY <3>1, <3>2
  <2>10. \A k \in 1 .. n : /\ h.mem[list[k] + 8] = IF k = n THEN Prologue ELSE list[k + 1]
                           /\ h.mem[list[k]] = IF k = 1 THEN NULL ELSE list[k - 1]
    BY <1>1 DEF LinkedAs, NEXT_FREE, PREV_FREE, DSIZE
  <2>11. ASSUME NEW k \in 1 .. n - 1
         PROVE  g.mem[new[k] + 8] = IF k = n - 1 THEN Prologue ELSE new[k + 1]
    <3>1. CASE k < j - 1
      <4>1. new[k] = list[k] /\ new[k + 1] = list[k + 1] /\ k # n /\ k # n - 1
        BY <3>1, <2>1
      <4>2. list[k] # prev
        BY <3>1, <1>4, <2>8
      <4>3. g.mem[list[k] + 8] = h.mem[list[k] + 8]
        BY <4>1, <4>2, <2>4, <1>11
      <4> QED BY <4>1, <4>3, <2>2, <2>10
    <3>2. CASE k = j - 1
      <4>1. new[k] = list[k] /\ prev = list[k]
        BY <3>2, <2>1, <1>4
      <4>2. g.mem[new[k] + 8] = next
        BY <4>1, <2>4, <1>11
      <4>3. k # n - 1 => next = list[j + 1] /\ new[k + 1] = list[k + 1 + 1]
        BY <3>2, <2>1, <1>4
      <4>4. k = n - 1 => next = Prologue
        BY <3>2, <1>4
      <4> QED BY <3>2, <4>2, <4>3, <4>4
    <3>3. CASE k >= j
      <4>1. new[k] = list[k + 1] /\ k + 1 \in 1 .. n
        BY <3>3, <2>1
      <4>2. list[k + 1] # prev
        <5>1. j # 1 => j - 1 \in 1 .. n /\ k + 1 # j - 1
          BY <3>3
        <5>2. list[k + 1] # NULL
          BY <4>1, <1>3
        <5> QED BY <4>1, <5>1, <5>2, <1>4, <2>8
      <4>3. k # n - 1 => new[k + 1] = list[k + 1 + 1]
        BY <3>3, <2>1
      <4> QED BY <4>1, <4>2, <4>3, <2>4, <2>10, <1>11
    <3> QED BY <3>1, <3>2, <3>3
  <2>12. ASSUME NEW k \in 1 .. n - 1
         PROVE  g.mem[new[k]] = IF k = 1 THEN NULL ELSE new[k - 1]
    <3>1. CASE k < j
      <4>1. new[k] = list[k] /\ k # n /\ (k # 1 => new[k - 1] = list[k - 1])
        BY <3>1, <2>1
      <4>2. list[k] # next
        <5>1. list[k] # Prologue
          BY <1>5, <2>2
        <5>2. j # n => j + 1 \in 1 .. n /\ k # j + 1
          BY <3>1
        <5> QED BY <5>1, <5>2, <1>4, <2>2, <2>8
      <4> QED BY <4>1, <4>2, <2>2, <2>4, <2>10, <1>11
    <3>2. CASE k = j
      <4>1. new[k] = list[k + 1] /\ next = list[k + 1]
        BY <3>2, <2>1, <1>4
      <4>2. g.mem[new[k]] = prev
        BY <4>1, <2>4, <1>11
      <4>3. k # 1 => new[k - 1] = list[k - 1] /\ prev = list[k - 1]
        BY <3>2, <2>1, <1>4
      <4>4. k = 1 => prev = NULL
        BY <3>2, <1>4
      <4> QED BY <4>2, <4>3, <4>4
    <3>3. CASE k > j
      <4>1. new[k] = list[k + 1] /\ k + 1 \in 1 .. n /\ k # 1 /\ new[k - 1] = list[k]
        BY <3>3, <2>1
      <4>2. list[k + 1] # next
        <5>1. j # n => j + 1 \in 1 .. n /\ k + 1 # j + 1
          BY <3>3
        <5>2. list[k + 1] # Prologue
          BY <4>1, <1>5
        <5> QED BY <4>1, <5>1, <5>2, <1>4, <2>8
      <4>3. h.mem[list[k + 1]] = list[k]
        BY <4>1, <2>10
      <4> QED BY <4>1, <4>2, <4>3, <2>4, <1>11
    <3> QED BY <3>1, <3>2, <3>3
  <2>13. n - 1 \in Nat
    OBVIOUS
  <2>14. LinkedAs(g, M, n - 1, new)
    BY <2>5, <2>6, <2>7, <2>9, <2>11, <2>12, <2>13 DEF LinkedAs, NEXT_FREE, PREV_FREE, DSIZE
  <2> QED BY <2>5, <2>13, <2>14 DEF Linked
<1> QED BY <1>10, <1>12 DEF removeBlock, g, h1, prev, next
-----------------------------------------------------------------------------
(* The cuts between blocks.                                                *)

\* C has the payload addresses of all blocks, and the address top behind the
\* last of them.
Cuts(C, top) ==
  /\ C \subseteq Nat /\ First \in C /\ top \in C
  /\ \A c \in C : c % 8 = 0 /\ First <= c /\ c <= top
  /\ \A b, c \in C : b < c => b + 24 <= c

\* c is next behind b.
Follows(C, b, c) == b \in C /\ c \in C /\ b < c /\ \A d \in C : ~ (b < d /\ d < c)

LEMMA SuccessorExists ==
  ASSUME NEW C, NEW top, Cuts(C, top), NEW b \in C, b # top
  PROVE  \E c \in C : Follows(C, b, c)
<1> DEFINE S == {c \in C : b < c}
<1>1. top \in S /\ S \in SUBSET Nat
  <2>1. b \in Nat /\ top \in Nat /\ b <= top /\ top \in C
    BY DEF Cuts
  <2>2. b < top /\ C \subseteq Nat
    BY <2>1 DEF Cuts
  <2>3. S \subseteq Nat
    BY <2>2
  <2>4. top \in S
    BY <2>1, <2>2
  <2> QED BY <2>3, <2>4
<1>2. PICK c \in S : \A d \in S : c <= d
  <2> HIDE DEF S
  <2> QED BY <1>1, LeastNat
<1>3. ASSUME NEW d \in C PROVE ~ (b < d /\ d < c)
  BY <1>1, <1>2 DEF Cuts
<1> QED BY <1>2, <1>3 DEF Follows

LEMMA PredecessorExists ==
  ASSUME NEW C, NEW top, Cuts(C, top), NEW c \in C, c # First
  PROVE  \E b \in C : Follows(C, b, c)
<1> DEFINE S == {k \in Nat : \E b \in C : b < c /\ k = c - b}
<1>1. c - First \in S
  BY DEF Cuts, First
<1>2. PICK k \in S : \A j \in S : k <= j
  <2>1. S \in SUBSET Nat /\ S # {}
    BY <1>1
  <2> HIDE DEF S
  <2> QED BY <2>1, LeastNat
<1>3. PICK b \in C : b < c /\ k = c - b
  BY <1>2
<1>4. ASSUME NEW d \in C, b < d, d < c PROVE FALSE
  <2>1. b \in Nat /\ c \in Nat /\ d \in Nat
    BY DEF Cuts
  <2>2. c - d \in S
    BY <1>4, <2>1
  <2> QED BY <1>2, <1>3, <1>4, <2>1, <2>2
<1> QED BY <1>3, <1>4 DEF Follows

LEMMA FollowsUnique ==
  ASSUME NEW C, NEW top, Cuts(C, top)
  PROVE  /\ \A b, c, d : Follows(C, b, c) /\ Follows(C, b, d) => c = d
         /\ \A a, b, c : Follows(C, a, c) /\ Follows(C, b, c) => a = b
<1>0. C \subseteq Nat
  BY DEF Cuts
<1>1. ASSUME NEW b, NEW c, NEW d, Follows(C, b, c), Follows(C, b, d) PROVE c = d
  BY <1>0, <1>1 DEF Follows
<1>2. ASSUME NEW a, NEW b, NEW c, Follows(C, a, c), Follows(C, b, c) PROVE a = b
  BY <1>0, <1>2 DEF Follows
<1> QED BY <1>1, <1>2

LEMMA FollowsFacts ==
  ASSUME NEW C, NEW top, Cuts(C, top), NEW b, NEW c, Follows(C, b, c)
  PROVE  /\ b \in Nat /\ c \in Nat /\ b \in C /\ c \in C /\ b # top
         /\ b % 8 = 0 /\ c % 8 = 0 /\ (c - b) % 8 = 0
         /\ First <= b /\ b + 24 <= c /\ c <= top
         /\ \A d \in C : d \in Nat /\ (d = b \/ d = c \/ d + 24 <= b \/ c + 24 <= d)
<1>1. /\ b \in Nat /\ c \in Nat /\ b \in C /\ c \in C /\ b < c
      /\ b % 8 = 0 /\ c % 8 = 0 /\ First <= b /\ b + 24 <= c /\ c <= top
  BY DEF Follows, Cuts
<1>2. (c - b) % 8 = 0
  BY <1>1
<1>3. \A d \in C : d \in Nat /\ (d = b \/ d = c \/ d + 24 <= b \/ c + 24 <= d)
  BY <1>1 DEF Follows, Cuts
<1> QED BY <1>1, <1>2, <1>3

LEMMA MergeCuts ==
  ASSUME NEW C, NEW top, Cuts(C, top), NEW b, NEW d, NEW c,
         Follows(C, b, d), Follows(C, d, c)
  PROVE  /\ Cuts(C \ {d}, top)
         /\ \A x, y : Follows(C \ {d}, x, y) <=>
              (x = b /\ y = c) \/ (Follows(C, x, y) /\ x # d /\ y # d)
<1>1. Cuts(C \ {d}, top)
  BY DEF Cuts, Follows
<1>2. Follows(C \ {d}, b, c)
  BY DEF Cuts, Follows
<1>3. ASSUME NEW x, NEW y, Follows(C, x, y), x # d, y # d PROVE Follows(C \ {d}, x, y)
  BY <1>3 DEF Follows
<1>4. ASSUME NEW x, NEW y, Follows(C \ {d}, x, y), ~ (x = b /\ y = c)
      PROVE  Follows(C, x, y) /\ x # d /\ y # d
  <2>1. ~ (x < d /\ d < y)
    <3> SUFFICES ASSUME x < d, d < y PROVE FALSE
      OBVIOUS
    <3>1. x = b
      BY <1>4 DEF Follows, Cuts
    <3>2. y = c
      BY <1>4 DEF Follows, Cuts
    <3> QED BY <3>1, <3>2, <1>4
  <2> QED BY <1>4, <2>1 DEF Follows
<1> QED BY <1>1, <1>2, <1>3, <1>4

LEMMA SplitCuts ==
  ASSUME NEW C, NEW top, Cuts(C, top), NEW b, NEW c, Follows(C, b, c),
         NEW d \in Nat, d % 8 = 0, b + 24 <= d, d + 24 <= c
  PROVE  /\ Cuts(C \cup {d}, top) /\ d \notin C
         /\ \A x, y : Follows(C \cup {d}, x, y) <=>
              (x = b /\ y = d) \/ (x = d /\ y = c) \/ (Follows(C, x, y) /\ x # b)
<1>0. /\ b \in Nat /\ c \in Nat /\ b \in C /\ c \in C /\ c <= top /\ First <= b
      /\ \A x \in C : x \in Nat /\ (x = b \/ x = c \/ x + 24 <= b \/ c + 24 <= x)
  BY FollowsFacts
<1>1. \A x \in C : x \in Nat /\ x # d /\ (x < d => x + 24 <= d) /\ (d < x => d + 24 <= x)
  BY <1>0
<1>2. Cuts(C \cup {d}, top)
  <2>1. /\ C \cup {d} \subseteq Nat /\ First \in C \cup {d} /\ top \in C \cup {d}
        /\ \A x \in C \cup {d} : x % 8 = 0 /\ First <= x /\ x <= top
    BY <1>0 DEF Cuts
  <2>2. \A x, y \in C \cup {d} : x < y => x + 24 <= y
    BY <1>0, <1>1 DEF Cuts
  <2> QED BY <2>1, <2>2 DEF Cuts
<1>3. Follows(C \cup {d}, b, d) /\ Follows(C \cup {d}, d, c)
  BY <1>0 DEF Follows
<1>4. ASSUME NEW x, NEW y, Follows(C, x, y), x # b PROVE Follows(C \cup {d}, x, y)
  <2>1. x \in C /\ y \in C /\ x \in Nat /\ y \in Nat /\ x < y
    BY <1>0, <1>4 DEF Follows
  <2>2. ~ (x < d /\ d < y)
    BY <1>0, <1>4, <2>1 DEF Follows
  <2> QED BY <1>4, <2>2 DEF Follows
<1>5. ASSUME NEW x, NEW y, Follows(C \cup {d}, x, y)
      PROVE  (x = b /\ y = d) \/ (x = d /\ y = c) \/ (Follows(C, x, y) /\ x # b)
  <2>1. CASE x = d
    BY <2>1, <1>3, <1>2, <1>5, FollowsUnique
  <2>2. CASE x # d /\ y = d
    BY <2>2, <1>3, <1>2, <1>5, FollowsUnique
  <2>3. CASE x # d /\ y # d
    <3>1. Follows(C, x, y)
      BY <2>3, <1>5 DEF Follows
    <3>2. x # b
      <4> SUFFICES ASSUME x = b PROVE FALSE
        OBVIOUS
      <4>1. y = c
        BY <3>1, FollowsUnique
      <4> QED BY <4>1, <1>0, <1>5 DEF Follows
    <3> QED BY <3>1, <3>2
  <2> QED BY <2>1, <2>2, <2>3
<1> QED BY <1>1, <1>2, <1>3, <1>4, <1>5

LEMMA GrowCuts ==
  ASSUME NEW C, NEW top, Cuts(C, top), NEW new \in Nat, new % 8 = 0, top + 24 <= new
  PROVE  /\ Cuts(C \cup {new}, new) /\ new \notin C
         /\ \A x, y : Follows(C \cup {new}, x, y) <=>
              (x = top /\ y = new) \/ Follows(C, x, y)
<1>1. /\ \A x \in C : x \in Nat /\ x % 8 = 0 /\ First <= x /\ x + 24 <= new /\ x <= top
      /\ top \in C /\ First \in C /\ top \in Nat
      /\ \A x, y \in C : x < y => x + 24 <= y
  BY DEF Cuts
<1>2. Cuts(C \cup {new}, new)
  <2>1. /\ C \cup {new} \subseteq Nat /\ First \in C \cup {new}
        /\ \A x \in C \cup {new} : x % 8 = 0 /\ First <= x /\ x <= new
    BY <1>1
  <2>2. \A x, y \in C \cup {new} : x < y => x + 24 <= y
    BY <1>1
  <2> QED BY <2>1, <2>2 DEF Cuts
<1>3. Follows(C \cup {new}, top, new)
  BY <1>1 DEF Follows
<1>4. ASSUME NEW x, NEW y, Follows(C, x, y) PROVE Follows(C \cup {new}, x, y)
  BY <1>1, <1>4 DEF Follows
<1>5. ASSUME NEW x, NEW y, Follows(C \cup {new}, x, y)
      PROVE  (x = top /\ y = new) \/ Follows(C, x, y)
  <2>1. CASE y = new
    BY <2>1, <1>2, <1>3, <1>5, FollowsUnique
  <2>2. CASE y # new
    BY <2>2, <1>1, <1>5 DEF Follows
  <2> QED BY <2>1, <2>2
<1> QED BY <1>1, <1>2, <1>3, <1>4, <1>5
-----------------------------------------------------------------------------
(* Tagged blocks.                                                          *)

\* What the header and the footer of the block from b to c hold, when those in
\* F are the free ones.
Tag(b, c, F) == c - b + IF b \in F THEN 0 ELSE 1

Tagged(h, C, F) ==
  \A b, c \in C : Follows(C, b, c) => h.mem[b - 4] = Tag(b, c, F) /\ h.mem[c - 8] = Tag(b, c, F)

\* The prologue and the blocks that C and F describe.
Frame(h, C, F) ==
  /\ h \in Heap /\ h.brk \in Nat /\ h.brk <= MaxHeap
  /\ Cuts(C, h.brk) /\ F \subseteq C \ {h.brk}
  /\ h.mem[40] = 0 /\ h.mem[4] = 25
  /\ Tagged(h, C, F)

\* The extents of the allocated blocks.
Held(C, F) == {p \in C \X C : Follows(C, p[1], p[2]) /\ p[1] \notin F}

\* Their payloads are the same in g and h.
SameData(g, h, H) ==
  \A p \in H : \A a \in Word : p[1] <= a /\ a < p[2] - 8 => g.mem[a] = h.mem[a]

LEMMA TagFacts ==
  ASSUME NEW s \in Nat, s % 8 = 0, NEW t \in {0, 1}
  PROVE  (s + t) - ((s + t) % 8) = s /\ (s + t) % 2 = t
OBVIOUS

LEMMA BlockReads ==
  ASSUME NEW h, NEW C, NEW F, Frame(h, C, F), NEW b, NEW c, Follows(C, b, c)
  PROVE  /\ GET_SIZE(h, HDRP(b)) = c - b /\ NEXT_BLKP(h, b) = c
         /\ FTRP(h, b) = c - 8 /\ PREV_BLKP(h, c) = b
         /\ GET_ALLOC(h, HDRP(b)) = IF b \in F THEN 0 ELSE 1
         /\ JoinsPrev(h, c) <=> b \in F
<1>1. /\ b \in Nat /\ c \in Nat /\ b \in C /\ c \in C /\ (c - b) % 8 = 0 /\ b + 24 <= c
  BY FollowsFacts DEF Frame
<1>2. h.mem[b - 4] = Tag(b, c, F) /\ h.mem[c - 8] = Tag(b, c, F)
  BY <1>1 DEF Frame, Tagged
<1> DEFINE t == IF b \in F THEN 0 ELSE 1
<1>3. Tag(b, c, F) - (Tag(b, c, F) % 8) = c - b /\ Tag(b, c, F) % 2 = t
  <2>1. c - b \in Nat /\ t \in {0, 1}
    BY <1>1
  <2>2. Tag(b, c, F) = (c - b) + t
    BY DEF Tag
  <2> HIDE DEF t
  <2> QED BY <2>1, <2>2, <1>1, TagFacts
<1>4. GET_SIZE(h, HDRP(b)) = c - b /\ GET_SIZE(h, b - WSIZE) = c - b
  BY <1>2, <1>3 DEF GET_SIZE, HDRP, WSIZE
<1>5. NEXT_BLKP(h, b) = c /\ FTRP(h, b) = c - 8
  BY <1>1, <1>4 DEF NEXT_BLKP, FTRP, DSIZE
<1>6. PREV_BLKP(h, c) = b
  BY <1>1, <1>2, <1>3 DEF PREV_BLKP, GET_SIZE, DSIZE
<1>7. GET_ALLOC(h, HDRP(b)) = t /\ GET_ALLOC(h, c - 8) = t
  BY <1>2, <1>3 DEF GET_ALLOC, HDRP, WSIZE
<1>8. JoinsPrev(h, c) <=> b \in F
  BY <1>1, <1>5, <1>6, <1>7 DEF JoinsPrev
<1> QED BY <1>4, <1>5, <1>6, <1>7, <1>8

LEMMA FirstJoinsNothing ==
  ASSUME NEW h, NEW C, NEW F, Frame(h, C, F)
  PROVE  ~ JoinsPrev(h, First)
<1>1. PREV_BLKP(h, First) = First
  BY DEF Frame, PREV_BLKP, GET_SIZE, First, DSIZE
<1> QED BY <1>1 DEF JoinsPrev

LEMMA FrameFacts ==
  ASSUME NEW h, NEW C, NEW F, Frame(h, C, F)
  PROVE  /\ h \in Heap /\ h.brk \in Nat /\ h.brk <= MaxHeap /\ h.brk \in C
         /\ First = 48 /\ First \in C /\ MaxHeap \in Nat
         /\ \A c \in C : c \in Nat /\ c % 8 = 0 /\ 48 <= c /\ c <= h.brk /\ c <= MaxHeap
         /\ \A b, c \in C : b < c => b + 24 <= c
<1>1. /\ h \in Heap /\ h.brk \in Nat /\ h.brk <= MaxHeap /\ h.brk \in C
      /\ First = 48 /\ First \in C /\ MaxHeap \in Nat /\ C \subseteq Nat
  BY MMHeapAssumption DEF Frame, Cuts, First
<1>2. \A c \in C : c % 8 = 0 /\ 48 <= c /\ c <= h.brk
  BY <1>1 DEF Frame, Cuts
<1>3. \A c \in C : c \in Nat /\ c <= MaxHeap
  BY <1>1, <1>2
<1>4. \A b, c \in C : b < c => b + 24 <= c
  BY DEF Frame, Cuts
<1> QED BY <1>1, <1>2, <1>3, <1>4

\* Words of blocks and of links.
LEMMA BlocksSpaced ==
  ASSUME NEW h, NEW C, NEW F, Frame(h, C, F), NEW L, L \subseteq C \ {h.brk}
  PROVE  Spaced(L)
<1>1. ASSUME NEW x \in L
      PROVE  x \in Nat /\ x % 8 = 0 /\ First <= x /\ x + 16 <= MaxHeap
  <2>1. x \in C /\ x # h.brk
    OBVIOUS
  <2>2. x + 24 <= h.brk
    BY <2>1, FrameFacts
  <2> QED BY <2>1, <2>2, FrameFacts
<1>2. ASSUME NEW x \in L, NEW y \in L, x < y PROVE x + 16 <= y
  BY <1>2, FrameFacts
<1> QED BY <1>1, <1>2 DEF Spaced

LEMMA TagWords ==
  ASSUME NEW h, NEW C, NEW F, Frame(h, C, F), NEW c \in C
  PROVE  c \in Nat /\ c - 4 \in Word /\ c - 8 \in Word /\ (c # h.brk => c \in Word) /\ c % 8 = 0
<1>1. c \in Nat /\ c % 8 = 0 /\ 48 <= c /\ c <= MaxHeap
  BY FrameFacts
<1>2. c - 4 \in Word /\ c - 8 \in Word
  <2>1. c - 4 \in Nat /\ c - 8 \in Nat /\ (c - 4) % 4 = 0 /\ (c - 8) % 4 = 0
    BY <1>1
  <2> QED BY <1>1, <2>1, WordFact, MMHeapAssumption
<1>3. c # h.brk => c \in Word
  <2>1. c # h.brk => c < MaxHeap
    BY FrameFacts
  <2>2. c % 4 = 0
    BY <1>1
  <2> QED BY <1>1, <2>1, <2>2, WordFact
<1> QED BY <1>1, <1>2, <1>3

\* The link words are neither tags nor payload of an allocated block.
LEMMA LinkPlaces ==
  ASSUME NEW h, NEW C, NEW F, Frame(h, C, F), NEW L, L \subseteq C \ {h.brk}
  PROVE  /\ \A c \in C : c - 4 \notin Links(L) /\ c - 8 \notin Links(L)
         /\ 40 \notin Links(L) /\ 4 \notin Links(L)
         /\ \A b, c : Follows(C, b, c) /\ b \notin L =>
              \A a \in Word : b <= a /\ a < c => a \notin Links(L)
<1>1. \A x \in L \cup {Prologue} : x \in Nat /\ (x = Prologue \/ (x \in C /\ x # h.brk))
  BY FrameFacts DEF Prologue
<1>2. \A c \in C : c \in Nat /\ 48 <= c
  BY FrameFacts
<1>3. ASSUME NEW c \in C
      PROVE  c - 4 \notin Links(L) /\ c - 8 \notin Links(L)
  <2>1. ASSUME NEW x \in L \cup {Prologue}
        PROVE  ~ (x <= c - 4 /\ c - 4 < x + 16) /\ ~ (x <= c - 8 /\ c - 8 < x + 16)
    <3>1. CASE x = Prologue
      BY <3>1, <1>2 DEF Prologue
    <3>2. CASE x \in C
      <4>1. x = c \/ x + 24 <= c \/ c + 24 <= x
        BY <3>2, FrameFacts
      <4> QED BY <4>1, <1>1, <1>2
    <3> QED BY <3>1, <3>2, <1>1
  <2> QED BY <2>1 DEF Links
<1>4. 40 \notin Links(L) /\ 4 \notin Links(L)
  <2>1. ASSUME NEW x \in L \cup {Prologue}
        PROVE  ~ (x <= 40 /\ 40 < x + 16) /\ ~ (x <= 4 /\ 4 < x + 16)
    BY <1>1, <1>2 DEF Prologue
  <2> QED BY <2>1 DEF Links
<1>5. ASSUME NEW b, NEW c, Follows(C, b, c), b \notin L, NEW a \in Word, b <= a, a < c
      PROVE  a \notin Links(L)
  <2>1. b \in Nat /\ c \in Nat /\ a \in Nat /\ 48 <= b
        /\ \A d \in C : d \in Nat /\ (d = b \/ d = c \/ d + 24 <= b \/ c + 24 <= d)
    BY <1>5, FollowsFacts, WordFact DEF Frame, First
  <2>2. ASSUME NEW x \in L \cup {Prologue}
        PROVE  ~ (x <= a /\ a < x + 16)
    <3>1. CASE x = Prologue
      BY <3>1, <1>5, <2>1 DEF Prologue
    <3>2. CASE x \in L
      <4>1. x \in C /\ x # b
        BY <3>2, <1>5
      <4> QED BY <4>1, <1>5, <2>1
    <3> QED BY <3>1, <3>2
  <2> QED BY <2>2 DEF Links
<1> QED BY <1>3, <1>4, <1>5

\* Writing links leaves tags and payloads alone.
LEMMA LinksApart ==
  ASSUME NEW h, NEW C, NEW F, Frame(h, C, F), NEW L, L \subseteq C \ {h.brk},
         NEW g, Keeps(g, h, Links(L))
  PROVE  /\ \A c \in C : g.mem[c - 4] = h.mem[c - 4] /\ g.mem[c - 8] = h.mem[c - 8]
         /\ Frame(g, C, F)
         /\ L \subseteq F => SameData(g, h, Held(C, F))
<1>1. ASSUME NEW c \in C
      PROVE  g.mem[c - 4] = h.mem[c - 4] /\ g.mem[c - 8] = h.mem[c - 8]
  BY TagWords, LinkPlaces DEF Keeps
<1>2. Frame(g, C, F)
  <2>1. 40 \in Word /\ 4 \in Word
    BY WordFact, MMHeapAssumption
  <2>2. g.mem[40] = h.mem[40] /\ g.mem[4] = h.mem[4] /\ g \in Heap /\ g.brk = h.brk
    BY <2>1, LinkPlaces DEF Keeps
  <2> QED BY <2>2, <1>1 DEF Frame, Tagged
<1>3. ASSUME L \subseteq F, NEW p \in Held(C, F), NEW a \in Word, p[1] <= a, a < p[2] - 8
      PROVE  g.mem[a] = h.mem[a]
  <2> DEFINE b == p[1]
             c == p[2]
  <2>1. Follows(C, b, c) /\ b \notin F /\ b <= a /\ a < c - 8
    BY <1>3 DEF Held
  <2> HIDE DEF b, c
  <2>2. a < c
    BY <2>1, FollowsFacts, WordFact DEF Frame
  <2>3. a \notin Links(L)
    BY <1>3, <2>1, <2>2, LinkPlaces
  <2> QED BY <2>3 DEF Keeps
<1> QED BY <1>1, <1>2, <1>3 DEF SameData
-----------------------------------------------------------------------------
(* Coalescing.                                                             *)

\* The heap that C and F describe, with the epilogue at its end and the blocks
\* of L on the free list.
Sealed(h, C, F, L) ==
  /\ Frame(h, C, F) /\ h.mem[h.brk - 4] = 1
  /\ L \subseteq F /\ Linked(h, L)

\* No two free blocks are neighbours.
Apart(C, F) == \A b, c \in C : Follows(C, b, c) => ~ (b \in F /\ c \in F)

\* The heap is in order, with a block at least.
State(h, C, F) == Sealed(h, C, F, F) /\ Apart(C, F) /\ h.brk # First

LEMMA SameDataTransitive ==
  ASSUME NEW f, NEW g, NEW h, NEW H, SameData(g, f, H), SameData(h, g, H)
  PROVE  SameData(h, f, H)
BY DEF SameData

LEMMA LinksWritten ==
  ASSUME NEW h, NEW C, NEW F, Frame(h, C, F), h.mem[h.brk - 4] = 1,
         NEW L, L \subseteq F, NEW g, Keeps(g, h, Links(L))
  PROVE  /\ Frame(g, C, F) /\ g.mem[g.brk - 4] = 1 /\ g.brk = h.brk
         /\ SameData(g, h, Held(C, F))
<1>1. L \subseteq C \ {h.brk}
  BY DEF Frame
<1>2. g.brk = h.brk
  BY DEF Keeps
<1>3. h.brk \in C
  BY FrameFacts
<1> QED BY <1>1, <1>2, <1>3, LinksApart

LEMMA RemoveSealed ==
  ASSUME NEW h, NEW C, NEW F, NEW L, Sealed(h, C, F, L), NEW bp \in L
  PROVE  LET g == removeBlock(h, bp)
         IN  Sealed(g, C, F, L \ {bp}) /\ g.brk = h.brk /\ SameData(g, h, Held(C, F))
<1> DEFINE g == removeBlock(h, bp)
<1>1. Frame(h, C, F) /\ h.mem[h.brk - 4] = 1 /\ L \subseteq F /\ Linked(h, L)
  BY DEF Sealed
<1>2. Spaced(L) /\ h \in Heap
  BY <1>1, BlocksSpaced DEF Frame
<1>3. Linked(g, L \ {bp}) /\ Keeps(g, h, Links(L \ {bp}))
  BY <1>1, <1>2, RemoveLinked
<1> HIDE DEF g
<1>4. Frame(g, C, F) /\ g.mem[g.brk - 4] = 1 /\ g.brk = h.brk /\ SameData(g, h, Held(C, F))
  BY <1>1, <1>3, LinksWritten, L \ {bp} \subseteq F
<1>5. Sealed(g, C, F, L \ {bp})
  BY <1>1, <1>3, <1>4 DEF Sealed
<1> QED BY <1>4, <1>5 DEF g

LEMMA InsertSealed ==
  ASSUME NEW h, NEW C, NEW F, NEW L, Sealed(h, C, F, L), NEW bp \in F, bp \notin L
  PROVE  LET g == insertBlock(h, bp)
         IN  Sealed(g, C, F, L \cup {bp}) /\ g.brk = h.brk /\ SameData(g, h, Held(C, F))
<1> DEFINE g == insertBlock(h, bp)
<1>1. Frame(h, C, F) /\ h.mem[h.brk - 4] = 1 /\ L \cup {bp} \subseteq F /\ Linked(h, L)
  BY DEF Sealed
<1>2. Spaced(L \cup {bp}) /\ h \in Heap
  BY <1>1, BlocksSpaced DEF Frame
<1>3. Linked(g, L \cup {bp}) /\ Keeps(g, h, Links(L \cup {bp}))
  BY <1>1, <1>2, InsertLinked
<1> HIDE DEF g
<1>4. Frame(g, C, F) /\ g.mem[g.brk - 4] = 1 /\ g.brk = h.brk /\ SameData(g, h, Held(C, F))
  BY <1>1, <1>3, LinksWritten
<1>5. Sealed(g, C, F, L \cup {bp})
  BY <1>1, <1>3, <1>4 DEF Sealed
<1> QED BY <1>4, <1>5 DEF g

\* Of the cuts C those in D remain, and what is gone is free and part of the block
\* from start to end.
Absorbs(D, C, F, start, end) ==
  /\ D \subseteq C /\ Follows(D, start, end)
  /\ \A x, y : Follows(D, x, y) => (x = start /\ y = end) \/ Follows(C, x, y)
  /\ \A x, y : Follows(C, x, y) /\ x \notin F => Follows(D, x, y)

IsMerged(g, h, C, F, D, L) ==
  /\ Sealed(g, D, F \cap D, L) /\ g.brk = h.brk
  /\ Held(D, F \cap D) = Held(C, F) /\ SameData(g, h, Held(C, F))

LEMMA TagMerged ==
  ASSUME NEW h, NEW C, NEW F, NEW L, Sealed(h, C, F, L),
         NEW D, Cuts(D, h.brk), L \subseteq D,
         NEW start \in F, NEW end, Absorbs(D, C, F, start, end)
  PROVE  IsMerged(PutTags(h, start, end - start, 0), h, C, F, D, L)
<1> DEFINE g == PutTags(h, start, end - start, 0)
           E == F \cap D
<1>0. /\ D \subseteq C /\ Follows(D, start, end)
      /\ \A x, y : Follows(D, x, y) => (x = start /\ y = end) \/ Follows(C, x, y)
      /\ \A x, y : Follows(C, x, y) /\ x \notin F => Follows(D, x, y)
  BY DEF Absorbs
<1>1. Frame(h, C, F) /\ h.mem[h.brk - 4] = 1 /\ L \subseteq F /\ Linked(h, L)
  BY DEF Sealed
<1>2. /\ start \in D /\ end \in D /\ start \in Nat /\ end \in Nat /\ start + 24 <= end
      /\ \A c \in D : c \in Nat /\ (c = start \/ c = end \/ c + 24 <= start \/ end + 24 <= c)
  BY <1>0, FollowsFacts
<1>3. h \in Heap /\ h.brk \in Nat /\ h.brk \in C /\ h.brk <= MaxHeap
  BY <1>1, FrameFacts
<1>4. start - 4 \in Word /\ end - 8 \in Word
  BY <1>0, <1>1, <1>2, TagWords
<1>5. /\ Keeps(g, h, {start - 4, end - 8}) /\ g.free = h.free
      /\ g.mem[start - 4] = end - start /\ g.mem[end - 8] = end - start
  <2>1. /\ start - WSIZE = start - 4 /\ start + (end - start) - DSIZE = end - 8
        /\ start + (end - start) - 8 = end - 8
    BY <1>2 DEF WSIZE, DSIZE
  <2>2. start - WSIZE \in Word /\ start + (end - start) - DSIZE \in Word /\ end - start \in Int
    BY <2>1, <1>2, <1>4
  <2>3. end - start + 0 = end - start
    BY <1>2
  <2>4. h \in Heap /\ start \in Int /\ 0 \in {0, 1}
    BY <1>2, <1>3
  <2> QED BY <2>1, <2>2, <2>3, <2>4, PutTagsFacts
<1> HIDE DEF g
<1>6. g \in Heap /\ g.brk = h.brk
  BY <1>5 DEF Keeps
<1>7. \A x, y : Follows(C, x, y) /\ Follows(D, x, y) /\ x # start => y # end
  BY <1>0, FollowsUnique
<1>8. Tagged(g, D, E)
  <2> SUFFICES ASSUME NEW x \in D, NEW y \in D, Follows(D, x, y)
               PROVE  g.mem[x - 4] = Tag(x, y, E) /\ g.mem[y - 8] = Tag(x, y, E)
    BY DEF Tagged
  <2>1. CASE x = start /\ y = end
    BY <2>1, <1>2, <1>5 DEF Tag
  <2>2. CASE ~ (x = start /\ y = end)
    <3>1. Follows(C, x, y) /\ x # start /\ y # end
      BY <1>0, <2>2, FollowsUnique
    <3>2. h.mem[x - 4] = Tag(x, y, E) /\ h.mem[y - 8] = Tag(x, y, E)
      BY <1>0, <3>1, <1>1 DEF Frame, Tagged, Tag
    <3>3. x - 4 \in Word /\ y - 8 \in Word
      BY <1>0, <1>1, TagWords
    <3>4. x - 4 \notin {start - 4, end - 8} /\ y - 8 \notin {start - 4, end - 8}
      BY <3>1, <1>2
    <3> QED BY <3>2, <3>3, <3>4, <1>5 DEF Keeps
  <2> QED BY <2>1, <2>2
<1>9. Frame(g, D, E) /\ g.mem[g.brk - 4] = 1
  <2>1. 40 \in Word /\ 4 \in Word /\ h.brk - 4 \in Word
    BY <1>1, <1>3, WordFact, TagWords, MMHeapAssumption
  <2>2. 48 <= start /\ h.brk \in D
    BY <1>1, <1>2, FrameFacts DEF Cuts
  <2>3. start # h.brk
    BY <1>1 DEF Frame
  <2>4. /\ 40 \notin {start - 4, end - 8} /\ 4 \notin {start - 4, end - 8}
        /\ h.brk - 4 \notin {start - 4, end - 8}
    <3>1. h.brk = start \/ h.brk = end \/ h.brk + 24 <= start \/ end + 24 <= h.brk
      BY <2>2, <1>2
    <3> QED BY <3>1, <2>2, <2>3, <1>2, <1>3
  <2>5. g.mem[40] = h.mem[40] /\ g.mem[4] = h.mem[4] /\ g.mem[h.brk - 4] = h.mem[h.brk - 4]
    BY <2>1, <2>4, <1>5 DEF Keeps
  <2> QED BY <2>5, <1>1, <1>3, <1>6, <1>8 DEF Frame
<1>10. Linked(g, L)
  <2>1. Spaced(L)
    BY <1>1, BlocksSpaced DEF Frame
  <2>2. ASSUME NEW x \in L \cup {Prologue}
        PROVE  /\ ~ (x <= start - 4 /\ start - 4 < x + 16)
               /\ ~ (x <= end - 8 /\ end - 8 < x + 16)
    <3>1. CASE x = Prologue
      <4>1. 48 <= start
        BY <1>0, <1>1, <1>2, FrameFacts
      <4> QED BY <3>1, <4>1, <1>2 DEF Prologue
    <3>2. CASE x \in L
      <4>1. x \in Nat /\ (x = start \/ x = end \/ x + 24 <= start \/ end + 24 <= x)
        BY <3>2, <1>2
      <4> QED BY <4>1, <1>2
    <3> QED BY <3>1, <3>2
  <2>3. {start - 4, end - 8} \cap Links(L) = {}
    BY <2>2 DEF Links
  <2> QED BY <2>1, <2>3, <1>1, <1>3, <1>5, LinkedKept
<1>11. Held(D, E) = Held(C, F)
  <2>1. ASSUME NEW x, NEW y PROVE Follows(D, x, y) /\ x \notin E <=> Follows(C, x, y) /\ x \notin F
    <3>1. Follows(D, x, y) => x \in D
      BY DEF Follows
    <3> QED BY <1>0, <3>1
  <2>2. \A x, y : (Follows(D, x, y) => x \in D /\ y \in D) /\ (Follows(C, x, y) => x \in C /\ y \in C)
    BY DEF Follows
  <2>3. ASSUME NEW p \in Held(D, E) PROVE p \in Held(C, F)
    BY <2>1, <2>2 DEF Held
  <2>4. ASSUME NEW p \in Held(C, F) PROVE p \in Held(D, E)
    <3>1. Follows(D, p[1], p[2]) /\ p[1] \notin E /\ p = <<p[1], p[2]>>
      BY <2>1 DEF Held
    <3> QED BY <3>1, <2>2 DEF Held
  <2> QED BY <2>3, <2>4
<1>12. SameData(g, h, Held(C, F))
  <2> SUFFICES ASSUME NEW p \in Held(C, F), NEW a \in Word, p[1] <= a, a < p[2] - 8
               PROVE  g.mem[a] = h.mem[a]
    BY DEF SameData
  <2> DEFINE b == p[1]
             c == p[2]
  <2>1. Follows(D, b, c) /\ b # start /\ b <= a /\ a < c - 8
    BY <1>0 DEF Held
  <2> HIDE DEF b, c
  <2>2. b \in D /\ c \in D /\ b \in Nat /\ c \in Nat /\ a \in Nat /\ b + 24 <= c
        /\ (start = b \/ start = c \/ start + 24 <= b \/ c + 24 <= start)
        /\ (end = b \/ end = c \/ end + 24 <= b \/ c + 24 <= end)
    BY <2>1, <1>2, FollowsFacts, WordFact
  <2>3. a # start - 4 /\ a # end - 8
    BY <2>1, <2>2, <1>2
  <2> QED BY <2>3, <1>5 DEF Keeps
<1>13. Sealed(g, D, E, L)
  BY <1>1, <1>9, <1>10 DEF Sealed
<1> QED BY <1>6, <1>11, <1>12, <1>13 DEF g, IsMerged

\* The heap is in order but for the free block bp, which is on no list and may
\* have free neighbours.
Pending(h, C, F, bp) ==
  /\ bp \in F /\ Sealed(h, C, F, F \ {bp})
  /\ \A x, y \in C : Follows(C, x, y) /\ x \in F /\ y \in F => x = bp \/ y = bp

\* The result r of coalesce: C and F have become D and E.
Settled(r, h, C, F, bp, next) ==
  \E D, E :
    /\ State(r.heap, D, E) /\ r.heap.brk = h.brk
    /\ Held(D, E) = Held(C, F) /\ SameData(r.heap, h, Held(C, F))
    /\ r.bp \in E /\ r.bp <= bp
    /\ \E end : Follows(D, r.bp, end) /\ next <= end

LEMMA CoalesceKeepsOrder ==
  ASSUME NEW h, NEW C, NEW F, NEW bp, NEW next, Follows(C, bp, next), Pending(h, C, F, bp)
  PROVE  Settled(coalesce(h, bp), h, C, F, bp, next)
<1> DEFINE prev     == PREV_BLKP(h, bp)
           joinPrev == JoinsPrev(h, bp)
           joinNext == GET_ALLOC(h, HDRP(next)) = 0
           h1       == IF joinPrev THEN removeBlock(h, prev) ELSE h
           h2       == IF joinNext THEN removeBlock(h1, next) ELSE h1
           start    == IF joinPrev THEN prev ELSE bp
           end      == IF joinNext THEN NEXT_BLKP(h, next) ELSE next
           h3       == IF joinPrev \/ joinNext THEN PutTags(h2, start, end - start, 0) ELSE h2
           g        == insertBlock(h3, start)
           H        == Held(C, F)
<1>0. /\ bp \in F /\ Sealed(h, C, F, F \ {bp})
      /\ \A x, y \in C : Follows(C, x, y) /\ x \in F /\ y \in F => x = bp \/ y = bp
  BY DEF Pending
<1> USE <1>0
<1>1. Frame(h, C, F) /\ h.mem[h.brk - 4] = 1 /\ Cuts(C, h.brk) /\ F \subseteq C \ {h.brk}
  BY DEF Sealed, Frame
<1>2. coalesce(h, bp) = [heap |-> g, bp |-> start]
  <2>1. NEXT_BLKP(h, bp) = next
    BY <1>1, BlockReads
  <2> QED BY <2>1 DEF coalesce
<1>3. joinPrev => Follows(C, prev, bp) /\ prev \in F
  <2>1. CASE bp = First
    BY <2>1, <1>1, FirstJoinsNothing
  <2>2. CASE bp # First
    <3>1. PICK a \in C : Follows(C, a, bp)
      BY <2>2, <1>1, PredecessorExists
    <3> QED BY <3>1, <1>1, BlockReads
  <2> QED BY <2>1, <2>2
<1>4. \A a : Follows(C, a, bp) => a = prev /\ (joinPrev <=> a \in F)
  BY <1>1, BlockReads
<1>5. joinNext <=> next \in F
  <2>1. CASE next = h.brk
    BY <2>1, <1>1 DEF GET_ALLOC, HDRP, WSIZE
  <2>2. CASE next # h.brk
    <3>1. next \in C
      BY DEF Follows
    <3>2. PICK c \in C : Follows(C, next, c)
      BY <2>2, <3>1, <1>1, SuccessorExists
    <3> QED BY <3>2, <1>1, BlockReads
  <2> QED BY <2>1, <2>2
<1>6. joinNext => Follows(C, next, end) /\ next # h.brk
  <2>1. SUFFICES ASSUME next \in F PROVE Follows(C, next, end) /\ next # h.brk
    BY <1>5
  <2>2. next \in C /\ next # h.brk
    BY <2>1, <1>1
  <2>3. PICK c \in C : Follows(C, next, c)
    BY <2>2, <1>1, SuccessorExists
  <2> QED BY <2>1, <2>2, <2>3, <1>1, <1>5, BlockReads
<1>7. ~ joinNext => end = next
  OBVIOUS
<1>8. start = IF joinPrev THEN prev ELSE bp
  OBVIOUS
<1> DEFINE L == (F \ {bp}) \ ((IF joinPrev THEN {prev} ELSE {}) \cup (IF joinNext THEN {next} ELSE {}))
<1> HIDE DEF prev, joinPrev, joinNext, end, start
<1>9. bp # next /\ (joinPrev => prev # bp /\ prev # next)
  <2>1. bp \in Nat /\ next \in Nat /\ bp < next
    BY <1>1, FollowsFacts DEF Follows
  <2>2. joinPrev => prev \in Nat /\ prev < bp
    BY <1>1, <1>3, FollowsFacts DEF Follows
  <2> QED BY <2>1, <2>2
<1>10. Sealed(h2, C, F, L) /\ h2.brk = h.brk /\ SameData(h2, h, H)
  <2> DEFINE L1 == IF joinPrev THEN (F \ {bp}) \ {prev} ELSE F \ {bp}
  <2>1. Sealed(h1, C, F, L1) /\ h1.brk = h.brk /\ SameData(h1, h, H)
    <3>1. CASE joinPrev
      <4>1. prev \in F \ {bp}
        BY <3>1, <1>3, <1>9
      <4> QED BY <3>1, <4>1, RemoveSealed
    <3>2. CASE ~ joinPrev
      BY <3>2 DEF SameData
    <3> QED BY <3>1, <3>2
  <2> HIDE DEF h1
  <2>2. CASE joinNext
    <3>1. next \in L1 /\ L1 \ {next} = L
      BY <2>2, <1>3, <1>5, <1>9
    <3> HIDE DEF L, L1
    <3>2. Sealed(h2, C, F, L1 \ {next}) /\ h2.brk = h1.brk /\ SameData(h2, h1, H)
      BY <2>1, <2>2, <3>1, RemoveSealed
    <3> HIDE DEF h2, H
    <3> QED BY <2>1, <3>1, <3>2, SameDataTransitive
  <2>3. CASE ~ joinNext
    <3>1. L1 = L
      BY <2>3
    <3> HIDE DEF L, L1
    <3> QED BY <2>1, <2>3, <3>1
  <2> QED BY <2>2, <2>3
<1> HIDE DEF h2
<1> DEFINE D == C \ ((IF joinPrev THEN {bp} ELSE {}) \cup (IF joinNext THEN {next} ELSE {}))
           E == F \cap D
<1>11. /\ Cuts(D, h.brk) /\ Follows(D, start, end) /\ start \in F
       /\ \A x, y : Follows(D, x, y) => (x = start /\ y = end) \/ Follows(C, x, y)
       /\ \A x, y : Follows(C, x, y) /\ x \notin F => Follows(D, x, y)
  <2>1. \A x, y : Follows(C, x, y) /\ y = bp /\ joinPrev => x \in F
    BY <1>4
  <2>2. \A x, y : Follows(C, x, y) /\ y = next => x = bp
    BY <1>1, FollowsUnique
  <2>3. CASE joinPrev /\ joinNext
    <3> DEFINE D1 == C \ {bp}
    <3>1. /\ Cuts(D1, h.brk)
          /\ \A x, y : Follows(D1, x, y) <=>
               (x = prev /\ y = next) \/ (Follows(C, x, y) /\ x # bp /\ y # bp)
      BY <2>3, <1>1, <1>3, MergeCuts
    <3>2. Follows(D1, prev, next) /\ Follows(D1, next, end)
      <4>1. end # bp
        <5>1. next \in Nat /\ bp \in Nat /\ end \in Nat /\ bp < next /\ next < end
          BY <2>3, <1>1, <1>6, FollowsFacts DEF Follows
        <5> QED BY <5>1
      <4> QED BY <2>3, <3>1, <4>1, <1>6, <1>9
    <3>3. D = D1 \ {next} /\ start = prev
      BY <2>3, <1>8
    <3> HIDE DEF D1, D
    <3>4. /\ Cuts(D, h.brk)
          /\ \A x, y : Follows(D, x, y) <=>
               (x = prev /\ y = end) \/ (Follows(D1, x, y) /\ x # next /\ y # next)
      BY <3>1, <3>2, <3>3, MergeCuts
    <3>5. ASSUME NEW x, NEW y, Follows(C, x, y), x \notin F PROVE Follows(D, x, y)
      BY <2>1, <2>2, <2>3, <3>1, <3>4, <3>5, <1>5
    <3> QED BY <2>3, <3>1, <3>3, <3>4, <3>5, <1>3
  <2>4. CASE joinPrev /\ ~ joinNext
    <3>1. D = C \ {bp} /\ start = prev /\ end = next
      BY <2>4, <1>7, <1>8
    <3> HIDE DEF D
    <3>2. /\ Cuts(D, h.brk)
          /\ \A x, y : Follows(D, x, y) <=>
               (x = prev /\ y = next) \/ (Follows(C, x, y) /\ x # bp /\ y # bp)
      BY <2>4, <3>1, <1>1, <1>3, MergeCuts
    <3> QED BY <2>1, <2>4, <3>1, <3>2, <1>3
  <2>5. CASE ~ joinPrev /\ joinNext
    <3>1. D = C \ {next} /\ start = bp
      BY <2>5, <1>8
    <3> HIDE DEF D
    <3>2. /\ Cuts(D, h.brk)
          /\ \A x, y : Follows(D, x, y) <=>
               (x = bp /\ y = end) \/ (Follows(C, x, y) /\ x # next /\ y # next)
      BY <2>5, <3>1, <1>1, <1>6, MergeCuts
    <3> QED BY <2>2, <2>5, <3>1, <3>2, <1>5
  <2>6. CASE ~ joinPrev /\ ~ joinNext
    <3>1. D = C /\ start = bp /\ end = next
      BY <2>6, <1>7, <1>8
    <3> QED BY <3>1, <1>1
  <2> QED BY <2>3, <2>4, <2>5, <2>6
<1>12. L \subseteq D /\ start \in E /\ start \notin L /\ L \cup {start} = E
  <2>1. start \in D
    BY <1>11 DEF Follows
  <2>2. L \subseteq D /\ start \notin L
    BY <1>1, <1>8
  <2>3. \A x \in E : x = start \/ x \in L
    BY <1>8
  <2> QED BY <2>1, <2>2, <2>3, <1>11
<1>13. Sealed(h3, D, E, L) /\ h3.brk = h.brk /\ Held(D, E) = H /\ SameData(h3, h, H)
  <2>1. CASE joinPrev \/ joinNext
    <3>1. h3 = PutTags(h2, start, end - start, 0) /\ D \subseteq C
      BY <2>1
    <3>2. Cuts(D, h2.brk)
      BY <1>10, <1>11
    <3> HIDE DEF L, D, h3
    <3>3. Absorbs(D, C, F, start, end) /\ start \in F
      BY <3>1, <1>11 DEF Absorbs
    <3>4. Sealed(h3, D, E, L) /\ h3.brk = h2.brk /\ Held(D, E) = H /\ SameData(h3, h2, H)
      <4>1. IsMerged(h3, h2, C, F, D, L)
        BY <3>1, <3>2, <3>3, <1>10, <1>12, TagMerged
      <4> QED BY <4>1 DEF IsMerged
    <3> HIDE DEF H, E
    <3> QED BY <3>4, <1>10, SameDataTransitive
  <2>2. CASE ~ (joinPrev \/ joinNext)
    <3>1. h3 = h2 /\ D = C /\ E = F
      BY <2>2, <1>1
    <3> HIDE DEF L, D, h3, E
    <3> QED BY <3>1, <1>10
  <2> QED BY <2>1, <2>2
<1>14. Apart(D, E)
  <2> SUFFICES ASSUME NEW x \in D, NEW y \in D, Follows(D, x, y), x \in F, y \in F
               PROVE  FALSE
    BY DEF Apart
  <2>1. bp \in D => start = bp
    BY <1>8
  <2>2. next \in D => end = next /\ next \notin F
    BY <1>5, <1>7
  <2>3. CASE x = start /\ y = end
    <3>1. joinNext
      BY <2>3, <1>5, <1>7
    <3>2. Follows(C, next, end) /\ next \in F /\ end \in F
      BY <2>3, <3>1, <1>5, <1>6
    <3>3. end = bp
      BY <3>2, <1>9 DEF Follows
    <3>4. bp \in Nat /\ next \in Nat /\ end \in Nat /\ bp < next /\ next < end
      BY <3>2, <1>1, FollowsFacts DEF Follows
    <3> QED BY <3>3, <3>4
  <2>4. CASE ~ (x = start /\ y = end)
    <3>1. Follows(C, x, y) /\ x \in C /\ y \in C
      BY <2>4, <1>11 DEF Follows
    <3>2. x = bp \/ y = bp
      BY <3>1
    <3>3. x # bp
      BY <2>1, <2>4, <1>11, FollowsUnique
    <3>4. y # bp
      <4> SUFFICES ASSUME y = bp PROVE FALSE
        OBVIOUS
      <4>1. joinPrev /\ bp \in D
        BY <3>1, <1>4
      <4> QED BY <4>1
    <3> QED BY <3>2, <3>3, <3>4
  <2> QED BY <2>3, <2>4
<1> HIDE DEF L, D, E, h3
<1>15. State(g, D, E) /\ g.brk = h.brk /\ SameData(g, h, H)
  <2>1. Sealed(g, D, E, L \cup {start}) /\ g.brk = h3.brk /\ SameData(g, h3, H)
    BY <1>12, <1>13, InsertSealed
  <2>2. h.brk # First
    <3>1. Cuts(C, h.brk) /\ Follows(C, bp, next)
      BY <1>1
    <3>2. bp \in Nat /\ next \in Nat /\ First <= bp /\ bp + 24 <= next /\ next <= h.brk
      BY <3>1, FollowsFacts
    <3> QED BY <3>2, <1>1, FrameFacts
  <2> HIDE DEF g, H
  <2> QED BY <2>1, <2>2, <1>12, <1>13, <1>14, SameDataTransitive DEF State
<1>16. start <= bp /\ next <= end
  <2>1. bp \in Nat /\ next \in Nat
    BY <1>1, FollowsFacts
  <2>2. joinPrev => prev \in Nat /\ prev < bp
    BY <1>1, <1>3, FollowsFacts DEF Follows
  <2>3. joinNext => end \in Nat /\ next < end
    BY <1>1, <1>6, FollowsFacts DEF Follows
  <2> QED BY <2>1, <2>2, <2>3, <1>7, <1>8
<1> HIDE DEF g, H
<1>17. coalesce(h, bp).heap = g /\ coalesce(h, bp).bp = start
  BY <1>2
<1>18. /\ State(coalesce(h, bp).heap, D, E) /\ coalesce(h, bp).heap.brk = h.brk
       /\ Held(D, E) = Held(C, F) /\ SameData(coalesce(h, bp).heap, h, Held(C, F))
       /\ coalesce(h, bp).bp \in E /\ coalesce(h, bp).bp <= bp
       /\ Follows(D, coalesce(h, bp).bp, end) /\ next <= end
  BY <1>11, <1>12, <1>13, <1>15, <1>16, <1>17 DEF H
<1> QED BY <1>18 DEF Settled
-----------------------------------------------------------------------------
\* uint32_t arithmetic is exact below its limit.
LEMMA ExactBelowLimit == \A n \in 0 .. WordLimit - 1 : uint32(n) = n
  BY MMHeapAssumption DEF uint32

\* ALIGN rounds up to the next multiple of eight.
LEMMA AlignRoundsUp ==
  ASSUME NEW size \in Nat, size + 7 < WordLimit
  PROVE  /\ ALIGN(size) \in Nat /\ ALIGN(size) % 8 = 0
         /\ size <= ALIGN(size) /\ ALIGN(size) <= size + 7
<1>1. uint32(size + 7) = size + 7
  BY ExactBelowLimit, MMHeapAssumption
<1>2. ALIGN(size) = (size + 7) - ((size + 7) % 8)
  BY <1>1 DEF ALIGN
<1> QED
  BY <1>2

\* Up to half the range of a uint32_t, less the sixteen bytes that rounding and
\* the tags may add, the block of a request is a multiple of eight, at least of
\* minimum size, and has room for header, footer and all that was asked for;
\* and it wastes no more than rounding or the minimum size make it (mm.c:218).
THEOREM AdjustedSizeFits ==
  ASSUME NEW size \in Nat, size > 0, size + 15 < WordLimit \div 2
  PROVE  /\ AdjustedSize(size) % 8 = 0 /\ AdjustedSize(size) >= MINIMUM
         /\ size <= AdjustedSize(size) - DSIZE
         /\ AdjustedSize(size) <= size + 15 \/ AdjustedSize(size) = MINIMUM
<1>1. size + 15 < WordLimit /\ WordLimit \in Nat
  BY MMHeapAssumption
<1>2. /\ ALIGN(size) \in Nat /\ ALIGN(size) % 8 = 0
      /\ size <= ALIGN(size) /\ ALIGN(size) <= size + 7
  BY <1>1, AlignRoundsUp
<1>3. uint32(ALIGN(size) + DSIZE) = ALIGN(size) + DSIZE
  <2>1. ALIGN(size) + DSIZE \in 0 .. WordLimit - 1
    BY <1>1, <1>2 DEF DSIZE
  <2> QED
    BY <2>1, ExactBelowLimit
<1>4. int(uint32(ALIGN(size) + DSIZE)) = ALIGN(size) + DSIZE
  BY <1>1, <1>2, <1>3 DEF int, DSIZE
<1>5. AdjustedSize(size) = MAX(ALIGN(size) + DSIZE, MINIMUM)
  BY <1>4 DEF AdjustedSize
<1>6. (ALIGN(size) + DSIZE) % 8 = 0
  BY <1>2 DEF DSIZE
<1> QED
  BY <1>2, <1>5, <1>6 DEF MAX, DSIZE, MINIMUM
\* From there on, up to the largest uint32_t, the size of the block is negative or
\* has wrapped, and the request gets a block of minimum size (mm.c:218).
THEOREM LargeSizesGetMinimum ==
  ASSUME NEW size \in Nat, size < WordLimit, size + 15 >= WordLimit \div 2
  PROVE  AdjustedSize(size) = MINIMUM
<1> DEFINE W == WordLimit
           up == (size + 7) - ((size + 7) % 8)
<1>1. W \in Nat /\ W % 16 = 0 /\ W > 144
  <2>1. W \in Nat /\ MaxHeap \in Nat /\ MaxHeap >= 72 /\ W \div 2 > MaxHeap
    BY MMHeapAssumption
  <2> QED BY <2>1, MMHeapAssumption
<1> HIDE DEF W
<1>2. W % 8 = 0 /\ (W \div 2) % 8 = 0 /\ 2 * (W \div 2) = W
  BY <1>1
<1>3. size \in Nat /\ size < W /\ size + 15 >= W \div 2
  BY DEF W
<1>4. CASE size + 7 >= W
  <2>1. (size + 7) % W = size + 7 - W /\ size + 7 - W < 8 /\ size + 7 - W \in Nat
    BY <1>1, <1>3, <1>4
  <2>2. uint32(size + 7) = size + 7 - W
    BY <2>1 DEF uint32, W
  <2>3. ALIGN(size) = 0
    BY <2>1, <2>2 DEF ALIGN
  <2>4. uint32(0 + DSIZE) = 8
    <3>1. 8 % W = 8
      BY <1>1
    <3> QED BY <3>1 DEF uint32, W, DSIZE
  <2>5. int(8) = 8
    BY <1>1, <1>2 DEF int, W
  <2> QED BY <2>3, <2>4, <2>5 DEF AdjustedSize, MAX, MINIMUM
<1>5. CASE size + 7 < W
  <2>1. (size + 7) % W = size + 7
    BY <1>1, <1>3, <1>5
  <2>2. ALIGN(size) = up
    BY <2>1 DEF ALIGN, uint32, W
  <2>3. up \in Nat /\ up % 8 = 0 /\ up <= size + 7 /\ size <= up
    BY <1>3
  <2> HIDE DEF up
  <2>4. up + 8 <= W /\ up + 8 >= W \div 2
    BY <1>1, <1>2, <1>3, <1>5, <2>3
  <2>5. CASE up + 8 = W
    <3>1. uint32(up + DSIZE) = 0
      <4>1. W % W = 0
        BY <1>1
      <4> QED BY <2>5, <4>1 DEF uint32, W, DSIZE
    <3>2. int(0) = 0
      BY <1>1, <1>2 DEF int, W
    <3> QED BY <2>2, <3>1, <3>2 DEF AdjustedSize, MAX, MINIMUM
  <2>6. CASE up + 8 < W
    <3>1. uint32(up + DSIZE) = up + 8
      <4>1. (up + 8) % W = up + 8
        BY <1>1, <2>3, <2>6
      <4> QED BY <4>1 DEF uint32, W, DSIZE
    <3>2. int(up + 8) = up + 8 - W /\ up + 8 - W < 0
      BY <1>1, <1>2, <2>3, <2>4, <2>6 DEF int, W
    <3>3. up + 8 - W \in Int
      BY <1>1, <2>3
    <3> QED BY <2>2, <3>1, <3>2, <3>3 DEF AdjustedSize, MAX, MINIMUM
  <2> QED BY <1>1, <2>3, <2>4, <2>5, <2>6
<1> QED BY <1>1, <1>3, <1>4, <1>5
-----------------------------------------------------------------------------
(* Writing tags.                                                           *)

TagPlaces(D, top) == {x - 4 : x \in D \ {top}} \cup {x - 8 : x \in D \ {First}}

\* Every block of D and G has its tags in g: they have just been written, or it
\* is a block of C and F whose tags are not in W, where writes went.
Retagged(g, C, F, D, G, W) ==
  \A x, y \in D : Follows(D, x, y) =>
    \/ g.mem[x - 4] = Tag(x, y, G) /\ g.mem[y - 8] = Tag(x, y, G)
    \/ /\ Follows(C, x, y) /\ Tag(x, y, F) = Tag(x, y, G)
       /\ x - 4 \notin W /\ y - 8 \notin W

LEMMA RetaggedIsSealed ==
  ASSUME NEW h, NEW C, NEW F, Frame(h, C, F), h.mem[h.brk - 4] = 1,
         NEW D, Cuts(D, h.brk), NEW G, G \subseteq D \ {h.brk},
         NEW L, L \subseteq F, L \subseteq G,
         NEW W, W \subseteq TagPlaces(D, h.brk),
         NEW g, Keeps(g, h, Links(L) \cup W), Linked(g, L), Retagged(g, C, F, D, G, W)
  PROVE  Sealed(g, D, G, L) /\ g.brk = h.brk /\ SameData(g, h, Held(D, G))
<1>1. /\ h.brk \in Nat /\ h.brk <= MaxHeap /\ h.brk \in C /\ h.brk \in D
      /\ \A c \in D : c \in Nat /\ c % 8 = 0 /\ 48 <= c
      /\ First = 48
  BY FrameFacts DEF Cuts, First
<1>2. L \subseteq C \ {h.brk} /\ L \subseteq D \ {h.brk}
  BY DEF Frame
<1>3. 40 \notin W /\ 4 \notin W /\ h.brk - 4 \notin W
  <2>1. ASSUME NEW x \in D \ {h.brk} PROVE x - 4 \notin {40, 4, h.brk - 4}
    BY <1>1
  <2>2. ASSUME NEW x \in D \ {First} PROVE x - 8 \notin {40, 4, h.brk - 4}
    BY <1>1
  <2> QED BY <2>1, <2>2 DEF TagPlaces
<1>4. /\ g.mem[40] = 0 /\ g.mem[4] = 25 /\ g.mem[g.brk - 4] = 1
      /\ g \in Heap /\ g.brk = h.brk
  <2>1. 40 \in Word /\ 4 \in Word /\ h.brk - 4 \in Word
    BY <1>1, WordFact, TagWords, MMHeapAssumption
  <2>2. 40 \notin Links(L) /\ 4 \notin Links(L) /\ h.brk - 4 \notin Links(L)
    BY <1>1, <1>2, LinkPlaces
  <2> QED BY <1>3, <2>1, <2>2 DEF Keeps, Frame
<1>5. Tagged(g, D, G)
  <2> SUFFICES ASSUME NEW x \in D, NEW y \in D, Follows(D, x, y)
               PROVE  g.mem[x - 4] = Tag(x, y, G) /\ g.mem[y - 8] = Tag(x, y, G)
    BY DEF Tagged
  <2>1. CASE /\ Follows(C, x, y) /\ Tag(x, y, F) = Tag(x, y, G)
             /\ x - 4 \notin W /\ y - 8 \notin W
    <3>1. x \in C /\ y \in C /\ h.mem[x - 4] = Tag(x, y, F) /\ h.mem[y - 8] = Tag(x, y, F)
      BY <2>1 DEF Frame, Tagged, Follows
    <3>2. x - 4 \in Word /\ y - 8 \in Word
      BY <3>1, TagWords
    <3>3. x - 4 \notin Links(L) /\ y - 8 \notin Links(L)
      BY <1>2, <3>1, LinkPlaces
    <3> QED BY <2>1, <3>1, <3>2, <3>3 DEF Keeps
  <2> QED BY <2>1 DEF Retagged
<1>6. Frame(g, D, G)
  BY <1>1, <1>4, <1>5 DEF Frame
<1>7. ASSUME NEW p \in Held(D, G), NEW a \in Word, p[1] <= a, a < p[2] - 8
      PROVE  g.mem[a] = h.mem[a]
  <2> DEFINE b == p[1]
             c == p[2]
  <2>1. Follows(D, b, c) /\ b \notin G /\ b <= a /\ a < c - 8
    BY <1>7 DEF Held
  <2> HIDE DEF b, c
  <2>2. /\ a \in Nat /\ b \in Nat /\ c \in Nat /\ b + 24 <= c
        /\ \A d \in D : d \in Nat /\ (d = b \/ d = c \/ d + 24 <= b \/ c + 24 <= d)
    BY <2>1, FollowsFacts, WordFact
  <2>3. a \notin W
    <3>1. ASSUME NEW x \in D PROVE a # x - 4 /\ a # x - 8
      BY <2>1, <2>2
    <3> QED BY <3>1 DEF TagPlaces
  <2>4. a < c
    BY <2>1, <2>2
  <2>5. a \notin Links(L)
    BY <1>2, <1>4, <1>6, <2>1, <2>4, LinkPlaces
  <2> QED BY <2>3, <2>5 DEF Keeps
<1> QED BY <1>4, <1>6, <1>7 DEF Sealed, SameData

\* Where writes went that give the block from b to c its tags.
TagsWritten(g, h, L, b, c, G) ==
  /\ Keeps(g, h, Links(L) \cup {b - 4, c - 8}) /\ Linked(g, L)
  /\ g.mem[b - 4] = Tag(b, c, G) /\ g.mem[c - 8] = Tag(b, c, G)

Allots(F, G, b) == G \in {F \ {b}, F \cup {b}}

\* A block is allocated, or freed.
LEMMA BlockRetagged ==
  ASSUME NEW h, NEW C, NEW F, Frame(h, C, F), h.mem[h.brk - 4] = 1,
         NEW b, NEW c, Follows(C, b, c), NEW G, Allots(F, G, b),
         NEW L, L \subseteq F \ {b}, NEW g, TagsWritten(g, h, L, b, c, G)
  PROVE  Sealed(g, C, G, L) /\ g.brk = h.brk /\ SameData(g, h, Held(C, G))
<1>0. /\ Keeps(g, h, Links(L) \cup {b - 4, c - 8}) /\ Linked(g, L)
      /\ g.mem[b - 4] = Tag(b, c, G) /\ g.mem[c - 8] = Tag(b, c, G)
      /\ G = F \ {b} \/ G = F \cup {b}
  BY DEF TagsWritten, Allots
<1>1. /\ b \in C /\ c \in C /\ b # h.brk /\ c # First
      /\ Cuts(C, h.brk) /\ F \subseteq C \ {h.brk}
  BY FollowsFacts DEF Frame
<1>2. {b - 4, c - 8} \subseteq TagPlaces(C, h.brk)
  BY <1>1 DEF TagPlaces
<1>3. Retagged(g, C, F, C, G, {b - 4, c - 8})
  <2> SUFFICES ASSUME NEW x \in C, NEW y \in C, Follows(C, x, y)
               PROVE  \/ g.mem[x - 4] = Tag(x, y, G) /\ g.mem[y - 8] = Tag(x, y, G)
                      \/ /\ Tag(x, y, F) = Tag(x, y, G)
                         /\ x - 4 \notin {b - 4, c - 8} /\ y - 8 \notin {b - 4, c - 8}
    BY DEF Retagged
  <2>1. CASE x = b
    <3>1. y = c
      BY <1>1, <2>1, FollowsUnique
    <3> QED BY <1>0, <2>1, <3>1
  <2>2. CASE x # b
    <3>1. y # c
      BY <1>1, <2>2, FollowsUnique
    <3>2. x \in Nat /\ y \in Nat /\ b \in Nat /\ c \in Nat
          /\ x % 8 = 0 /\ y % 8 = 0 /\ b % 8 = 0 /\ c % 8 = 0
      BY <1>1, FollowsFacts
    <3>3. x - 4 \notin {b - 4, c - 8} /\ y - 8 \notin {b - 4, c - 8}
      BY <2>2, <3>1, <3>2
    <3> QED BY <1>0, <2>2, <3>3 DEF Tag
  <2> QED BY <2>1, <2>2
<1>4. G \subseteq C \ {h.brk} /\ L \subseteq F /\ L \subseteq G
  BY <1>0, <1>1
<1> QED BY <1>0, <1>1, <1>2, <1>3, <1>4, RetaggedIsSealed

SplitWritten(g, h, L, b, d, c) ==
  /\ Keeps(g, h, Links(L) \cup {b - 4, d - 8, d - 4, c - 8}) /\ Linked(g, L)
  /\ g.mem[b - 4] = d - b + 1 /\ g.mem[d - 8] = d - b + 1
  /\ g.mem[d - 4] = c - d /\ g.mem[c - 8] = c - d

IsSplit(g, h, C, F, L, b, d, c) ==
  LET D == C \cup {d}
      G == (F \ {b}) \cup {d}
  IN  /\ Sealed(g, D, G, L) /\ g.brk = h.brk
      /\ Follows(D, b, d) /\ Follows(D, d, c) /\ d \notin L
      /\ \A x, y : Follows(D, x, y) /\ x # b /\ x # d => Follows(C, x, y)
      /\ Held(D, G) = (Held(C, F) \ {<<b, c>>}) \cup {<<b, d>>}
      /\ SameData(g, h, Held(D, G))

\* A block is cut in two at d: the front is allocated, the rest is free.
LEMMA BlockSplit ==
  ASSUME NEW h, NEW C, NEW F, Frame(h, C, F), h.mem[h.brk - 4] = 1,
         NEW b, NEW c, Follows(C, b, c),
         NEW d \in Nat, d % 8 = 0, b + 24 <= d, d + 24 <= c,
         NEW L, L \subseteq F \ {b}, NEW g, SplitWritten(g, h, L, b, d, c)
  PROVE  IsSplit(g, h, C, F, L, b, d, c)
<1> DEFINE D == C \cup {d}
           G == (F \ {b}) \cup {d}
           W == {b - 4, d - 8, d - 4, c - 8}
<1>0. /\ Keeps(g, h, Links(L) \cup {b - 4, d - 8, d - 4, c - 8}) /\ Linked(g, L)
      /\ g.mem[b - 4] = d - b + 1 /\ g.mem[d - 8] = d - b + 1
      /\ g.mem[d - 4] = c - d /\ g.mem[c - 8] = c - d
  BY DEF SplitWritten
<1>1. /\ b \in C /\ c \in C /\ b # h.brk /\ c # First /\ b \in Nat /\ c \in Nat
      /\ b % 8 = 0 /\ c % 8 = 0 /\ First <= b /\ c <= h.brk /\ b + 24 <= c
      /\ Cuts(C, h.brk) /\ F \subseteq C \ {h.brk} /\ h.brk \in C /\ h.brk \in Nat
      /\ First = 48
  BY FollowsFacts, FrameFacts DEF Frame
<1>2. /\ Cuts(D, h.brk) /\ d \notin C
      /\ \A x, y : Follows(D, x, y) <=>
           (x = b /\ y = d) \/ (x = d /\ y = c) \/ (Follows(C, x, y) /\ x # b)
  <2>1. Cuts(C, h.brk)
    BY <1>1
  <2> QED BY <2>1, SplitCuts
<1>3. W \subseteq TagPlaces(D, h.brk)
  <2>1. d # h.brk /\ d # First
    BY <1>1
  <2> QED BY <1>1, <2>1 DEF TagPlaces
<1>4. Retagged(g, C, F, D, G, W)
  <2> SUFFICES ASSUME NEW x \in D, NEW y \in D, Follows(D, x, y)
               PROVE  \/ g.mem[x - 4] = Tag(x, y, G) /\ g.mem[y - 8] = Tag(x, y, G)
                      \/ /\ Follows(C, x, y) /\ Tag(x, y, F) = Tag(x, y, G)
                         /\ x - 4 \notin W /\ y - 8 \notin W
    BY DEF Retagged
  <2>1. CASE x = b /\ y = d
    <3>1. b \notin G
      BY <1>1
    <3> QED BY <1>0, <2>1, <3>1 DEF Tag
  <2>2. CASE x = d /\ y = c
    BY <1>0, <1>1, <2>2 DEF Tag
  <2>3. CASE Follows(C, x, y) /\ x # b
    <3>1. x # d /\ y # c /\ y # d
      BY <1>1, <1>2, <2>3, FollowsUnique DEF Follows
    <3>2. x \in Nat /\ y \in Nat /\ x % 8 = 0 /\ y % 8 = 0
      BY <1>1, <2>3, FollowsFacts
    <3>3. x - 4 \notin W /\ y - 8 \notin W
      BY <1>1, <2>3, <3>1, <3>2
    <3> QED BY <2>3, <3>1, <3>3 DEF Tag
  <2> QED BY <1>2, <2>1, <2>2, <2>3
<1>5. G \subseteq D \ {h.brk} /\ L \subseteq F /\ L \subseteq G /\ d \notin L
  BY <1>1, <1>2
<1>6. Held(D, G) = (Held(C, F) \ {<<b, c>>}) \cup {<<b, d>>}
  <2>1. ASSUME NEW p \in Held(D, G) PROVE p \in (Held(C, F) \ {<<b, c>>}) \cup {<<b, d>>}
    <3>1. Follows(D, p[1], p[2]) /\ p[1] \notin G /\ p = <<p[1], p[2]>>
      BY DEF Held
    <3>2. CASE p[1] = b /\ p[2] = d
      BY <3>1, <3>2
    <3>3. CASE Follows(C, p[1], p[2]) /\ p[1] # b
      <4>1. p[1] \in C /\ p[2] \in C /\ p[1] \notin F
        BY <3>1, <3>3 DEF Follows
      <4>2. p \in Held(C, F)
        BY <3>1, <3>3, <4>1 DEF Held
      <4> QED BY <3>3, <4>2
    <3> QED BY <1>2, <3>1, <3>2, <3>3
  <2>2. <<b, d>> \in Held(D, G)
    BY <1>1, <1>2 DEF Held
  <2>3. ASSUME NEW p \in Held(C, F), p # <<b, c>> PROVE p \in Held(D, G)
    <3>1. Follows(C, p[1], p[2]) /\ p[1] \notin F /\ p = <<p[1], p[2]>> /\ p[1] \in C /\ p[2] \in C
      BY DEF Held
    <3>2. p[1] # b
      BY <1>1, <2>3, <3>1, FollowsUnique
    <3>3. p[1] # d
      BY <1>2, <3>1
    <3> QED BY <1>2, <3>1, <3>2, <3>3 DEF Held
  <2> QED BY <2>1, <2>2, <2>3
<1> HIDE DEF D, G, W
<1>7. Sealed(g, D, G, L) /\ g.brk = h.brk /\ SameData(g, h, Held(D, G))
  <2>1. Keeps(g, h, Links(L) \cup W)
    BY <1>0 DEF W
  <2> QED BY <1>0, <1>2, <1>3, <1>4, <1>5, <2>1, RetaggedIsSealed
<1> QED BY <1>2, <1>5, <1>6, <1>7 DEF D, G, IsSplit
-----------------------------------------------------------------------------
(* The operations keep the heap in order.                                  *)

\* The heap g is in order and its allocated blocks are those of H; the payloads
\* of those in K are as in h.
Ordered(g, h, H, K) ==
  \E D, E : State(g, D, E) /\ Held(D, E) = H /\ SameData(g, h, K)

LEMMA StateFacts ==
  ASSUME NEW h, NEW C, NEW F, State(h, C, F)
  PROVE  /\ Frame(h, C, F) /\ h.mem[h.brk - 4] = 1 /\ Linked(h, F) /\ Sealed(h, C, F, F)
         /\ h \in Heap /\ Cuts(C, h.brk) /\ F \subseteq C \ {h.brk} /\ Spaced(F)
         /\ h.brk # First
         /\ \A x, y : Follows(C, x, y) => ~ (x \in F /\ y \in F)
<1>1. /\ Frame(h, C, F) /\ h.mem[h.brk - 4] = 1 /\ Linked(h, F) /\ Sealed(h, C, F, F)
      /\ h.brk # First
  BY DEF State, Sealed
<1>2. h \in Heap /\ Cuts(C, h.brk) /\ F \subseteq C \ {h.brk}
  BY <1>1 DEF Frame
<1>3. Spaced(F)
  BY <1>1, <1>2, BlocksSpaced
<1>4. \A x, y : Follows(C, x, y) => ~ (x \in F /\ y \in F)
  BY DEF State, Apart, Follows
<1> QED BY <1>1, <1>2, <1>3, <1>4

LEMMA TagsAreWords ==
  ASSUME NEW d \in Nat, d % 8 = 0, 8 <= d, d <= MaxHeap
  PROVE  d - 4 \in Word /\ d - 8 \in Word
<1>1. (d - 4) % 4 = 0 /\ (d - 8) % 4 = 0
  OBVIOUS
<1> QED BY <1>1, WordFact, MMHeapAssumption

\* d is a place where the block from b to c can end.
Within(C, b, c, d) ==
  Follows(C, b, c) /\ d \in Nat /\ d % 8 = 0 /\ b + 24 <= d /\ d <= c

\* In g the block from b to d has got tags that say t.
Marked(g, h, b, d, t) ==
  /\ Keeps(g, h, {b - 4, d - 8}) /\ g.free = h.free
  /\ g.mem[b - 4] = d - b + t /\ g.mem[d - 8] = d - b + t

LEMMA PutTagsOn ==
  ASSUME NEW h, NEW C, NEW F, Frame(h, C, F), NEW b, NEW c, NEW d, Within(C, b, c, d)
  PROVE  \A t \in {0, 1} : Marked(PutTags(h, b, d - b, t), h, b, d, t)
<1> SUFFICES ASSUME NEW t \in {0, 1} PROVE Marked(PutTags(h, b, d - b, t), h, b, d, t)
  OBVIOUS
<1>0. Follows(C, b, c) /\ d \in Nat /\ d % 8 = 0 /\ b + 24 <= d /\ d <= c
  BY DEF Within
<1>1. b \in C /\ b \in Nat /\ c \in Nat /\ 48 <= b /\ c <= MaxHeap /\ h \in Heap
  BY <1>0, FollowsFacts, FrameFacts DEF Frame
<1>2. b - 4 \in Word /\ d - 8 \in Word
  <2>1. d <= MaxHeap /\ 8 <= d
    BY <1>0, <1>1, FrameFacts
  <2> QED BY <1>0, <1>1, <2>1, TagWords, TagsAreWords
<1>3. /\ b - WSIZE = b - 4 /\ b + (d - b) - DSIZE = d - 8 /\ b + (d - b) - 8 = d - 8
      /\ d - b \in Int /\ b \in Int
  BY <1>0, <1>1 DEF WSIZE, DSIZE
<1> DEFINE g == PutTags(h, b, d - b, t)
<1>4. /\ Keeps(g, h, {b - 4, b + (d - b) - 8}) /\ g.free = h.free
      /\ g.mem[b - 4] = (d - b) + t /\ g.mem[b + (d - b) - 8] = (d - b) + t
  BY <1>1, <1>2, <1>3, PutTagsFacts
<1> HIDE DEF g
<1>5. Keeps(g, h, {b - 4, d - 8}) /\ g.free = h.free
      /\ g.mem[b - 4] = d - b + t /\ g.mem[d - 8] = d - b + t
  BY <1>3, <1>4
<1> QED BY <1>5 DEF g, Marked

LEMMA FreeKeepsOrder ==
  ASSUME NEW h, NEW C, NEW F, State(h, C, F), NEW b, NEW c, Follows(C, b, c), b \notin F
  PROVE  Ordered(mm_free(h, b), h, Held(C, F) \ {<<b, c>>}, Held(C, F) \ {<<b, c>>})
<1> DEFINE g == PutTags(h, b, c - b, 0)
           G == F \cup {b}
           H == Held(C, F) \ {<<b, c>>}
<1>1. /\ Frame(h, C, F) /\ h.mem[h.brk - 4] = 1 /\ Linked(h, F) /\ h \in Heap
      /\ Cuts(C, h.brk) /\ F \subseteq C \ {h.brk} /\ Spaced(F)
      /\ \A x, y : Follows(C, x, y) => ~ (x \in F /\ y \in F)
  BY StateFacts
<1>2. /\ b \in C /\ c \in C /\ b # h.brk /\ b \in Nat /\ c \in Nat
      /\ c % 8 = 0 /\ b + 24 <= c /\ 48 <= b
  BY <1>1, FollowsFacts, FrameFacts
<1>3. mm_free(h, b) = coalesce(g, b).heap
  <2>1. GET_SIZE(h, HDRP(b)) = c - b /\ b # NULL
    BY <1>1, <1>2, BlockReads DEF NULL
  <2> QED BY <2>1 DEF mm_free
<1>4. /\ Keeps(g, h, {b - 4, c - 8}) /\ g.free = h.free
      /\ g.mem[b - 4] = Tag(b, c, G) /\ g.mem[c - 8] = Tag(b, c, G)
  <2>1. /\ Keeps(g, h, {b - 4, c - 8}) /\ g.free = h.free
        /\ g.mem[b - 4] = c - b + 0 /\ g.mem[c - 8] = c - b + 0
    <3>1. Within(C, b, c, c)
      BY <1>2 DEF Within
    <3>2. Marked(g, h, b, c, 0)
      BY <1>1, <3>1, PutTagsOn
    <3> QED BY <3>2 DEF Marked
  <2> QED BY <2>1 DEF Tag
<1>5. Linked(g, F)
  <2>1. {b - 4, c - 8} \cap Links(F) = {}
    BY <1>1, <1>2, LinkPlaces
  <2> HIDE DEF g
  <2> QED BY <1>1, <1>4, <2>1, LinkedKept
<1> HIDE DEF g
<1>6. Sealed(g, C, G, F) /\ g.brk = h.brk /\ SameData(g, h, Held(C, G))
  <2>1. Keeps(g, h, Links(F) \cup {b - 4, c - 8})
    BY <1>4 DEF Keeps
  <2>2. TagsWritten(g, h, F, b, c, G) /\ Allots(F, G, b) /\ F \subseteq F \ {b}
    BY <1>4, <1>5, <2>1 DEF TagsWritten, Allots
  <2> HIDE DEF G
  <2> QED BY <1>1, <2>2, BlockRetagged
<1>7. Held(C, G) = H
  <2>1. ASSUME NEW p \in Held(C, F) PROVE p[1] = b <=> p = <<b, c>>
    <3>1. Follows(C, p[1], p[2]) /\ p = <<p[1], p[2]>>
      BY DEF Held
    <3> QED BY <1>1, <3>1, FollowsUnique
  <2> QED BY <2>1 DEF Held
<1>8. Sealed(g, C, G, G \ {b}) /\ b \in G
  <2>1. G \ {b} = F
    OBVIOUS
  <2> QED BY <1>6, <2>1
<1>9. \A x, y \in C : Follows(C, x, y) /\ x \in G /\ y \in G => x = b \/ y = b
  BY <1>1
<1> HIDE DEF G
<1>10. PICK D, E : /\ State(coalesce(g, b).heap, D, E) /\ Held(D, E) = Held(C, G)
                   /\ SameData(coalesce(g, b).heap, g, Held(C, G))
  <2>1. Pending(g, C, G, b)
    BY <1>8, <1>9 DEF Pending
  <2>2. Settled(coalesce(g, b), g, C, G, b, c)
    BY <2>1, CoalesceKeepsOrder
  <2> QED BY <2>2 DEF Settled
<1> HIDE DEF H
<1>11. /\ State(mm_free(h, b), D, E) /\ Held(D, E) = H
       /\ SameData(mm_free(h, b), h, H)
  BY <1>3, <1>6, <1>7, <1>10, SameDataTransitive
<1> QED BY <1>11 DEF Ordered, H

\* In g, b has been marked as allocated up to d, and taken from the list F.
Taken(g, h, F, b, d) ==
  /\ Linked(g, F \ {b}) /\ Keeps(g, h, Links(F \ {b}) \cup {b - 4, d - 8})
  /\ g.mem[b - 4] = d - b + 1 /\ g.mem[d - 8] = d - b + 1

LEMMA TakenOut ==
  ASSUME NEW h, NEW C, NEW F, State(h, C, F), NEW b \in F, NEW c, NEW d, Within(C, b, c, d)
  PROVE  Taken(removeBlock(PutTags(h, b, d - b, 1), b), h, F, b, d)
<1> DEFINE h1 == PutTags(h, b, d - b, 1)
           g  == removeBlock(h1, b)
<1>0. Follows(C, b, c) /\ d \in Nat /\ d % 8 = 0 /\ b + 24 <= d /\ d <= c
  BY DEF Within
<1>1. /\ Frame(h, C, F) /\ h.mem[h.brk - 4] = 1 /\ Linked(h, F) /\ h \in Heap
      /\ Cuts(C, h.brk) /\ F \subseteq C \ {h.brk} /\ Spaced(F)
  BY StateFacts
<1>2. /\ b \in C /\ b \in Nat /\ c \in Nat /\ 48 <= b /\ c <= MaxHeap
      /\ \A x \in C : x \in Nat /\ (x = b \/ x = c \/ x + 24 <= b \/ c + 24 <= x)
  BY <1>0, <1>1, FollowsFacts, FrameFacts
<1>3. /\ Keeps(h1, h, {b - 4, d - 8}) /\ h1.free = h.free
      /\ h1.mem[b - 4] = d - b + 1 /\ h1.mem[d - 8] = d - b + 1
  <2>1. Marked(h1, h, b, d, 1)
    BY <1>1, PutTagsOn
  <2> QED BY <2>1 DEF Marked
<1> HIDE DEF h1
<1>4. b - 4 \notin Links(F) /\ d - 8 \notin Links(F)
  <2>1. ASSUME NEW x \in F \cup {Prologue} PROVE ~ (x <= d - 8 /\ d - 8 < x + 16)
    <3>1. CASE x = Prologue
      BY <3>1, <1>0, <1>2 DEF Prologue
    <3>2. CASE x \in F
      BY <3>2, <1>0, <1>1, <1>2
    <3> QED BY <3>1, <3>2
  <2>2. d - 8 \notin Links(F)
    BY <2>1 DEF Links
  <2> QED BY <1>1, <1>2, <2>2, LinkPlaces
<1>5. Linked(h1, F) /\ h1 \in Heap
  <2>1. {b - 4, d - 8} \cap Links(F) = {}
    BY <1>4
  <2>2. Linked(h1, F)
    BY <1>1, <1>3, <2>1, LinkedKept
  <2> QED BY <1>3, <2>2 DEF Keeps
<1>6. Linked(g, F \ {b}) /\ Keeps(g, h1, Links(F \ {b}))
  BY <1>1, <1>5, RemoveLinked
<1> HIDE DEF g
<1>7. Keeps(g, h, Links(F \ {b}) \cup {b - 4, d - 8})
  BY <1>3, <1>6 DEF Keeps
<1>8. b - 4 \in Word /\ d - 8 \in Word
  <2>1. d <= MaxHeap /\ 8 <= d
    BY <1>0, <1>1, <1>2, FrameFacts
  <2> QED BY <1>0, <1>1, <1>2, <2>1, TagWords, TagsAreWords
<1>9. Links(F \ {b}) \subseteq Links(F)
  BY DEF Links
<1>10. g.mem[b - 4] = d - b + 1 /\ g.mem[d - 8] = d - b + 1
  BY <1>3, <1>4, <1>6, <1>8, <1>9 DEF Keeps
<1> QED BY <1>6, <1>7, <1>10 DEF g, h1, Taken

LEMMA PlaceKeepsOrder ==
  ASSUME NEW h, NEW C, NEW F, State(h, C, F), NEW b \in F, NEW c, Follows(C, b, c),
         NEW asize \in Nat, asize % 8 = 0, 24 <= asize, asize <= c - b
  PROVE  \E e \in Nat : /\ b + asize <= e /\ e <= c
                        /\ Ordered(place(h, b, asize), h, Held(C, F) \cup {<<b, e>>}, Held(C, F))
<1> DEFINE L == F \ {b}
           d == b + asize
<1>1. /\ Frame(h, C, F) /\ h.mem[h.brk - 4] = 1 /\ Linked(h, F) /\ h \in Heap
      /\ Cuts(C, h.brk) /\ F \subseteq C \ {h.brk} /\ Spaced(F)
      /\ \A x, y : Follows(C, x, y) => ~ (x \in F /\ y \in F)
  BY StateFacts
<1>2. /\ b \in C /\ c \in C /\ b # h.brk /\ b \in Nat /\ c \in Nat
      /\ b % 8 = 0 /\ c % 8 = 0 /\ b + 24 <= c /\ 48 <= b
      /\ \A x \in C : x \in Nat /\ (x = b \/ x = c \/ x + 24 <= b \/ c + 24 <= x)
  BY <1>1, FollowsFacts, FrameFacts
<1>3. GET_SIZE(h, HDRP(b)) = c - b
  BY <1>1, BlockReads
<1>4. d \in Nat /\ d % 8 = 0 /\ b + 24 <= d /\ d <= c /\ d - b = asize /\ c - d = (c - b) - asize
  BY <1>2
<1>5. <<b, c>> \notin Held(C, F)
  BY DEF Held
<1>6. CASE (c - b) - asize >= MINIMUM
  <2> DEFINE h1 == removeBlock(PutTags(h, b, d - b, 1), b)
             g  == PutTags(h1, d, c - d, 0)
             D  == C \cup {d}
             G  == L \cup {d}
             r  == coalesce(g, d)
  <2>1. place(h, b, asize) = r.heap
    BY <1>3, <1>4, <1>6 DEF place
  <2>2. d + 24 <= c
    BY <1>2, <1>4, <1>6 DEF MINIMUM
  <2> HIDE DEF d
  <2>3. /\ Linked(h1, L) /\ Keeps(h1, h, Links(L) \cup {b - 4, d - 8})
        /\ h1.mem[b - 4] = d - b + 1 /\ h1.mem[d - 8] = d - b + 1
    <3>1. Within(C, b, c, d)
      BY <1>4 DEF Within
    <3>2. Taken(h1, h, F, b, d)
      BY <3>1, TakenOut
    <3> QED BY <3>2 DEF Taken
  <2> HIDE DEF h1
  <2>4. d - 4 \in Word /\ c - 8 \in Word /\ b - 4 \in Word /\ d - 8 \in Word
    <3>1. c <= MaxHeap /\ MaxHeap \in Nat
      BY <1>1, <1>2, FrameFacts
    <3>2. d <= MaxHeap /\ 8 <= d
      BY <1>2, <1>4, <3>1
    <3> QED BY <1>1, <1>2, <1>4, <3>2, TagWords, TagsAreWords
  <2>5. /\ Keeps(g, h1, {d - 4, c - 8}) /\ g.free = h1.free
        /\ g.mem[d - 4] = c - d /\ g.mem[c - 8] = c - d
    <3>1. /\ d - WSIZE = d - 4 /\ d + (c - d) - DSIZE = c - 8 /\ d + (c - d) - 8 = c - 8
          /\ c - d \in Int /\ d \in Int /\ c - d + 0 = c - d
      BY <1>2, <1>4 DEF WSIZE, DSIZE
    <3>2. h1 \in Heap
      BY <2>3 DEF Keeps
    <3> QED BY <2>4, <3>1, <3>2, PutTagsFacts
  <2> HIDE DEF g
  <2>6. {d - 4, c - 8} \cap Links(L) = {}
    <3>1. L \subseteq C \ {h.brk}
      BY <1>1
    <3>2. ASSUME NEW x \in L \cup {Prologue} PROVE ~ (x <= d - 4 /\ d - 4 < x + 16)
      <4>1. CASE x = Prologue
        BY <4>1, <1>2, <1>4 DEF Prologue
      <4>2. CASE x \in L
        <5>1. x \in C /\ x # b
          BY <4>2, <1>1
        <5> QED BY <5>1, <1>2, <1>4, <2>2
      <4> QED BY <4>1, <4>2
    <3>3. d - 4 \notin Links(L)
      BY <3>2 DEF Links
    <3> QED BY <1>1, <1>2, <3>1, <3>3, LinkPlaces
  <2>7. Linked(g, L)
    <3>1. Spaced(L)
      BY <1>1 DEF Spaced
    <3>2. h1 \in Heap
      BY <2>3 DEF Keeps
    <3> HIDE DEF L
    <3> QED BY <2>3, <2>5, <2>6, <3>1, <3>2, LinkedKept
  <2>8. Keeps(g, h, Links(L) \cup {b - 4, d - 8, d - 4, c - 8})
    BY <2>3, <2>5 DEF Keeps
  <2>9. g.mem[b - 4] = d - b + 1 /\ g.mem[d - 8] = d - b + 1
    <3>1. b - 4 \notin {d - 4, c - 8} /\ d - 8 \notin {d - 4, c - 8}
      BY <1>2, <1>4, <2>2
    <3> QED BY <2>3, <2>4, <2>5, <3>1 DEF Keeps
  <2>10. /\ Sealed(g, D, G, L)
         /\ Follows(D, b, d) /\ Follows(D, d, c) /\ d \notin L
         /\ \A x, y : Follows(D, x, y) /\ x # b /\ x # d => Follows(C, x, y)
         /\ Held(D, G) = (Held(C, F) \ {<<b, c>>}) \cup {<<b, d>>}
         /\ SameData(g, h, Held(D, G))
    <3>1. SplitWritten(g, h, L, b, d, c)
      BY <2>5, <2>7, <2>8, <2>9 DEF SplitWritten
    <3>2. L \subseteq F \ {b}
      OBVIOUS
    <3> HIDE DEF L
    <3>3. IsSplit(g, h, C, F, L, b, d, c)
      BY <1>1, <1>4, <2>2, <3>1, <3>2, BlockSplit
    <3> QED BY <3>3 DEF IsSplit, L
  <2>11. Sealed(g, D, G, G \ {d}) /\ d \in G
    <3>1. G \ {d} = L
      BY <2>10
    <3> QED BY <2>10, <3>1
  <2>12. \A x, y \in D : Follows(D, x, y) /\ x \in G /\ y \in G => x = d \/ y = d
    BY <1>1, <2>10
  <2>13. Held(D, G) = Held(C, F) \cup {<<b, d>>}
    BY <1>5, <2>10
  <2> HIDE DEF D, G, L
  <2>14. PICK D2, E2 : /\ State(r.heap, D2, E2) /\ Held(D2, E2) = Held(D, G)
                       /\ SameData(r.heap, g, Held(D, G))
    <3>1. Pending(g, D, G, d)
      BY <2>11, <2>12 DEF Pending
    <3>2. Settled(r, g, D, G, d, c)
      BY <2>10, <3>1, CoalesceKeepsOrder
    <3> QED BY <3>2 DEF Settled
  <2> HIDE DEF r
  <2>15. SameData(r.heap, h, Held(C, F))
    <3>1. SameData(r.heap, h, Held(D, G))
      BY <2>10, <2>14, SameDataTransitive
    <3> QED BY <2>13, <3>1 DEF SameData
  <2>16. Ordered(r.heap, h, Held(C, F) \cup {<<b, d>>}, Held(C, F))
    BY <2>13, <2>14, <2>15 DEF Ordered
  <2>17. b + asize <= d
    BY <1>2 DEF d
  <2> QED BY <2>1, <2>16, <2>17, <1>4
<1>7. CASE ~ ((c - b) - asize >= MINIMUM)
  <2> DEFINE g == removeBlock(PutTags(h, b, c - b, 1), b)
  <2>1. place(h, b, asize) = g
    BY <1>3, <1>7 DEF place
  <2>2. /\ Linked(g, L) /\ Keeps(g, h, Links(L) \cup {b - 4, c - 8})
        /\ g.mem[b - 4] = c - b + 1 /\ g.mem[c - 8] = c - b + 1
    <3>1. Within(C, b, c, c)
      BY <1>2 DEF Within
    <3>2. Taken(g, h, F, b, c)
      BY <3>1, TakenOut
    <3> QED BY <3>2 DEF Taken
  <2> HIDE DEF g
  <2>3. Tag(b, c, L) = c - b + 1
    BY DEF Tag
  <2>4. Sealed(g, C, L, L) /\ SameData(g, h, Held(C, L)) /\ g.brk = h.brk
    <3>1. TagsWritten(g, h, L, b, c, L) /\ Allots(F, L, b)
      BY <2>2, <2>3 DEF TagsWritten, Allots
    <3> QED BY <1>1, <3>1, BlockRetagged
  <2>5. Held(C, L) = Held(C, F) \cup {<<b, c>>}
    <3>1. ASSUME NEW p \in C \X C, Follows(C, p[1], p[2])
          PROVE  p[1] = b <=> p = <<b, c>>
      BY <1>1, <3>1, FollowsUnique
    <3>2. <<b, c>> \in Held(C, L)
      BY <1>2 DEF Held
    <3> QED BY <3>1, <3>2 DEF Held
  <2>6. Apart(C, L)
    BY <1>1 DEF Apart
  <2>7. State(g, C, L)
    BY <2>4, <2>6 DEF State
  <2>8. SameData(g, h, Held(C, F))
    BY <2>4, <2>5 DEF SameData
  <2> HIDE DEF L
  <2>9. Ordered(g, h, Held(C, F) \cup {<<b, c>>}, Held(C, F))
    BY <2>5, <2>7, <2>8 DEF Ordered
  <2> QED BY <2>1, <2>9, <1>2
<1> QED BY <1>6, <1>7
-----------------------------------------------------------------------------
(* Walks from word to word.                                                *)

\* N leads from each place of D that is not in S to a place of D.
Leads(N, D, S) == \A x \in D : x \notin S => N[x] \in D

\* R[x] has the places that the walk from x, by N and up to the first one in S,
\* passes.
Passed(R, N, D, S) ==
  /\ R \in [D -> SUBSET D]
  /\ \A x \in D : R[x] = {x} \cup (IF x \in S THEN {} ELSE R[N[x]])

LEMMA Walks ==
  ASSUME NEW D, NEW S, NEW N, Leads(N, D, S)
  PROVE  \E R : Passed(R, N, D, S)
<1> DEFINE Closed(T) == \A y \in T : y \notin S => N[y] \in T
           R == [x \in D |-> {y \in D : \A T \in SUBSET D : x \in T /\ Closed(T) => y \in T}]
<1>0. \A x \in D : x \notin S => N[x] \in D
  BY DEF Leads
<1>1. R \in [D -> SUBSET D]
  OBVIOUS
<1>2. \A x, y \in D : y \in R[x] <=> \A T \in SUBSET D : x \in T /\ Closed(T) => y \in T
  OBVIOUS
<1>3. \A x \in D : R[x] \subseteq D
  OBVIOUS
<1> HIDE DEF R
<1>4. ASSUME NEW x \in D
      PROVE  R[x] = {x} \cup (IF x \in S THEN {} ELSE R[N[x]])
  <2>1. x \in R[x]
    BY <1>2
  <2>2. ASSUME NEW y \in D, x \notin S, y \in R[N[x]] PROVE y \in R[x]
    <3>1. N[x] \in D
      BY <1>0, <2>2
    <3>2. ASSUME NEW T \in SUBSET D, x \in T, Closed(T) PROVE y \in T
      <4>1. N[x] \in T
        BY <2>2, <3>2
      <4> HIDE DEF Closed
      <4> QED BY <1>2, <2>2, <3>1, <3>2, <4>1
    <3> HIDE DEF Closed
    <3> QED BY <1>2, <3>2
  <2> DEFINE T == {x} \cup (IF x \in S THEN {} ELSE R[N[x]])
  <2>3. T \in SUBSET D /\ x \in T
    BY <1>0, <1>3
  <2>4. Closed(T)
    <3>1. ASSUME NEW y \in T, y \notin S PROVE N[y] \in T
      <4>1. CASE y = x
        <5>1. N[x] \in D /\ x \notin S
          BY <1>0, <3>1, <4>1
        <5>2. N[x] \in R[N[x]]
          BY <1>2, <5>1
        <5> QED BY <4>1, <5>1, <5>2
      <4>2. CASE y # x
        <5>1. x \notin S /\ y \in R[N[x]] /\ N[x] \in D /\ y \in D
          BY <1>0, <3>1, <4>2, <2>3
        <5>2. N[y] \in D
          BY <1>0, <3>1, <5>1
        <5>3. ASSUME NEW U \in SUBSET D, N[x] \in U, Closed(U) PROVE N[y] \in U
          <6>1. y \in U
            <7> HIDE DEF Closed
            <7> QED BY <1>2, <5>1, <5>3
          <6> QED BY <3>1, <5>3, <6>1
        <5>4. N[y] \in R[N[x]]
          <6> HIDE DEF Closed
          <6> QED BY <1>2, <5>1, <5>2, <5>3
        <5> QED BY <5>1, <5>4
      <4> QED BY <4>1, <4>2
    <3> HIDE DEF T
    <3> QED BY <3>1
  <2>5. R[x] \subseteq T
    <3> HIDE DEF Closed, T
    <3> QED BY <1>2, <1>3, <2>3, <2>4
  <2> QED BY <1>0, <1>3, <2>1, <2>2, <2>5
<1> QED BY <1>1, <1>4 DEF Passed

\* The function that find_fit walks the list with.
LEMMA FindFitWalks ==
  ASSUME NEW h \in Heap, NEW asize
  PROVE  \E from :
           /\ find_fit(h, asize) = from[h.free]
           /\ \A bp \in Word :
                from[bp] = IF GET_ALLOC(h, HDRP(bp)) = 1 THEN NULL
                           ELSE IF asize <= GET_SIZE(h, HDRP(bp)) THEN bp
                           ELSE IF NEXT_FREE(h, bp) \notin Word THEN NULL
                           ELSE from[NEXT_FREE(h, bp)]
<1> DEFINE Value(bp) == IF GET_ALLOC(h, HDRP(bp)) = 1 THEN NULL
                        ELSE IF asize <= GET_SIZE(h, HDRP(bp)) THEN bp ELSE NULL
           Stops(bp) == \/ GET_ALLOC(h, HDRP(bp)) = 1
                        \/ asize <= GET_SIZE(h, HDRP(bp))
                        \/ NEXT_FREE(h, bp) \notin Word
           Body(f) == [bp \in Word |->
                        IF GET_ALLOC(h, HDRP(bp)) = 1 THEN NULL
                        ELSE IF asize <= GET_SIZE(h, HDRP(bp)) THEN bp
                        ELSE IF NEXT_FREE(h, bp) \notin Word THEN NULL
                        ELSE f[NEXT_FREE(h, bp)]]
           from == CHOOSE f : f = Body(f)
           S == {bp \in Word : Stops(bp)}
           N == [bp \in Word |-> NEXT_FREE(h, bp)]
<1>1. find_fit(h, asize) = from[h.free]
  BY DEF find_fit
<1>2. PICK R \in [Word -> SUBSET Word] :
        \A x \in Word : R[x] = {x} \cup (IF x \in S THEN {} ELSE R[N[x]])
  <2>1. Leads(N, Word, S)
    BY DEF Leads
  <2> HIDE DEF S, N
  <2>2. PICK R : Passed(R, N, Word, S)
    BY <2>1, Walks
  <2> QED BY <2>2 DEF Passed
<1> DEFINE found == [x \in Word |-> CHOOSE v : \E y \in R[x] \cap S : v = Value(y)]
<1>3. found = Body(found)
  <2>1. ASSUME NEW x \in Word
        PROVE  found[x] = IF Stops(x) THEN Value(x) ELSE found[NEXT_FREE(h, x)]
    <3>1. CASE Stops(x)
      <4>1. R[x] \cap S = {x}
        <5>1. x \in S
          BY <3>1
        <5> HIDE DEF S
        <5> QED BY <1>2, <5>1
      <4> HIDE DEF S, Value, Stops
      <4> QED BY <3>1, <4>1
    <3>2. CASE ~ Stops(x)
      <4>1. x \notin S /\ N[x] = NEXT_FREE(h, x) /\ N[x] \in Word
        BY <3>2
      <4>2. R[x] \cap S = R[N[x]] \cap S
        <5> HIDE DEF S, N
        <5> QED BY <1>2, <4>1
      <4> HIDE DEF S, N, Value, Stops
      <4> QED BY <3>2, <4>1, <4>2
    <3> QED BY <3>1, <3>2
  <2> HIDE DEF found
  <2>2. \A x \in Word : found[x] = Body(found)[x]
    BY <2>1
  <2>3. found = [x \in Word |-> found[x]]
    BY DEF found
  <2> QED BY <2>2, <2>3
<1>4. from = Body(from)
  <2> HIDE DEF found, Body
  <2> QED BY <1>3
<1> HIDE DEF from
<1>5. \A bp \in Word :
        from[bp] = IF GET_ALLOC(h, HDRP(bp)) = 1 THEN NULL
                   ELSE IF asize <= GET_SIZE(h, HDRP(bp)) THEN bp
                   ELSE IF NEXT_FREE(h, bp) \notin Word THEN NULL
                   ELSE from[NEXT_FREE(h, bp)]
  BY <1>4
<1> QED BY <1>1, <1>5

\* The search finds a free block that is large enough if there is one.
LEMMA FindFitFinds ==
  ASSUME NEW h, NEW C, NEW F, State(h, C, F), NEW asize \in Int
  PROVE  LET r == find_fit(h, asize)
         IN  \/ r = NULL /\ \A b, c : Follows(C, b, c) /\ b \in F => c - b < asize
             \/ r \in F /\ \A c : Follows(C, r, c) => asize <= c - r
<1>1. /\ Frame(h, C, F) /\ Linked(h, F) /\ h \in Heap
      /\ Cuts(C, h.brk) /\ F \subseteq C \ {h.brk} /\ Spaced(F)
  BY StateFacts
<1>2. PICK from :
        /\ find_fit(h, asize) = from[h.free]
        /\ \A bp \in Word :
             from[bp] = IF GET_ALLOC(h, HDRP(bp)) = 1 THEN NULL
                        ELSE IF asize <= GET_SIZE(h, HDRP(bp)) THEN bp
                        ELSE IF NEXT_FREE(h, bp) \notin Word THEN NULL
                        ELSE from[NEXT_FREE(h, bp)]
  BY <1>1, FindFitWalks
<1>3. PICK n \in Nat : \E list \in [1 .. n -> F] : LinkedAs(h, F, n, list)
  BY <1>1 DEF Linked
<1>4. PICK list \in [1 .. n -> F] : LinkedAs(h, F, n, list)
  BY <1>3
<1>5. \A x \in F \cup {Prologue} : x \in Word /\ x # NULL
  BY <1>1, LinkWordsFacts
<1>6. from[Prologue] = NULL
  <2>1. GET_ALLOC(h, HDRP(Prologue)) = 1
    BY <1>1 DEF Frame, GET_ALLOC, HDRP, Prologue, WSIZE
  <2> QED BY <1>2, <1>5, <2>1
<1> DEFINE Large(x) == \A c : Follows(C, x, c) => asize <= c - x
           Finds(k) == \/ from[list[k]] = NULL /\ \A j \in k .. n : ~ Large(list[j])
                       \/ from[list[k]] \in F /\ Large(from[list[k]])
<1>7. ASSUME NEW k \in 1 .. n
      PROVE  from[list[k]] = IF Large(list[k]) THEN list[k]
                             ELSE IF k = n THEN from[Prologue] ELSE from[list[k + 1]]
  <2>1. list[k] \in F /\ list[k] \in C /\ list[k] # h.brk /\ list[k] \in Word
    BY <1>1, <1>5
  <2>2. PICK c \in C : Follows(C, list[k], c)
    BY <1>1, <2>1, SuccessorExists
  <2>3. GET_ALLOC(h, HDRP(list[k])) = 0 /\ GET_SIZE(h, HDRP(list[k])) = c - list[k]
    BY <1>1, <2>1, <2>2, BlockReads
  <2>4. Large(list[k]) <=> asize <= c - list[k]
    BY <1>1, <2>2, FollowsUnique
  <2>5. NEXT_FREE(h, list[k]) = IF k = n THEN Prologue ELSE list[k + 1]
    BY <1>4 DEF LinkedAs
  <2>6. k # n => list[k + 1] \in F
    OBVIOUS
  <2>7. NEXT_FREE(h, list[k]) \in Word
    BY <1>5, <2>5, <2>6
  <2> HIDE DEF Large
  <2> QED BY <1>2, <2>1, <2>3, <2>4, <2>5, <2>7
<1>8. \A k \in 1 .. n : list[k] \in F
  OBVIOUS
<1> HIDE DEF Large
<1>9. \A k \in 1 .. n : Finds(k)
  <2> SUFFICES ASSUME NEW bad \in 1 .. n, ~ Finds(bad) PROVE FALSE
    OBVIOUS
  <2> DEFINE S == {i \in 0 .. n : \E k \in 1 .. n : i = n - k /\ ~ Finds(k)}
  <2>1. S \in SUBSET Nat /\ S # {}
    <3>1. n - bad \in 0 .. n /\ 0 .. n \subseteq Nat
      OBVIOUS
    <3> HIDE DEF Finds
    <3>2. n - bad \in S
      BY <3>1
    <3>3. S \subseteq Nat
      BY <3>1
    <3> QED BY <3>2, <3>3
  <2>2. PICK m \in S : \A i \in S : m <= i
    <3> HIDE DEF S
    <3> QED BY <2>1, LeastNat
  <2>3. PICK k \in 1 .. n : m = n - k /\ ~ Finds(k)
    BY <2>2
  <2>4. k # n => Finds(k + 1)
    <3> SUFFICES ASSUME k # n, ~ Finds(k + 1) PROVE FALSE
      OBVIOUS
    <3>1. k + 1 \in 1 .. n /\ n - (k + 1) \in 0 .. n
      OBVIOUS
    <3> HIDE DEF Finds
    <3>2. n - (k + 1) \in S
      BY <3>1
    <3>3. n - (k + 1) < m
      BY <2>3
    <3> HIDE DEF S
    <3> QED BY <2>2, <2>3, <3>2, <3>3
  <2>5. Finds(k)
    <3>1. CASE Large(list[k])
      BY <3>1, <1>7, <1>8
    <3>2. CASE ~ Large(list[k]) /\ k = n
      <4>1. \A j \in k .. n : j = k
        BY <3>2
      <4> QED BY <3>2, <4>1, <1>6, <1>7
    <3>3. CASE ~ Large(list[k]) /\ k # n
      <4>1. from[list[k]] = from[list[k + 1]]
        BY <3>3, <1>7
      <4>2. \A j \in k .. n : j = k \/ j \in (k + 1) .. n
        OBVIOUS
      <4> QED BY <2>4, <3>3, <4>1, <4>2
    <3> QED BY <3>1, <3>2, <3>3
  <2> QED BY <2>3, <2>5
<1>10. CASE n = 0
  <2>1. h.free = Prologue /\ F = {}
    BY <1>4, <1>10 DEF LinkedAs
  <2> QED BY <1>2, <1>6, <2>1
<1>11. CASE n # 0
  <2>1. h.free = list[1] /\ 1 \in 1 .. n
    BY <1>4, <1>11 DEF LinkedAs
  <2>2. CASE from[list[1]] = NULL /\ \A j \in 1 .. n : ~ Large(list[j])
    <3>1. ASSUME NEW b, NEW c, Follows(C, b, c), b \in F PROVE c - b < asize
      <4>1. PICK j \in 1 .. n : list[j] = b
        BY <1>4, <3>1 DEF LinkedAs
      <4>2. PICK d : Follows(C, b, d) /\ ~ (asize <= d - b)
        BY <2>2, <4>1 DEF Large
      <4>3. d = c /\ c \in Nat /\ b \in Nat
        BY <1>1, <3>1, <4>2, FollowsUnique, FollowsFacts
      <4> QED BY <4>2, <4>3
    <3> QED BY <1>2, <2>1, <2>2, <3>1
  <2>3. CASE from[list[1]] \in F /\ Large(from[list[1]])
    BY <1>2, <2>1, <2>3 DEF Large
  <2> QED BY <1>9, <2>1, <2>2, <2>3
<1> QED BY <1>10, <1>11
-----------------------------------------------------------------------------
(* The heap grows.                                                         *)

\* The result r of extend_heap, where the heap grows by incr bytes.
Extended(r, h, C, F, incr) ==
  \E D, E :
    /\ State(r.heap, D, E)
    /\ Held(D, E) = Held(C, F) /\ SameData(r.heap, h, Held(C, F))
    /\ r.bp \in E /\ \E end : Follows(D, r.bp, end) /\ incr <= end - r.bp

\* What extend_heap finds: a heap in order, but that there need be no epilogue.
Growable(h, C, F) == Frame(h, C, F) /\ Linked(h, F) /\ Apart(C, F)

LEMMA Grows ==
  ASSUME NEW h, NEW C, NEW F, Growable(h, C, F),
         NEW incr \in Nat, incr % 8 = 0, 24 <= incr, h.brk + incr <= MaxHeap
  PROVE  LET h1 == PutTags([h EXCEPT !.brk = h.brk + incr], h.brk, incr, 0)
             h2 == PUT(h1, HDRP(NEXT_BLKP(h1, h.brk)), PACK(0, 1))
         IN  Extended(coalesce(h2, h.brk), h, C, F, incr)
<1> DEFINE b  == h.brk
           c  == h.brk + incr
           h0 == [h EXCEPT !.brk = c]
           h1 == PutTags(h0, b, incr, 0)
           h2 == PUT(h1, HDRP(NEXT_BLKP(h1, b)), PACK(0, 1))
           D  == C \cup {c}
           G  == F \cup {b}
           H  == Held(C, F)
<1>1. /\ Frame(h, C, F) /\ Linked(h, F) /\ h \in Heap
      /\ Cuts(C, b) /\ F \subseteq C \ {b} /\ Apart(C, F)
      /\ b \in C /\ b \in Nat /\ c \in Nat /\ b % 8 = 0 /\ 48 <= b /\ First = 48
      /\ c - b = incr /\ c <= MaxHeap /\ b + incr = c /\ MaxHeap \in Nat
  BY FrameFacts DEF Growable, Frame
<1>2. c % 8 = 0 /\ b + 24 <= c
  BY <1>1
<1>3. /\ Cuts(D, c) /\ c \notin C
      /\ \A x, y : Follows(D, x, y) <=> (x = b /\ y = c) \/ Follows(C, x, y)
  <2>1. Cuts(C, b) /\ c \in Nat /\ c % 8 = 0 /\ b + 24 <= c
    BY <1>1, <1>2
  <2> HIDE DEF b, c
  <2> QED BY <2>1, GrowCuts
<1>4. h0 \in Heap /\ h0.mem = h.mem /\ h0.brk = c /\ h0.free = h.free
  BY <1>1 DEF Heap
<1>5. b - 4 \in Word /\ c - 8 \in Word /\ c - 4 \in Word
  BY <1>1, <1>2, TagsAreWords
<1> HIDE DEF h0
<1>6. /\ Keeps(h1, h0, {b - 4, c - 8}) /\ h1.free = h.free
      /\ h1.mem[b - 4] = incr /\ h1.mem[c - 8] = incr
  <2>1. /\ b - WSIZE = b - 4 /\ b + incr - DSIZE = c - 8 /\ b + incr - 8 = c - 8
        /\ incr + 0 = incr
    BY <1>1 DEF WSIZE, DSIZE
  <2>2. /\ Keeps(h1, h0, {b - 4, b + incr - 8}) /\ h1.free = h0.free
        /\ h1.mem[b - 4] = incr + 0 /\ h1.mem[b + incr - 8] = incr + 0
    <3>1. /\ b - WSIZE \in Word /\ b + incr - DSIZE \in Word /\ b \in Int /\ incr \in Int
          /\ h0 \in Heap
      BY <1>1, <1>4, <1>5, <2>1
    <3> HIDE DEF b, c
    <3> QED BY <3>1, PutTagsFacts
  <2> QED BY <1>4, <2>1, <2>2
<1> HIDE DEF h1
<1>7. HDRP(NEXT_BLKP(h1, b)) = c - 4 /\ PACK(0, 1) = 1
  <2>1. h1.mem[b - 4] - (h1.mem[b - 4] % 8) = incr
    BY <1>6
  <2> QED BY <1>1, <2>1 DEF HDRP, NEXT_BLKP, GET_SIZE, WSIZE, PACK
<1>8. Keeps(h2, h1, {c - 4}) /\ h2.mem[c - 4] = 1 /\ h2.free = h1.free
  <2>1. h2 = PUT(h1, c - 4, 1) /\ h1 \in Heap
    BY <1>6, <1>7 DEF Keeps
  <2> HIDE DEF h2, c
  <2>2. Keeps(PUT(h1, c - 4, 1), h1, {c - 4}) /\ PUT(h1, c - 4, 1).mem[c - 4] = 1
        /\ PUT(h1, c - 4, 1).free = h1.free
    BY <1>5, <2>1, PutFacts
  <2> QED BY <2>1, <2>2
<1> HIDE DEF h2
<1>9. /\ h2 \in Heap /\ h2.brk = c /\ h2.free = h.free
      /\ \A a \in Word \ {b - 4, c - 8, c - 4} : h2.mem[a] = h.mem[a]
      /\ h2.mem[b - 4] = incr /\ h2.mem[c - 8] = incr /\ h2.mem[c - 4] = 1
  <2>1. b - 4 # c - 4 /\ c - 8 # c - 4
    BY <1>1
  <2> QED BY <1>4, <1>5, <1>6, <1>8, <2>1 DEF Keeps
<1>10. Tagged(h2, D, G)
  <2> SUFFICES ASSUME NEW x \in D, NEW y \in D, Follows(D, x, y)
               PROVE  h2.mem[x - 4] = Tag(x, y, G) /\ h2.mem[y - 8] = Tag(x, y, G)
    BY DEF Tagged
  <2>1. CASE x = b /\ y = c
    BY <2>1, <1>1, <1>9 DEF Tag
  <2>2. CASE Follows(C, x, y)
    <3>1. /\ x \in C /\ y \in C /\ x \in Nat /\ y \in Nat /\ x # b /\ y <= b /\ x + 24 <= y
          /\ x % 8 = 0 /\ y % 8 = 0
      BY <2>2, <1>1, FollowsFacts
    <3>2. h.mem[x - 4] = Tag(x, y, G) /\ h.mem[y - 8] = Tag(x, y, G)
      BY <2>2, <3>1, <1>1 DEF Frame, Tagged, Tag
    <3>3. x - 4 \in Word /\ y - 8 \in Word
      BY <3>1, <1>1, TagWords
    <3>4. x - 4 \notin {b - 4, c - 8, c - 4} /\ y - 8 \notin {b - 4, c - 8, c - 4}
      BY <3>1, <1>1, <1>2
    <3> QED BY <3>2, <3>3, <3>4, <1>9
  <2> QED BY <1>3, <2>1, <2>2
<1>11. Frame(h2, D, G)
  <2>1. 40 \in Word /\ 4 \in Word
    BY WordFact, MMHeapAssumption
  <2>2. 40 \notin {b - 4, c - 8, c - 4} /\ 4 \notin {b - 4, c - 8, c - 4}
    BY <1>1, <1>2
  <2>3. h2.mem[40] = 0 /\ h2.mem[4] = 25
    BY <2>1, <2>2, <1>1, <1>9 DEF Frame
  <2>4. G \subseteq D \ {c}
    BY <1>1, <1>3
  <2> QED BY <2>3, <2>4, <1>1, <1>3, <1>9, <1>10 DEF Frame
<1>12. Linked(h2, F)
  <2>1. Spaced(F)
    BY <1>1, BlocksSpaced
  <2>2. ASSUME NEW a \in {b - 4, c - 8, c - 4} PROVE a \notin Links(F)
    <3>1. ASSUME NEW x \in F \cup {Prologue} PROVE x + 24 <= b
      BY <1>1, FrameFacts DEF Prologue
    <3>2. \A x \in F \cup {Prologue} : x \in Nat
      BY <1>1, FrameFacts DEF Prologue
    <3>3. \A x \in F \cup {Prologue} : ~ (x <= a /\ a < x + 16)
      BY <3>1, <3>2, <1>1, <1>2
    <3> QED BY <3>3 DEF Links
  <2>3. PICK n \in Nat : \E list \in [1 .. n -> F] : LinkedAs(h, F, n, list)
    BY <1>1 DEF Linked
  <2>4. PICK list \in [1 .. n -> F] : LinkedAs(h, F, n, list)
    BY <2>3
  <2>5. \A x \in F : h2.mem[x] = h.mem[x] /\ h2.mem[x + 8] = h.mem[x + 8]
    <3> SUFFICES ASSUME NEW x \in F
                 PROVE  h2.mem[x] = h.mem[x] /\ h2.mem[x + 8] = h.mem[x + 8]
      OBVIOUS
    <3>1. x \in Word /\ x + 8 \in Word /\ x \in Nat
      BY <2>1, LinkWordsFacts
    <3>2. x \in Links(F) /\ x + 8 \in Links(F)
      BY <3>1 DEF Links
    <3> QED BY <2>2, <3>1, <3>2, <1>9
  <2>6. LinkedAs(h2, F, n, list)
    BY <2>4, <2>5, <1>9 DEF LinkedAs, NEXT_FREE, PREV_FREE, DSIZE
  <2> QED BY <2>6 DEF Linked
<1>13. Pending(h2, D, G, b)
  <2>1. G \ {b} = F
    BY <1>1
  <2>2. Sealed(h2, D, G, F)
    BY <1>9, <1>11, <1>12 DEF Sealed
  <2>3. \A x, y \in D : Follows(D, x, y) /\ x \in G /\ y \in G => x = b \/ y = b
    <3>1. \A x, y : Follows(C, x, y) => x \in C /\ y \in C
      BY DEF Follows
    <3> QED BY <3>1, <1>1, <1>3 DEF Apart
  <2> QED BY <2>1, <2>2, <2>3 DEF Pending
<1>14. Held(D, G) = H
  <2>1. ASSUME NEW p \in Held(D, G) PROVE p \in H
    <3>1. Follows(D, p[1], p[2]) /\ p[1] \notin G /\ p = <<p[1], p[2]>>
      BY DEF Held
    <3>2. Follows(C, p[1], p[2]) /\ p[1] \notin F
      BY <3>1, <1>3
    <3> QED BY <3>1, <3>2 DEF Held, Follows
  <2>2. ASSUME NEW p \in H PROVE p \in Held(D, G)
    <3>1. Follows(C, p[1], p[2]) /\ p[1] \notin F /\ p = <<p[1], p[2]>>
      BY DEF Held
    <3>2. p[1] # b
      BY <3>1, <1>1, FollowsFacts
    <3> QED BY <3>1, <3>2, <1>3 DEF Held, Follows
  <2> QED BY <2>1, <2>2
<1>15. SameData(h2, h, H)
  <2> SUFFICES ASSUME NEW p \in H, NEW a \in Word, p[1] <= a, a < p[2] - 8
               PROVE  h2.mem[a] = h.mem[a]
    BY DEF SameData
  <2>1. Follows(C, p[1], p[2])
    BY DEF Held
  <2>2. p[1] \in Nat /\ p[2] \in Nat /\ p[2] <= b /\ a \in Nat
    BY <2>1, <1>1, FollowsFacts, WordFact
  <2>3. a \notin {b - 4, c - 8, c - 4}
    BY <2>2, <1>1, <1>2
  <2> QED BY <2>3, <1>9
<1>16. Follows(D, b, c)
  BY <1>3
<1> HIDE DEF D, G, H
<1>17. Settled(coalesce(h2, b), h2, D, G, b, c)
  BY <1>13, <1>16, CoalesceKeepsOrder
<1> DEFINE r == coalesce(h2, b)
<1> HIDE DEF r
<1>18. PICK D2, E2 :
         /\ State(r.heap, D2, E2)
         /\ Held(D2, E2) = Held(D, G) /\ SameData(r.heap, h2, Held(D, G))
         /\ r.bp \in E2 /\ r.bp <= b
         /\ \E end : Follows(D2, r.bp, end) /\ c <= end
  BY <1>17 DEF Settled, r
<1>19. PICK end : Follows(D2, r.bp, end) /\ c <= end
  BY <1>18
<1>20. incr <= end - r.bp
  <2>1. r.bp \in Nat /\ end \in Nat
    BY <1>18, <1>19, StateFacts, FollowsFacts
  <2> QED BY <2>1, <1>1, <1>18, <1>19
<1>21. SameData(r.heap, h, H)
  BY <1>14, <1>15, <1>18, SameDataTransitive
<1>22. Extended(r, h, C, F, incr)
  BY <1>14, <1>18, <1>19, <1>20, <1>21 DEF Extended, H
<1> QED BY <1>22 DEF r, h2, h1, h0

LEMMA ExtendKeepsOrder ==
  ASSUME NEW h, NEW C, NEW F, Growable(h, C, F), NEW words \in Nat
  PROVE  LET r    == extend_heap(h, words)
             incr == MAX(4 * (words + (words % 2)), MINIMUM)
         IN  (r.bp = NULL /\ r.heap = h) \/ Extended(r, h, C, F, incr)
<1> DEFINE incr == MAX(4 * (words + (words % 2)), MINIMUM)
           s    == mem_sbrk(h, incr)
           r    == extend_heap(h, words)
<1>1. incr \in Nat /\ incr % 8 = 0 /\ 24 <= incr
  <2>1. words + (words % 2) \in Nat /\ (4 * (words + (words % 2))) % 8 = 0
    OBVIOUS
  <2> QED BY <2>1 DEF MAX, MINIMUM
<1> HIDE DEF incr
<1>2. CASE int(incr) < 0 \/ h.brk + incr > MaxHeap
  <2>1. s = [heap |-> h, bp |-> NULL]
    BY <1>2 DEF mem_sbrk
  <2>2. r = s
    BY <2>1 DEF extend_heap, incr
  <2> QED BY <2>1, <2>2
<1>3. CASE ~ (int(incr) < 0 \/ h.brk + incr > MaxHeap)
  <2> DEFINE h1 == PutTags([h EXCEPT !.brk = h.brk + incr], h.brk, incr, 0)
             h2 == PUT(h1, HDRP(NEXT_BLKP(h1, h.brk)), PACK(0, 1))
  <2>1. s = [heap |-> [h EXCEPT !.brk = h.brk + incr], bp |-> h.brk]
    BY <1>3 DEF mem_sbrk
  <2>2. h.brk # NULL /\ h.brk \in Nat /\ h.brk + incr <= MaxHeap
    BY <1>1, <1>3, FrameFacts DEF Growable, NULL
  <2>3. r = coalesce(h2, h.brk)
    BY <2>1, <2>2 DEF extend_heap, incr
  <2>4. Extended(coalesce(h2, h.brk), h, C, F, incr)
    BY <1>1, <2>2, Grows
  <2> QED BY <2>3, <2>4 DEF incr
<1> QED BY <1>2, <1>3 DEF incr
-----------------------------------------------------------------------------
(* Allocating.                                                             *)

LEMMA HeldFacts ==
  ASSUME NEW h, NEW C, NEW F, State(h, C, F), NEW b, NEW c, <<b, c>> \in Held(C, F)
  PROVE  /\ Follows(C, b, c) /\ b \notin F /\ b \in C /\ c \in C /\ b # h.brk
         /\ b \in Nat /\ c \in Nat /\ b % 8 = 0 /\ c % 8 = 0 /\ 48 <= b /\ b + 24 <= c
         /\ c <= h.brk /\ h.brk <= MaxHeap /\ MaxHeap \in Nat /\ h.brk \in Nat
         /\ \A d \in C : d \in Nat /\ (d = b \/ d = c \/ d + 24 <= b \/ c + 24 <= d)
<1>1. Follows(C, b, c) /\ b \notin F
  BY DEF Held
<1>2. Frame(h, C, F) /\ Cuts(C, h.brk)
  BY StateFacts
<1> QED BY <1>1, <1>2, FollowsFacts, FrameFacts

LEMMA HeldApart ==
  ASSUME NEW h, NEW C, NEW F, State(h, C, F), NEW b, NEW c, <<b, c>> \in Held(C, F),
         NEW x, NEW y, <<x, y>> \in Held(C, F)
  PROVE  (x = b /\ y = c) \/ y <= b \/ c <= x
<1>1. /\ Follows(C, b, c) /\ Follows(C, x, y) /\ Cuts(C, h.brk)
      /\ x \in C /\ y \in C /\ x \in Nat /\ y \in Nat /\ b \in Nat /\ c \in Nat /\ x < y
      /\ \A d \in C : d \in Nat /\ (d = b \/ d = c \/ d + 24 <= b \/ c + 24 <= d)
  BY HeldFacts, StateFacts DEF Follows
<1>2. x = b => y = c
  BY <1>1, FollowsUnique
<1>3. ~ (x < b /\ b < y)
  BY <1>1 DEF Follows
<1> QED BY <1>1, <1>2, <1>3

Payload(b, c) == {a \in Word : b <= a /\ a < c - 8}

\* Writing into the payload of an allocated block.
LEMMA PayloadWritten ==
  ASSUME NEW h, NEW C, NEW F, State(h, C, F), NEW b, NEW c, <<b, c>> \in Held(C, F),
         NEW g, Keeps(g, h, Payload(b, c)), g.free = h.free
  PROVE  State(g, C, F) /\ SameData(g, h, Held(C, F) \ {<<b, c>>})
<1> DEFINE A == Payload(b, c)
<1>1. /\ Frame(h, C, F) /\ h.mem[h.brk - 4] = 1 /\ Linked(h, F) /\ h \in Heap
      /\ Cuts(C, h.brk) /\ F \subseteq C \ {h.brk} /\ Spaced(F) /\ h.brk \in C
  BY StateFacts, FrameFacts
<1>2. /\ b \notin F /\ b \in Nat /\ c \in Nat /\ 48 <= b /\ b + 24 <= c
      /\ \A d \in C : d \in Nat /\ (d = b \/ d = c \/ d + 24 <= b \/ c + 24 <= d)
  BY HeldFacts
<1>3. \A x \in C : g.mem[x - 4] = h.mem[x - 4] /\ g.mem[x - 8] = h.mem[x - 8]
  <2> SUFFICES ASSUME NEW x \in C
               PROVE  g.mem[x - 4] = h.mem[x - 4] /\ g.mem[x - 8] = h.mem[x - 8]
    OBVIOUS
  <2>1. x - 4 \in Word /\ x - 8 \in Word
    BY <1>1, TagWords
  <2>2. x - 4 \notin A /\ x - 8 \notin A
    BY <1>2 DEF Payload
  <2> QED BY <2>1, <2>2 DEF Keeps
<1>4. g.mem[40] = h.mem[40] /\ g.mem[4] = h.mem[4] /\ g \in Heap /\ g.brk = h.brk
  <2>1. 40 \in Word /\ 4 \in Word
    BY WordFact, MMHeapAssumption
  <2>2. 40 \notin A /\ 4 \notin A
    BY <1>2 DEF Payload
  <2> QED BY <2>1, <2>2 DEF Keeps
<1>5. Frame(g, C, F) /\ g.mem[g.brk - 4] = 1
  BY <1>1, <1>3, <1>4 DEF Frame, Tagged
<1>6. Linked(g, F)
  <2>1. ASSUME NEW a \in A PROVE a \notin Links(F)
    <3>1. a \in Nat /\ b <= a /\ a < c
      BY <1>2, WordFact DEF Payload
    <3>2. ASSUME NEW x \in F \cup {Prologue} PROVE ~ (x <= a /\ a < x + 16)
      <4>1. CASE x = Prologue
        BY <4>1, <3>1, <1>2 DEF Prologue
      <4>2. CASE x \in F
        <5>1. x \in C /\ x # b
          BY <4>2, <1>1, <1>2
        <5> QED BY <5>1, <3>1, <1>2
      <4> QED BY <4>1, <4>2
    <3> QED BY <3>2 DEF Links
  <2>2. A \cap Links(F) = {}
    BY <2>1
  <2> HIDE DEF A
  <2>3. Keeps(g, h, A)
    BY DEF A
  <2> QED BY <1>1, <2>2, <2>3, LinkedKept
<1>7. State(g, C, F)
  BY <1>1, <1>4, <1>5, <1>6 DEF State, Sealed
<1>8. SameData(g, h, Held(C, F) \ {<<b, c>>})
  <2> SUFFICES ASSUME NEW p \in Held(C, F) \ {<<b, c>>}, NEW a \in Word, p[1] <= a, a < p[2] - 8
               PROVE  g.mem[a] = h.mem[a]
    BY DEF SameData
  <2> DEFINE x == p[1]
             y == p[2]
  <2>1. <<x, y>> \in Held(C, F) /\ <<x, y>> # <<b, c>>
    BY DEF Held
  <2>2. x <= a /\ a < y - 8
    OBVIOUS
  <2> HIDE DEF x, y
  <2>3. y <= b \/ c <= x
    BY <2>1, HeldApart
  <2>4. x \in Nat /\ y \in Nat /\ a \in Nat
    BY <2>1, HeldFacts, WordFact
  <2>5. a \notin A
    BY <2>2, <2>3, <2>4, <1>2 DEF Payload
  <2> QED BY <2>5 DEF Keeps
<1> QED BY <1>7, <1>8

LEMMA WordsOfFact ==
  ASSUME NEW p \in Nat, NEW n \in Nat
  PROVE  \A a : a \in WordsOf(p, n) <=> \E k \in Nat : 4 * k < n /\ a = p + 4 * k
<1>1. \A k \in Nat : k \in 0 .. ((n + 3) \div 4) - 1 <=> 4 * k < n
  OBVIOUS
<1>2. \A k \in 0 .. ((n + 3) \div 4) - 1 : k \in Nat
  OBVIOUS
<1> QED BY <1>1, <1>2 DEF WordsOf

\* Sizes whose blocks the code computes in range.
Moderate(size) == size \in Nat /\ size + 15 < WordLimit \div 2

LEMMA ModerateFits ==
  ASSUME NEW size, Moderate(size), size # 0
  PROVE  LET asize == AdjustedSize(size)
         IN  asize \in Nat /\ asize % 8 = 0 /\ 24 <= asize /\ size + 8 <= asize
<1>1. size \in Nat /\ size > 0 /\ size + 15 < WordLimit \div 2
  BY DEF Moderate
<1>2. /\ AdjustedSize(size) % 8 = 0 /\ AdjustedSize(size) >= MINIMUM
      /\ size <= AdjustedSize(size) - DSIZE
      /\ AdjustedSize(size) <= size + 15 \/ AdjustedSize(size) = MINIMUM
  BY <1>1, AdjustedSizeFits
<1>3. AdjustedSize(size) \in Int
  <2>1. \A n \in Nat : uint32(n) \in Nat
    BY MMHeapAssumption DEF uint32
  <2>2. \A n \in Nat : int(n) \in Int
    BY MMHeapAssumption DEF int
  <2>3. ALIGN(size) \in Nat
    <3>1. uint32(size + 7) \in Nat
      BY <1>1, <2>1
    <3> QED BY <3>1 DEF ALIGN
  <2>4. int(uint32(ALIGN(size) + DSIZE)) \in Int
    BY <2>1, <2>2, <2>3 DEF DSIZE
  <2> QED BY <2>4 DEF AdjustedSize, MAX, MINIMUM
<1> QED BY <1>1, <1>2, <1>3 DEF MINIMUM, DSIZE

\* The result r of a malloc that finds a block of asize bytes.
Allocated(r, h, C, F, asize) ==
  /\ r.bp # NULL /\ \A p \in Held(C, F) : p[1] # r.bp
  /\ \E e \in Nat : r.bp + asize <= e
                    /\ Ordered(r.heap, h, Held(C, F) \cup {<<r.bp, e>>}, Held(C, F))

Refused(r, h, C, F, asize) ==
  /\ r.bp = NULL /\ r.heap = h
  /\ \A b, c : Follows(C, b, c) /\ b \in F => c - b < asize

LEMMA MallocKeepsOrder ==
  ASSUME NEW h, NEW C, NEW F, State(h, C, F), NEW size, Moderate(size), size # 0
  PROVE  LET r == mm_malloc(h, size)
         IN  \/ Refused(r, h, C, F, AdjustedSize(size))
             \/ Allocated(r, h, C, F, AdjustedSize(size))
<1> DEFINE asize == AdjustedSize(size)
           bp    == find_fit(h, asize)
           words == MAX(asize, CHUNKSIZE) \div WSIZE
           more  == extend_heap(h, words)
           found == IF bp # NULL THEN [heap |-> h, bp |-> bp] ELSE more
           r     == mm_malloc(h, size)
<1>1. asize \in Nat /\ asize % 8 = 0 /\ 24 <= asize
  BY ModerateFits
<1>2. r = IF found.bp = NULL THEN [heap |-> h, bp |-> NULL]
          ELSE [heap |-> place(found.heap, found.bp, asize), bp |-> found.bp]
  BY DEF mm_malloc
<1> HIDE DEF asize
<1>3. /\ Frame(h, C, F) /\ Cuts(C, h.brk) /\ F \subseteq C \ {h.brk}
      /\ Growable(h, C, F) /\ SameData(h, h, Held(C, F))
  BY StateFacts DEF State, Growable, SameData
<1>4. \/ bp = NULL /\ \A b, c : Follows(C, b, c) /\ b \in F => c - b < asize
      \/ bp \in F /\ \A c : Follows(C, bp, c) => asize <= c - bp
  BY <1>1, FindFitFinds
<1>5. words \in Nat /\ MAX(4 * (words + (words % 2)), MINIMUM) = asize
  <2>1. asize \div 4 \in Nat /\ (asize \div 4) % 2 = 0 /\ 4 * (asize \div 4) = asize
    BY <1>1
  <2>2. words = asize \div 4
    BY <1>1 DEF MAX, CHUNKSIZE, WSIZE
  <2> QED BY <2>1, <2>2, <1>1 DEF MAX, MINIMUM
<1>6. (more.bp = NULL /\ more.heap = h) \/ Extended(more, h, C, F, asize)
  <2> HIDE DEF words
  <2> QED BY <1>3, <1>5, ExtendKeepsOrder
<1> HIDE DEF bp, more, r, words
\* A block b of the heap g, free and large enough, is placed in.
<1>7. ASSUME NEW g, NEW D, NEW E, State(g, D, E), Held(D, E) = Held(C, F),
             SameData(g, h, Held(C, F)), NEW b \in E, NEW c, Follows(D, b, c), asize <= c - b,
             r = [heap |-> place(g, b, asize), bp |-> b]
      PROVE  Allocated(r, h, C, F, asize)
  <2>1. PICK e \in Nat : /\ b + asize <= e /\ e <= c
                         /\ Ordered(place(g, b, asize), g, Held(D, E) \cup {<<b, e>>}, Held(D, E))
    BY <1>1, <1>7, PlaceKeepsOrder
  <2>2. Ordered(place(g, b, asize), h, Held(C, F) \cup {<<b, e>>}, Held(C, F))
    <3> DEFINE H == Held(C, F)
    <3> HIDE DEF H
    <3>1. Held(D, E) = H /\ SameData(g, h, H)
      BY <1>7 DEF H
    <3>2. PICK D2, E2 : /\ State(place(g, b, asize), D2, E2)
                        /\ Held(D2, E2) = H \cup {<<b, e>>}
                        /\ SameData(place(g, b, asize), g, H)
      BY <2>1, <3>1 DEF Ordered
    <3>3. SameData(place(g, b, asize), h, H)
      BY <3>1, <3>2, SameDataTransitive
    <3> QED BY <3>2, <3>3 DEF Ordered, H
  <2>3. b # NULL
    <3>1. b \in D /\ Frame(g, D, E)
      BY <1>7, StateFacts
    <3> QED BY <3>1, FrameFacts DEF NULL
  <2>4. \A p \in Held(C, F) : p[1] # b
    BY <1>7 DEF Held
  <2>5. r.bp = b /\ r.heap = place(g, b, asize)
    BY <1>7
  <2> QED BY <2>1, <2>2, <2>3, <2>4, <2>5 DEF Allocated
<1>8. ASSUME bp # NULL PROVE Allocated(r, h, C, F, asize)
  <2>1. bp \in F /\ bp \in C /\ bp # h.brk
    BY <1>3, <1>4, <1>8
  <2>2. PICK c \in C : Follows(C, bp, c)
    BY <1>3, <2>1, SuccessorExists
  <2>3. asize <= c - bp
    BY <1>4, <1>8, <2>2
  <2>4. r = [heap |-> place(h, bp, asize), bp |-> bp]
    BY <1>2, <1>8
  <2> QED BY <1>3, <1>7, <2>1, <2>2, <2>3, <2>4
<1>9. ASSUME bp = NULL, more.bp = NULL PROVE Refused(r, h, C, F, asize)
  <2>1. r = [heap |-> h, bp |-> NULL]
    BY <1>2, <1>9
  <2>2. bp \notin F
    <3>1. \A x \in F : x # NULL
      BY StateFacts, FrameFacts DEF NULL
    <3> QED BY <3>1, <1>9
  <2> QED BY <1>4, <2>1, <2>2 DEF Refused
<1>10. ASSUME bp = NULL, more.bp # NULL PROVE Allocated(r, h, C, F, asize)
  <2>1. r = [heap |-> place(more.heap, more.bp, asize), bp |-> more.bp]
    BY <1>2, <1>10
  <2>2. Extended(more, h, C, F, asize)
    BY <1>6, <1>10
  <2>3. PICK D, E :
          /\ State(more.heap, D, E)
          /\ Held(D, E) = Held(C, F) /\ SameData(more.heap, h, Held(C, F))
          /\ more.bp \in E /\ \E end : Follows(D, more.bp, end) /\ asize <= end - more.bp
    BY <2>2 DEF Extended
  <2>4. PICK end : Follows(D, more.bp, end) /\ asize <= end - more.bp
    BY <2>3
  <2> QED BY <1>7, <2>1, <2>3, <2>4
<1>11. Refused(r, h, C, F, asize) \/ Allocated(r, h, C, F, asize)
  BY <1>8, <1>9, <1>10
<1> QED BY <1>11 DEF r, asize
-----------------------------------------------------------------------------
(* Reallocating.                                                           *)

LEMMA SameDataPart ==
  ASSUME NEW g, NEW h, NEW H, SameData(g, h, H), NEW K, K \subseteq H
  PROVE  SameData(g, h, K)
BY DEF SameData

\* The result r of a realloc of the block from b to c that has not failed.
Resized(r, h, K, b, c, size, asize) ==
  /\ r.bp # NULL /\ \A p \in K : p[1] # r.bp
  /\ \E e \in Nat : r.bp + asize <= e /\ Ordered(r.heap, h, K \cup {<<r.bp, e>>}, K)
  /\ \A k \in Nat : 4 * k < size /\ b + 4 * k < c - 8 => r.heap.mem[r.bp + 4 * k] = h.mem[b + 4 * k]

\* memcpy changes the words it is told to, and they become those of the source.
Copied(g, h, dst, src, n) ==
  /\ Keeps(g, h, WordsOf(dst, n)) /\ g.free = h.free
  /\ \A k \in Nat : 4 * k < n => g.mem[dst + 4 * k] = h.mem[src + 4 * k]

LEMMA MemcpyFacts ==
  ASSUME NEW h \in Heap, NEW dst \in Nat, NEW src \in Nat, NEW n \in Nat,
         \A k \in Nat : 4 * k < n => dst + 4 * k \in Word /\ src + 4 * k \in Word
  PROVE  Copied(memcpy(h, dst, src, n), h, dst, src, n)
<1> DEFINE g == memcpy(h, dst, src, n)
           A == WordsOf(dst, n)
<1>1. \A a : a \in A <=> \E k \in Nat : 4 * k < n /\ a = dst + 4 * k
  BY WordsOfFact
<1> HIDE DEF A
<1>2. g = [h EXCEPT !.mem = [a \in Word |-> IF a \in A THEN h.mem[src + (a - dst)] ELSE h.mem[a]]]
  BY DEF memcpy, A
<1> HIDE DEF g
<1>3. ASSUME NEW a \in A PROVE h.mem[src + (a - dst)] \in Int
  <2>1. PICK k \in Nat : 4 * k < n /\ a = dst + 4 * k
    BY <1>1
  <2>2. src + (a - dst) = src + 4 * k
    BY <2>1
  <2> QED BY <2>1, <2>2 DEF Heap
<1>4. [a \in Word |-> IF a \in A THEN h.mem[src + (a - dst)] ELSE h.mem[a]] \in [Word -> Int]
  BY <1>3 DEF Heap
<1>5. Keeps(g, h, A) /\ g.free = h.free
  BY <1>2, <1>4 DEF Keeps, Heap
<1>6. ASSUME NEW k \in Nat, 4 * k < n PROVE g.mem[dst + 4 * k] = h.mem[src + 4 * k]
  <2>1. dst + 4 * k \in A /\ dst + 4 * k \in Word /\ src + ((dst + 4 * k) - dst) = src + 4 * k
    BY <1>1, <1>6
  <2> QED BY <1>2, <2>1 DEF Heap
<1> QED BY <1>5, <1>6 DEF A, g, Copied

\* The block is copied to a new one and freed.
LEMMA MovedKeepsOrder ==
  ASSUME NEW h, NEW C, NEW F, State(h, C, F), NEW b, NEW c, <<b, c>> \in Held(C, F),
         NEW size \in Nat, NEW asize \in Nat, size + 8 <= asize,
         NEW new, Allocated(new, h, C, F, asize)
  PROVE  LET n == IF size < c - b THEN size ELSE c - b
         IN  Resized([heap |-> Moved(new.heap, new.bp, b, n), bp |-> new.bp], h,
                     Held(C, F) \ {<<b, c>>}, b, c, size, asize)
<1> DEFINE n == IF size < c - b THEN size ELSE c - b
           p == new.bp
           h1 == new.heap
           g == memcpy(h1, p, b, n)
           f == mm_free(g, b)
           H == Held(C, F)
           K == H \ {<<b, c>>}
<1>1. p # NULL /\ \A q \in H : q[1] # p
  BY DEF Allocated
<1>2. PICK e \in Nat : p + asize <= e /\ Ordered(h1, h, H \cup {<<p, e>>}, H)
  BY DEF Allocated
<1>3. PICK D, E : State(h1, D, E) /\ Held(D, E) = H \cup {<<p, e>>} /\ SameData(h1, h, H)
  BY <1>2 DEF Ordered
<1> HIDE DEF p, h1
<1>4. /\ b \in Nat /\ c \in Nat /\ b % 8 = 0 /\ c % 8 = 0 /\ 48 <= b /\ b + 24 <= c
      /\ c <= h.brk /\ h.brk <= MaxHeap /\ MaxHeap \in Nat /\ h.brk \in Nat
  BY HeldFacts
<1>5. <<p, e>> \in Held(D, E) /\ <<b, c>> \in Held(D, E) /\ <<b, c>> \in H
  BY <1>3
<1>6. p \in Nat /\ p % 8 = 0 /\ e % 8 = 0 /\ 48 <= p /\ e <= MaxHeap
  <2>1. State(h1, D, E) /\ <<p, e>> \in Held(D, E)
    BY <1>3, <1>5
  <2>2. e <= h1.brk /\ h1.brk <= MaxHeap /\ h1.brk \in Nat
    BY <2>1, HeldFacts
  <2>3. p \in Nat /\ p % 8 = 0 /\ e % 8 = 0 /\ 48 <= p
    BY <2>1, HeldFacts
  <2> QED BY <1>4, <2>2, <2>3
<1>7. n \in Nat /\ n <= size /\ n <= c - b
  BY <1>4
<1>8. \A k \in Nat : 4 * k < size /\ b + 4 * k < c - 8 => 4 * k < n
  BY <1>4
<1> HIDE DEF n
<1>9. ASSUME NEW k \in Nat, 4 * k < size
      PROVE  p + 4 * k \in Word /\ p <= p + 4 * k /\ p + 4 * k < e - 8
  <2>1. p + 4 * k < e - 8 /\ (p + 4 * k) % 4 = 0 /\ p + 4 * k < MaxHeap
    BY <1>2, <1>6, <1>9, <1>4
  <2> QED BY <2>1, <1>6, WordFact
<1>10. ASSUME NEW k \in Nat, 4 * k < n PROVE b + 4 * k \in Word
  <2>1. b + 4 * k < MaxHeap /\ (b + 4 * k) % 4 = 0
    BY <1>4, <1>7, <1>10
  <2> QED BY <2>1, <1>4, WordFact
<1>11. Copied(g, h1, p, b, n)
  <2>1. h1 \in Heap
    BY <1>3, StateFacts
  <2>2. \A k \in Nat : 4 * k < n => p + 4 * k \in Word /\ b + 4 * k \in Word
    BY <1>7, <1>9, <1>10
  <2> HIDE DEF n
  <2> QED BY <1>4, <1>6, <1>7, <2>1, <2>2, MemcpyFacts
<1> HIDE DEF g
<1>12. State(g, D, E) /\ SameData(g, h1, Held(D, E) \ {<<p, e>>})
  <2>1. WordsOf(p, n) \subseteq Payload(p, e)
    <3>1. \A a : a \in WordsOf(p, n) <=> \E k \in Nat : 4 * k < n /\ a = p + 4 * k
      BY <1>6, <1>7, WordsOfFact
    <3> QED BY <1>7, <1>9, <3>1 DEF Payload
  <2>2. Keeps(g, h1, Payload(p, e)) /\ g.free = h1.free
    BY <1>11, <2>1 DEF Copied, Keeps
  <2> QED BY <1>3, <1>5, <2>2, PayloadWritten
<1>13. Ordered(f, g, Held(D, E) \ {<<b, c>>}, Held(D, E) \ {<<b, c>>})
  <2>1. Follows(D, b, c) /\ b \notin E
    BY <1>5 DEF Held
  <2> QED BY <1>12, <2>1, FreeKeepsOrder
<1> HIDE DEF f
<1>14. Held(D, E) \ {<<b, c>>} = K \cup {<<p, e>>}
  <2>1. <<p, e>> # <<b, c>>
    BY <1>1, <1>5
  <2> QED BY <1>3, <2>1
<1>15. /\ K \subseteq H /\ K \subseteq Held(D, E) \ {<<p, e>>} /\ K \subseteq K \cup {<<p, e>>}
  <2>1. <<p, e>> \notin H
    BY <1>1
  <2> QED BY <1>3, <2>1
<1> HIDE DEF H, K
<1>16. PICK D2, E2 : /\ State(f, D2, E2) /\ Held(D2, E2) = K \cup {<<p, e>>}
                     /\ SameData(f, g, K \cup {<<p, e>>})
  BY <1>13, <1>14 DEF Ordered
<1>17. Ordered(f, h, K \cup {<<p, e>>}, K)
  <2>1. SameData(f, g, K) /\ SameData(g, h1, K) /\ SameData(h1, h, K)
    BY <1>3, <1>12, <1>15, <1>16, SameDataPart
  <2>2. SameData(g, h, K)
    BY <2>1, SameDataTransitive
  <2>3. SameData(f, h, K)
    BY <2>1, <2>2, SameDataTransitive
  <2> QED BY <1>16, <2>3 DEF Ordered
<1>18. ASSUME NEW k \in Nat, 4 * k < size, b + 4 * k < c - 8
       PROVE  f.mem[p + 4 * k] = h.mem[b + 4 * k]
  <2>1. 4 * k < n
    BY <1>8, <1>18
  <2>2. g.mem[p + 4 * k] = h1.mem[b + 4 * k]
    BY <1>11, <2>1 DEF Copied
  <2>3. f.mem[p + 4 * k] = g.mem[p + 4 * k]
    <3>1. <<p, e>> \in K \cup {<<p, e>>} /\ <<p, e>>[1] = p /\ <<p, e>>[2] = e
      OBVIOUS
    <3>2. p + 4 * k \in Word /\ p <= p + 4 * k /\ p + 4 * k < e - 8
      BY <1>9, <1>18
    <3> QED BY <1>16, <3>1, <3>2 DEF SameData
  <2>4. h1.mem[b + 4 * k] = h.mem[b + 4 * k]
    <3>1. <<b, c>> \in H /\ <<b, c>>[1] = b /\ <<b, c>>[2] = c
      BY <1>5
    <3>2. b + 4 * k \in Word /\ b <= b + 4 * k
      BY <1>4, <1>10, <2>1
    <3> QED BY <1>3, <1>18, <3>1, <3>2 DEF SameData
  <2> QED BY <2>2, <2>3, <2>4
<1>19. \A q \in K : q[1] # p
  BY <1>1, <1>15
<1>20. Resized([heap |-> f, bp |-> p], h, K, b, c, size, asize)
  BY <1>1, <1>2, <1>17, <1>18, <1>19 DEF Resized
<1> QED BY <1>20 DEF f, g, n, p, h1, K, H, Moved

\* In g the block from b to c is cut at d, and its rest has an allocated header.
LEMMA CutOff ==
  ASSUME NEW h, NEW C, NEW F, State(h, C, F), NEW b, NEW c, <<b, c>> \in Held(C, F),
         NEW d \in Nat, d % 8 = 0, b + 24 <= d, d + 24 <= c
  PROVE  LET h1 == PUT(PutTags(h, b, d - b, 1), HDRP(d), PACK(c - d, 1))
         IN  SplitWritten(PutTags(h1, d, GET_SIZE(h1, HDRP(d)), 0), h, F, b, d, c)
<1> DEFINE h0 == PutTags(h, b, d - b, 1)
           h1 == PUT(h0, HDRP(d), PACK(c - d, 1))
           g  == PutTags(h1, d, c - d, 0)
<1>1. /\ Frame(h, C, F) /\ Linked(h, F) /\ h \in Heap /\ Spaced(F)
      /\ F \subseteq C \ {h.brk}
  BY StateFacts
<1>2. /\ Follows(C, b, c) /\ b \notin F /\ b \in C /\ c \in C
      /\ b \in Nat /\ c \in Nat /\ b % 8 = 0 /\ c % 8 = 0 /\ 48 <= b /\ c <= MaxHeap
      /\ \A x \in C : x \in Nat /\ (x = b \/ x = c \/ x + 24 <= b \/ c + 24 <= x)
  <2>1. c <= h.brk /\ h.brk <= MaxHeap /\ h.brk \in Nat /\ MaxHeap \in Nat /\ c \in Nat
    BY HeldFacts
  <2> QED BY <2>1, HeldFacts
<1>3. Marked(h0, h, b, d, 1)
  <2>1. Within(C, b, c, d)
    BY <1>2 DEF Within
  <2> QED BY <1>1, <2>1, PutTagsOn
<1>4. d - 4 \in Word /\ c - 8 \in Word /\ b - 4 \in Word /\ d - 8 \in Word
  <2>1. d <= MaxHeap /\ 8 <= d
    BY <1>1, <1>2, FrameFacts
  <2> QED BY <1>1, <1>2, <2>1, TagWords, TagsAreWords
<1> HIDE DEF h0
<1>5. Keeps(h1, h0, {d - 4}) /\ h1.mem[d - 4] = c - d + 1 /\ h1.free = h0.free
  <2>1. HDRP(d) = d - 4 /\ PACK(c - d, 1) = c - d + 1 /\ c - d + 1 \in Int
    BY <1>2 DEF HDRP, PACK, WSIZE
  <2>2. h0 \in Heap
    BY <1>3 DEF Marked, Keeps
  <2> QED BY <1>4, <2>1, <2>2, PutFacts
<1> HIDE DEF h1
<1>6. GET_SIZE(h1, HDRP(d)) = c - d
  <2>1. h1.mem[HDRP(d)] = c - d + 1
    BY <1>5 DEF HDRP, WSIZE
  <2>2. c - d \in Nat /\ (c - d) % 8 = 0
    BY <1>2
  <2>3. (c - d + 1) - ((c - d + 1) % 8) = c - d
    BY <2>2
  <2> QED BY <2>1, <2>3 DEF GET_SIZE
<1>7. /\ Keeps(g, h1, {d - 4, c - 8}) /\ g.free = h1.free
      /\ g.mem[d - 4] = c - d /\ g.mem[c - 8] = c - d
  <2>1. /\ d - WSIZE = d - 4 /\ d + (c - d) - DSIZE = c - 8 /\ d + (c - d) - 8 = c - 8
        /\ c - d \in Int /\ d \in Int /\ c - d + 0 = c - d
    BY <1>2 DEF WSIZE, DSIZE
  <2>2. h1 \in Heap
    BY <1>5 DEF Keeps
  <2> QED BY <1>4, <2>1, <2>2, PutTagsFacts
<1> HIDE DEF g
<1> DEFINE A == {b - 4, d - 8, d - 4, c - 8}
<1>8. Keeps(g, h, A) /\ g.free = h.free
  BY <1>3, <1>5, <1>7 DEF Marked, Keeps
<1>9. A \cap Links(F) = {}
  <2>1. ASSUME NEW x \in F \cup {Prologue}
        PROVE  ~ (x <= d - 4 /\ d - 4 < x + 16) /\ ~ (x <= d - 8 /\ d - 8 < x + 16)
    <3>1. CASE x = Prologue
      BY <3>1, <1>2 DEF Prologue
    <3>2. CASE x \in F
      <4>1. x \in C /\ x # b
        BY <3>2, <1>1, <1>2
      <4> QED BY <4>1, <1>2
    <3> QED BY <3>1, <3>2
  <2>2. d - 4 \notin Links(F) /\ d - 8 \notin Links(F)
    BY <2>1 DEF Links
  <2> QED BY <1>1, <1>2, <2>2, LinkPlaces
<1>10. Linked(g, F)
  <2> HIDE DEF A
  <2> QED BY <1>1, <1>8, <1>9, LinkedKept
<1>11. g.mem[b - 4] = d - b + 1 /\ g.mem[d - 8] = d - b + 1
  <2>1. b - 4 \notin {d - 4, c - 8} /\ d - 8 \notin {d - 4, c - 8}
    BY <1>2
  <2> QED BY <1>3, <1>4, <1>5, <1>7, <2>1 DEF Marked, Keeps
<1>12. Keeps(g, h, Links(F) \cup A)
  BY <1>8 DEF Keeps
<1>13. SplitWritten(g, h, F, b, d, c)
  BY <1>7, <1>10, <1>11, <1>12 DEF SplitWritten
<1> QED BY <1>6, <1>13 DEF g, h1, h0

\* The end of the block is split off and freed.
LEMMA ShrunkKeepsOrder ==
  ASSUME NEW h, NEW C, NEW F, State(h, C, F), NEW b, NEW c, <<b, c>> \in Held(C, F),
         NEW size \in Nat, NEW asize \in Nat, size + 8 <= asize,
         asize % 8 = 0, 24 <= asize, c - b - asize > 24
  PROVE  LET h1 == PUT(PutTags(h, b, asize, 1), HDRP(b + asize), PACK(c - b - asize, 1))
         IN  Resized([heap |-> mm_free(h1, b + asize), bp |-> b], h,
                     Held(C, F) \ {<<b, c>>}, b, c, size, asize)
<1> DEFINE d  == b + asize
           h1 == PUT(PutTags(h, b, d - b, 1), HDRP(d), PACK(c - d, 1))
           g  == PutTags(h1, d, GET_SIZE(h1, HDRP(d)), 0)
           D  == C \cup {d}
           G  == F \cup {d}
           K  == Held(C, F) \ {<<b, c>>}
           r  == coalesce(g, d)
<1>1. /\ Frame(h, C, F) /\ h.mem[h.brk - 4] = 1 /\ F \subseteq C \ {h.brk}
      /\ \A x, y : Follows(C, x, y) => ~ (x \in F /\ y \in F)
  BY StateFacts
<1>2. /\ Follows(C, b, c) /\ b \notin F /\ b \in Nat /\ c \in Nat
      /\ b % 8 = 0 /\ 48 <= b /\ c <= MaxHeap
  <2>1. c <= h.brk /\ h.brk <= MaxHeap /\ h.brk \in Nat /\ MaxHeap \in Nat /\ c \in Nat
    BY HeldFacts
  <2> QED BY <2>1, HeldFacts
<1>3. /\ d \in Nat /\ d % 8 = 0 /\ b + 24 <= d /\ d + 24 <= c /\ d # NULL
      /\ d - b = asize /\ c - d = c - b - asize
  BY <1>2 DEF NULL
<1>4. mm_free(h1, d) = r.heap
  BY <1>3 DEF mm_free
<1>5. PUT(PutTags(h, b, asize, 1), HDRP(b + asize), PACK(c - b - asize, 1)) = h1
  BY <1>3
<1> HIDE DEF d
<1>6. SplitWritten(g, h, F, b, d, c)
  BY <1>3, CutOff
<1> HIDE DEF g, h1
<1>7. IsSplit(g, h, C, F, F, b, d, c)
  <2>1. F \subseteq F \ {b}
    BY <1>2
  <2> QED BY <1>1, <1>2, <1>3, <1>6, <2>1, BlockSplit
<1>8. /\ Sealed(g, D, G, F)
      /\ Follows(D, b, d) /\ Follows(D, d, c) /\ d \notin F
      /\ \A x, y : Follows(D, x, y) /\ x # b /\ x # d => Follows(C, x, y)
      /\ Held(D, G) = K \cup {<<b, d>>}
      /\ SameData(g, h, Held(D, G))
  <2>1. (F \ {b}) \cup {d} = G
    BY <1>2
  <2> QED BY <1>7, <2>1 DEF IsSplit
<1>9. Sealed(g, D, G, G \ {d}) /\ d \in G
  <2>1. G \ {d} = F
    BY <1>8
  <2> QED BY <1>8, <2>1
<1>10. \A x, y \in D : Follows(D, x, y) /\ x \in G /\ y \in G => x = d \/ y = d
  BY <1>1, <1>2, <1>8
<1> HIDE DEF D, G
<1>11. PICK D2, E2 : /\ State(r.heap, D2, E2) /\ Held(D2, E2) = Held(D, G)
                     /\ SameData(r.heap, g, Held(D, G))
  <2>1. Pending(g, D, G, d)
    BY <1>9, <1>10 DEF Pending
  <2>2. Settled(r, g, D, G, d, c)
    BY <1>8, <2>1, CoalesceKeepsOrder
  <2> QED BY <2>2 DEF Settled
<1> HIDE DEF r
<1>12. SameData(r.heap, h, K \cup {<<b, d>>})
  <2>1. SameData(r.heap, h, Held(D, G))
    BY <1>8, <1>11, SameDataTransitive
  <2> QED BY <1>8, <2>1
<1>13. \A q \in K : q[1] # b
  <2> SUFFICES ASSUME NEW q \in K PROVE q[1] # b
    OBVIOUS
  <2>1. Follows(C, q[1], q[2]) /\ q = <<q[1], q[2]>> /\ q # <<b, c>> /\ Cuts(C, h.brk)
    BY StateFacts DEF Held
  <2> QED BY <1>2, <2>1, FollowsUnique
<1> HIDE DEF K
<1>14. Ordered(r.heap, h, K \cup {<<b, d>>}, K)
  <2>1. SameData(r.heap, h, K)
    BY <1>12 DEF SameData
  <2> QED BY <1>8, <1>11, <2>1 DEF Ordered
<1>15. ASSUME NEW k \in Nat, 4 * k < size PROVE r.heap.mem[b + 4 * k] = h.mem[b + 4 * k]
  <2>1. b + 4 * k < d - 8 /\ b + 4 * k < MaxHeap /\ (b + 4 * k) % 4 = 0 /\ b <= b + 4 * k
    <3>1. MaxHeap \in Nat
      BY MMHeapAssumption
    <3> QED BY <1>2, <1>3, <1>15, <3>1 DEF d
  <2>2. b + 4 * k \in Word
    BY <1>2, <2>1, WordFact
  <2>3. <<b, d>> \in K \cup {<<b, d>>} /\ <<b, d>>[1] = b /\ <<b, d>>[2] = d
    OBVIOUS
  <2> QED BY <1>12, <2>1, <2>2, <2>3 DEF SameData
<1>16. b # NULL /\ b + asize <= d
  BY <1>2 DEF NULL, d
<1>17. Resized([heap |-> r.heap, bp |-> b], h, K, b, c, size, asize)
  BY <1>3, <1>13, <1>14, <1>15, <1>16 DEF Resized
<1>18. mm_free(h1, b + asize) = r.heap
  BY <1>4 DEF d
<1> QED BY <1>5, <1>17, <1>18 DEF K

LEMMA ReallocKeepsOrder ==
  ASSUME NEW h, NEW C, NEW F, State(h, C, F), NEW b, NEW c, <<b, c>> \in Held(C, F),
         NEW size, Moderate(size), size # 0
  PROVE  LET r == mm_realloc(h, b, size)
         IN  \/ r.bp = NULL /\ r.heap = h
             \/ Resized(r, h, Held(C, F) \ {<<b, c>>}, b, c, size, AdjustedSize(size))
<1> DEFINE asize == AdjustedSize(size)
           old   == c - b
           rest  == old - asize
           new   == mm_malloc(h, size)
           n     == IF size < old THEN size ELSE old
           h1    == PUT(PutTags(h, b, asize, 1), HDRP(b + asize), PACK(rest, 1))
           r     == mm_realloc(h, b, size)
           K     == Held(C, F) \ {<<b, c>>}
<1>1. asize \in Nat /\ asize % 8 = 0 /\ 24 <= asize /\ size + 8 <= asize /\ size \in Nat
  BY ModerateFits DEF Moderate
<1>2. Frame(h, C, F) /\ SameData(h, h, K)
  BY StateFacts DEF SameData
<1>3. Follows(C, b, c) /\ b \in Nat /\ c \in Nat /\ b # NULL
  BY HeldFacts DEF NULL
<1>4. GET_SIZE(h, HDRP(b)) = old
  BY <1>2, <1>3, BlockReads
<1>5. r = IF asize > old /\ new.bp = NULL THEN new
          ELSE IF asize > old THEN [heap |-> Moved(new.heap, new.bp, b, n), bp |-> new.bp]
          ELSE IF rest <= MINIMUM THEN [heap |-> h, bp |-> b]
          ELSE [heap |-> mm_free(h1, b + asize), bp |-> b]
  <2> HIDE DEF new, h1
  <2> QED BY <1>3, <1>4 DEF mm_realloc, new, h1
<1>6. Refused(new, h, C, F, asize) \/ Allocated(new, h, C, F, asize)
  BY MallocKeepsOrder
<1> HIDE DEF new, h1, r, asize
<1>7. CASE asize > old /\ Refused(new, h, C, F, asize)
  BY <1>5, <1>7 DEF Refused, r
<1>8. CASE asize > old /\ Allocated(new, h, C, F, asize)
  <2>1. Resized([heap |-> Moved(new.heap, new.bp, b, n), bp |-> new.bp], h, K,
                b, c, size, asize)
    BY <1>1, <1>8, MovedKeepsOrder
  <2>2. r = [heap |-> Moved(new.heap, new.bp, b, n), bp |-> new.bp]
    BY <1>5, <1>8 DEF Allocated
  <2>3. Resized(r, h, K, b, c, size, asize)
    BY <2>1, <2>2
  <2> QED BY <2>3 DEF r, asize
<1>9. CASE ~ (asize > old) /\ rest <= MINIMUM
  <2>1. r = [heap |-> h, bp |-> b]
    BY <1>5, <1>9
  <2>2. \A q \in K : q[1] # b
    <3> SUFFICES ASSUME NEW q \in K PROVE q[1] # b
      OBVIOUS
    <3>1. Follows(C, q[1], q[2]) /\ q = <<q[1], q[2]>> /\ q # <<b, c>> /\ Cuts(C, h.brk)
      BY StateFacts DEF Held
    <3> QED BY <1>3, <3>1, FollowsUnique
  <2>3. Held(C, F) = K \cup {<<b, c>>}
    OBVIOUS
  <2> HIDE DEF K
  <2>4. Ordered(h, h, K \cup {<<b, c>>}, K)
    BY <1>2, <2>3 DEF Ordered
  <2>5. b + asize <= c
    BY <1>1, <1>3, <1>9
  <2>6. Resized(r, h, K, b, c, size, asize)
    BY <1>3, <2>1, <2>2, <2>4, <2>5 DEF Resized
  <2> QED BY <2>6 DEF r, asize, K
<1>10. CASE ~ (asize > old) /\ ~ (rest <= MINIMUM)
  <2>1. c - b - asize > 24
    BY <1>1, <1>3, <1>10 DEF MINIMUM
  <2>2. Resized([heap |-> mm_free(h1, b + asize), bp |-> b], h, K, b, c, size, asize)
    BY <1>1, <2>1, ShrunkKeepsOrder DEF h1
  <2>3. r = [heap |-> mm_free(h1, b + asize), bp |-> b]
    BY <1>5, <1>10
  <2>4. Resized(r, h, K, b, c, size, asize)
    BY <2>2, <2>3
  <2> QED BY <2>4 DEF r, asize
<1> QED BY <1>6, <1>7, <1>8, <1>9, <1>10
-----------------------------------------------------------------------------
(* Starting.                                                               *)

Written(g, h, p, v) == Keeps(g, h, {p}) /\ g.mem[p] = v /\ g.free = h.free

LEMMA PutWrites ==
  ASSUME NEW h, h \in Heap, NEW p, p \in Word, NEW v, v \in Int
  PROVE  Written(PUT(h, p, v), h, p, v)
BY PutFacts DEF Written

\* The heap that mm_init starts on: memory in which the word before the first
\* block's header is zero, as it is in a fresh heap and after a run.
LEMMA InitMakesOrder ==
  ASSUME NEW h \in Heap, h.mem[40] = 0
  PROVE  \E C, F : State(mm_init(h), C, F) /\ Held(C, F) = {}
<1> DEFINE h1 == [h EXCEPT !.brk = 2 * MINIMUM, !.free = Prologue,
                      !.mem[0] = 0,
                      !.mem[WSIZE] = PACK(MINIMUM, 1),
                      !.mem[DSIZE] = 0, !.mem[DSIZE + WSIZE] = 0,
                      !.mem[MINIMUM] = PACK(MINIMUM, 1),
                      !.mem[WSIZE + MINIMUM] = PACK(0, 1)]
           h2 == PutTags([h1 EXCEPT !.brk = h1.brk + 24], h1.brk, 24, 0)
           h3 == PUT(h2, HDRP(NEXT_BLKP(h2, h1.brk)), PACK(0, 1))
           C  == {48}
<1>1. MaxHeap \in Nat /\ MaxHeap >= 72 /\ WordLimit \in Nat /\ WordLimit \div 2 > MaxHeap
  BY MMHeapAssumption
<1>2. \A a \in {0, 4, 8, 12, 24, 28, 40} : a \in Word
  BY <1>1, WordFact
<1>3. h1 \in Heap /\ h1.brk = 48 /\ h1.free = Prologue /\ h1.mem[40] = 0 /\ h1.mem[4] = 25
  <2> DEFINE z  == [h EXCEPT !.brk = 48]
             a0 == [z EXCEPT !.free = 8]
             a1 == PUT(a0, 0, 0)
             a2 == PUT(a1, 4, 25)
             a3 == PUT(a2, 8, 0)
             a4 == PUT(a3, 12, 0)
             a5 == PUT(a4, 24, 25)
             a6 == PUT(a5, 28, 1)
  <2>1. h1 = a6
    BY <1>2 DEF Heap, WSIZE, DSIZE, MINIMUM, PACK, Prologue, PUT
  <2>2. a0 \in Heap /\ a0.brk = 48 /\ a0.free = 8 /\ a0.mem[40] = 0
    <3>1. z \in Heap /\ z.brk = 48 /\ z.mem = h.mem
      BY DEF Heap
    <3> HIDE DEF z
    <3> QED BY <3>1 DEF Heap
  <2> HIDE DEF a0
  <2>3. Written(a1, a0, 0, 0)
    BY <1>2, <2>2, PutWrites DEF Written, Keeps
  <2> HIDE DEF a1
  <2>4. Written(a2, a1, 4, 25)
    BY <1>2, <2>3, PutWrites DEF Written, Keeps
  <2> HIDE DEF a2
  <2>5. Written(a3, a2, 8, 0)
    BY <1>2, <2>4, PutWrites DEF Written, Keeps
  <2> HIDE DEF a3
  <2>6. Written(a4, a3, 12, 0)
    BY <1>2, <2>5, PutWrites DEF Written, Keeps
  <2> HIDE DEF a4
  <2>7. Written(a5, a4, 24, 25)
    BY <1>2, <2>6, PutWrites DEF Written, Keeps
  <2> HIDE DEF a5
  <2>8. Written(a6, a5, 28, 1)
    BY <1>2, <2>7, PutWrites DEF Written, Keeps
  <2> HIDE DEF a6
  <2>9. a6 \in Heap /\ a6.brk = 48 /\ a6.free = 8
    BY <2>2, <2>3, <2>4, <2>5, <2>6, <2>7, <2>8 DEF Written, Keeps
  <2>10. a6.mem[40] = 0
    BY <1>2, <2>2, <2>3, <2>4, <2>5, <2>6, <2>7, <2>8 DEF Written, Keeps
  <2>11. a6.mem[4] = 25
    BY <1>2, <2>4, <2>5, <2>6, <2>7, <2>8 DEF Written, Keeps
  <2> HIDE DEF h1
  <2> QED BY <2>1, <2>9, <2>10, <2>11 DEF Prologue
<1> HIDE DEF h1
<1>4. Cuts(C, 48) /\ \A b, c : ~ Follows(C, b, c)
  BY DEF Cuts, First, Follows
<1>5. Linked(h1, {})
  <2>1. LinkedAs(h1, {}, 0, [k \in 1 .. 0 |-> 0])
    BY <1>3 DEF LinkedAs
  <2>2. 0 \in Nat /\ [k \in 1 .. 0 |-> 0] \in [1 .. 0 -> {}]
    OBVIOUS
  <2> QED BY <2>1, <2>2 DEF Linked
<1>6. Growable(h1, C, {})
  <2>1. Frame(h1, C, {})
    BY <1>1, <1>3, <1>4 DEF Frame, Tagged
  <2> QED BY <1>4, <1>5, <2>1 DEF Growable, Apart
<1>7. Extended(coalesce(h3, h1.brk), h1, C, {}, 24)
  <2>1. h1.brk + 24 <= MaxHeap /\ 24 % 8 = 0 /\ 24 \in Nat /\ 24 <= 24
    BY <1>1, <1>3
  <2> HIDE DEF C
  <2> QED BY <1>6, <2>1, Grows
<1>8. mm_init(h) = coalesce(h3, h1.brk).heap
  <2>1. CHUNKSIZE \div WSIZE = 4 /\ MAX(4 * (4 + (4 % 2)), MINIMUM) = 24
    BY DEF CHUNKSIZE, WSIZE, MAX, MINIMUM
  <2>2. mem_sbrk(h1, 24) = [heap |-> [h1 EXCEPT !.brk = h1.brk + 24], bp |-> h1.brk]
    <3>1. int(24) = 24
      BY <1>1 DEF int
    <3> QED BY <1>1, <1>3, <3>1 DEF mem_sbrk
  <2>3. h1.brk # NULL
    BY <1>3 DEF NULL
  <2> HIDE DEF h3, h2
  <2>4. extend_heap(h1, 4) = coalesce(h3, h1.brk)
    BY <2>1, <2>2, <2>3 DEF extend_heap, h3, h2
  <2> QED BY <2>1, <2>4 DEF mm_init, h1
<1> HIDE DEF h3
<1>9. PICK D, E : /\ State(coalesce(h3, h1.brk).heap, D, E) /\ Held(D, E) = Held(C, {})
  BY <1>7 DEF Extended
<1>10. Held(C, {}) = {}
  BY <1>4 DEF Held
<1> QED BY <1>8, <1>9, <1>10

LEMMA FreshMemory == mem_init \in Heap /\ mem_init.mem[40] = 0
<1>1. 40 \in Word
  BY WordFact, MMHeapAssumption
<1> QED BY <1>1 DEF mem_init, Heap, NULL

LEMMA UsedMemory ==
  ASSUME NEW h, NEW C, NEW F, State(h, C, F)
  PROVE  mem_reset_brk(h) \in Heap /\ mem_reset_brk(h).mem[40] = 0
<1>1. Frame(h, C, F)
  BY StateFacts
<1> QED BY <1>1 DEF Frame, mem_reset_brk, Heap
=============================================================================
