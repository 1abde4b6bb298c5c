------------------------------ MODULE MDriver ------------------------------
(***************************************************************************)
(* The test driver of lab 6, mdriver.c, over an arbitrary malloc package.  *)
(* For each trace the driver plays the trace's requests three times: to    *)
(* check the answers against its list of payload ranges (eval_mm_valid),   *)
(* to measure utilization (eval_mm_util) and for time (eval_mm_speed).     *)
(*                                                                         *)
(* The package may answer anything: NULL, a misplaced payload, a payload   *)
(* whose bytes are lost, or what malloc(3) promises. Called with the same  *)
(* requests again it answers the same, or NULL.                            *)
(***************************************************************************)
EXTENDS Integers, Sequences, FiniteSetsExt

CONSTANTS Ids,         \* indices of the blocks of a trace
          Traces,      \* the trace files: sequences of requests
          NumTraces,   \* how many of them are played
          Pointers,    \* the addresses the package may answer, and NULL
          HeapLo,      \* mem_start_brk
          MaxBrk,      \* mem_max_addr
          Brks,        \* the values of mem_brk the package may leave
          ALIGNMENT

NULL == 0
Request == [type : {"ALLOC", "REALLOC"}, index : Ids, size : Nat \ {0}]
             \cup [type : {"FREE"}, index : Ids, size : {0}]

\* The blocks that are allocated after the requests of t.
LiveAfter(t) ==
  {id \in Ids : \E k \in DOMAIN t : /\ t[k].index = id /\ t[k].type # "FREE"
                                    /\ \A j \in k + 1 .. Len(t) :
                                         t[j].index = id => t[j].type # "FREE"}

\* A trace allocates blocks that are free, and reallocates and frees blocks that
\* are allocated.
WellFormed(t) ==
  /\ t \in Seq(Request)
  /\ \A k \in DOMAIN t : t[k].type = "ALLOC" <=>
                           t[k].index \notin LiveAfter(SubSeq(t, 1, k - 1))

ASSUME MDriverAssumption ==
  /\ Ids \subseteq Nat /\ NumTraces \in Nat /\ ALIGNMENT \in Nat \ {0}
  /\ \A t \in Traces : WellFormed(t)
  /\ HeapLo \in Nat \ {0} /\ MaxBrk \in Nat
  /\ Brks \subseteq HeapLo .. MaxBrk
  /\ Pointers \subseteq Nat /\ NULL \in Pointers

VARIABLES pass,          \* where main is: which of the three passes
          trace, i,      \* the requests, and the one to be made
          blocks,        \* trace->blocks
          block_sizes,   \* trace->block_sizes
          ranges,        \* the range list, newest first
          errors,        \* the global counter of malloc_error
          valid,         \* mm_stats[].valid of the traces so far
          total_size, max_total_size,   \* of eval_mm_util
          brk, mem,      \* mem_brk and the bytes of the heap
          answers,       \* history: the answers of mm_init and of each request
          broke          \* history: the promises it broke in this trace

heap   == <<brk, mem, answers, broke>>
table  == <<blocks, block_sizes>>
sizes  == <<total_size, max_total_size>>
score  == <<errors, valid>>
vars   == <<pass, trace, i, table, ranges, score, sizes, heap>>
-----------------------------------------------------------------------------
(* Bytes and ranges.                                                       *)

Junk        == -1
Address     == HeapLo .. MaxBrk - 1
LowByte(id) == id % 256
Bytes(lo, size) == lo .. lo + size - 1

memset(m, lo, byte, size) ==
  [a \in Address |-> IF a \in Bytes(lo, size) THEN byte ELSE m[a]]

Extent(lo, size) == [lo |-> lo, hi |-> lo + size - 1]
Within(a, r)    == r.lo <= a /\ a <= r.hi

\* Seeded fault for TypeOK: the end of the payload is not tested.
InHeap_LowEnd(r, top) == HeapLo <= r.lo /\ r.lo <= top - 1

\* The three tests of add_range, for a heap that ends before top.
IS_ALIGNED(p) == p % ALIGNMENT = 0
InHeap(r, top) ==
  /\ HeapLo <= r.lo /\ r.lo <= top - 1
  /\ HeapLo <= r.hi /\ r.hi <= top - 1

\* Seeded fault for OverlapsEnclose: only the start of the payload is tested.
Overlaps_LowEnd(r, p) == Within(r.lo, p)

Overlaps(r, p) == Within(r.lo, p) \/ Within(r.hi, p)

Acceptable(list, r, top) ==
  /\ IS_ALIGNED(r.lo)
  /\ InHeap(r, top)
  /\ \A k \in DOMAIN list : ~ Overlaps(r, list[k])

add_range(list, r) == <<r>> \o list

\* The position at which remove_range stops: the first range that starts at lo.
StartsAt(list, lo) ==
  {k \in DOMAIN list : list[k].lo = lo /\ \A j \in 1 .. k - 1 : list[j].lo # lo}

\* Seeded fault for RangesAreLive: *ranges = p->next instead of *prevpp = p->next.
Without_Prefix(list, k) == SubSeq(list, k + 1, Len(list))

Without(list, k) == SubSeq(list, 1, k - 1) \o SubSeq(list, k + 1, Len(list))

remove_range(list, lo) ==
  IF StartsAt(list, lo) = {} THEN list
  ELSE Without(list, CHOOSE k \in StartsAt(list, lo) : TRUE)
-----------------------------------------------------------------------------
(* The malloc package.                                                     *)

Live     == LiveAfter(SubSeq(trace, 1, i - 1))
Payload(id) == Bytes(blocks[id], block_sizes[id])

\* What a call may leave in memory: the bytes m, or one of them lost.
Left(m) == {m} \cup {[m EXCEPT ![a] = Junk] : a \in Address}

\* The bytes after a block has moved from old to new.
Moved(m, old, new, size) ==
  [a \in Address |-> IF a \in Bytes(new, size) THEN m[a - new + old] ELSE m[a]]

\* The promises broken by an answer p to a request of the block id, other
\* blocks being those of others, when the bytes are then m.
Misplaced(p, size, top, others) ==
  \/ ~ IS_ALIGNED(p)
  \/ ~ Bytes(p, size) \subseteq HeapLo .. top - 1
  \/ \E o \in others : Bytes(p, size) \cap Payload(o) # {}
Clobbered(m, others) == \E o \in others : \E a \in Payload(o) : m[a] # mem[a]
Lost(m, old, new, size) ==
  \E k \in 0 .. size - 1 : m[new + k] # mem[old + k]

Breaks(b, broken) == IF broken THEN {b} ELSE {}
-----------------------------------------------------------------------------
Op == trace[i]
At(p, type) == pass = p /\ i <= Len(trace) /\ Op.type = type

Init ==
  /\ pass = "read" /\ trace = <<>> /\ i = 1
  /\ blocks = [id \in Ids |-> NULL] /\ block_sizes = [id \in Ids |-> 0]
  /\ ranges = <<>> /\ errors = 0 /\ valid = <<>>
  /\ total_size = 0 /\ max_total_size = 0
  /\ brk = HeapLo /\ mem = [a \in Address |-> Junk]
  /\ answers = <<>> /\ broke = {}

\* free_trace, and the next round of the loop of main.
NextTrace ==
  /\ pass' = "read" /\ trace' = <<>> /\ i' = 1 /\ answers' = <<>>
  /\ blocks' = [id \in Ids |-> NULL] /\ block_sizes' = [id \in Ids |-> 0]

\* eval_mm_valid reports an error and returns 0; it leaves its ranges behind.
malloc_error ==
  /\ errors' = errors + 1 /\ valid' = Append(valid, FALSE)
  /\ NextTrace /\ UNCHANGED sizes

\* app_error: the driver ends.
app_error ==
  /\ pass' = "exited"
  /\ UNCHANGED <<trace, i, table, ranges, score, sizes, heap>>

\* Seeded fault for NoFalseAlarm: clear_ranges is not called.
StartValid_KeepsRanges ==
  /\ pass = "read" /\ Len(valid) < NumTraces
  /\ trace' \in Traces /\ brk' \in Brks
  /\ pass' = "valid"
  /\ mem' = [a \in Address |-> Junk] /\ broke' = {}
  /\ answers' = <<[p |-> NULL, brk |-> brk']>>
  /\ UNCHANGED <<i, table, ranges, score, sizes>>

\* read_trace, and eval_mm_valid up to its loop. What is in memory after
\* mm_init is unknown.
StartValid ==
  /\ pass = "read" /\ Len(valid) < NumTraces
  /\ trace' \in Traces /\ brk' \in Brks
  /\ pass' = "valid" /\ ranges' = <<>>
  /\ mem' = [a \in Address |-> Junk] /\ broke' = {}
  /\ answers' = <<[p |-> NULL, brk |-> brk']>>
  /\ UNCHANGED <<i, table, score, sizes>>

InitFails ==
  /\ pass = "read" /\ Len(valid) < NumTraces
  /\ ranges' = <<>> /\ brk' = HeapLo /\ broke' = {"failed"} /\ UNCHANGED mem
  /\ malloc_error

\* mm_malloc or mm_realloc returns NULL in eval_mm_valid.
ValidFails ==
  /\ At("valid", "ALLOC") \/ At("valid", "REALLOC")
  /\ broke' = broke \cup {"failed"} /\ UNCHANGED <<ranges, brk, mem>>
  /\ malloc_error

\* eval_mm_valid is content with the payload r it was answered: it fills it
\* and remembers it.
Remember(r, m) ==
  /\ mem' = memset(m, r.lo, LowByte(Op.index), Op.size)
  /\ blocks' = [blocks EXCEPT ![Op.index] = r.lo]
  /\ block_sizes' = [block_sizes EXCEPT ![Op.index] = Op.size]
  /\ answers' = Append(answers, [p |-> r.lo, brk |-> brk'])
  /\ i' = i + 1
  /\ UNCHANGED <<pass, trace, score, sizes>>

ValidAlloc ==
  /\ At("valid", "ALLOC")
  /\ \E p \in Pointers \ {NULL}, m \in Left(mem) :
       LET r == Extent(p, Op.size)
       IN  /\ brk' \in {b \in Brks : b >= brk}
           /\ broke' = broke \cup Breaks("place", Misplaced(p, Op.size, brk', Live))
                             \cup Breaks("data", Clobbered(m, Live))
           /\ IF Acceptable(ranges, r, brk')
              THEN ranges' = add_range(ranges, r) /\ Remember(r, m)
              ELSE mem' = m /\ UNCHANGED ranges /\ malloc_error

\* Seeded fault for LossNoticed: the last byte is not tested.
Preserved_ButLast(m, p, id, size) ==
  LET oldsize == IF size < block_sizes[id] THEN size ELSE block_sizes[id]
  IN  \A j \in 0 .. oldsize - 2 : m[p + j] = LowByte(id)

\* The bytes that the test after mm_realloc reads hold the index.
Preserved(m, p, id, size) ==
  LET oldsize == IF size < block_sizes[id] THEN size ELSE block_sizes[id]
  IN  \A j \in 0 .. oldsize - 1 : m[p + j] = LowByte(id)

ValidRealloc ==
  /\ At("valid", "REALLOC")
  /\ \E p \in Pointers \ {NULL} :
       LET id     == Op.index
           old    == blocks[id]
           kept   == Min({Op.size, block_sizes[id]})
           others == Live \ {id}
           r      == Extent(p, Op.size)
           rest   == remove_range(ranges, old)
       IN  \E m \in Left(Moved(mem, old, p, kept)) :
             /\ brk' \in {b \in Brks : b >= brk}
             /\ LET placed == ~ Misplaced(p, Op.size, brk', others)
                IN  broke' = broke \cup Breaks("place", ~ placed)
                               \cup Breaks("data", Clobbered(m, others))
                               \cup Breaks("copy", placed /\ Lost(m, old, p, kept))
             /\ IF Acceptable(rest, r, brk')
                THEN /\ ranges' = add_range(rest, r)
                     /\ IF Preserved(m, p, id, Op.size)
                        THEN Remember(r, m)
                        ELSE mem' = m /\ malloc_error
                ELSE mem' = m /\ ranges' = rest /\ malloc_error

ValidFree ==
  /\ At("valid", "FREE")
  /\ ranges' = remove_range(ranges, blocks[Op.index])
  /\ \E m \in Left(mem) :
       /\ mem' = m
       /\ broke' = broke \cup Breaks("data", Clobbered(m, Live \ {Op.index}))
  /\ answers' = Append(answers, [p |-> NULL, brk |-> brk])
  /\ i' = i + 1
  /\ UNCHANGED <<pass, trace, table, score, sizes, brk>>

-----------------------------------------------------------------------------
(* The other two passes: the package answers as before, or NULL.           *)

\* The end of one pass, and the beginning of the next up to its loop.
Reset(from, to) ==
  /\ pass = from /\ i = Len(trace) + 1
  /\ pass' = to /\ i' = 1 /\ brk' = answers[1].brk
  /\ total_size' = 0 /\ max_total_size' = 0
  /\ UNCHANGED <<trace, table, ranges, errors, mem, answers, broke>>

StartUtil  == Reset("valid", "util") /\ valid' = Append(valid, TRUE)
StartSpeed == Reset("util", "speed") /\ UNCHANGED valid
\* fsecs times eval_mm_speed as often as it takes.
SpeedAgain == Reset("speed", "speed") /\ UNCHANGED valid

\* mm_init, mm_malloc or mm_realloc fails after all.
Fails ==
  \/ pass \in {"valid", "util", "speed"} /\ i = Len(trace) + 1 /\ app_error
  \/ At("util", "ALLOC") /\ app_error
  \/ At("util", "REALLOC") /\ app_error
  \/ At("speed", "ALLOC") /\ app_error
  \/ At("speed", "REALLOC") /\ app_error

\* The answer of the first pass comes again; answers[1] was that of mm_init.
Answer ==
  /\ brk' = answers[i + 1].brk /\ i' = i + 1
  /\ UNCHANGED <<pass, trace, ranges, score, mem, answers, broke>>

Counts(size) ==
  /\ total_size' = total_size + size
  /\ max_total_size' = Max({total_size + size, max_total_size})

UtilAlloc ==
  /\ At("util", "ALLOC") /\ Answer
  /\ blocks' = [blocks EXCEPT ![Op.index] = answers[i + 1].p]
  /\ block_sizes' = [block_sizes EXCEPT ![Op.index] = Op.size]
  /\ Counts(Op.size)

\* Seeded fault for UtilizationAtMostOne: the old size is not taken off.
UtilRealloc_AddsAll ==
  /\ At("util", "REALLOC") /\ Answer
  /\ blocks' = [blocks EXCEPT ![Op.index] = answers[i + 1].p]
  /\ block_sizes' = [block_sizes EXCEPT ![Op.index] = Op.size]
  /\ Counts(Op.size)

UtilRealloc ==
  /\ At("util", "REALLOC") /\ Answer
  /\ blocks' = [blocks EXCEPT ![Op.index] = answers[i + 1].p]
  /\ block_sizes' = [block_sizes EXCEPT ![Op.index] = Op.size]
  /\ Counts(Op.size - block_sizes[Op.index])

UtilFree ==
  /\ At("util", "FREE") /\ Answer
  /\ total_size' = total_size - block_sizes[Op.index]
  /\ UNCHANGED <<table, max_total_size>>

SpeedRequest ==
  /\ At("speed", "ALLOC") \/ At("speed", "REALLOC")
  /\ Answer
  /\ blocks' = [blocks EXCEPT ![Op.index] = answers[i + 1].p]
  /\ UNCHANGED <<block_sizes, sizes>>

SpeedFree == At("speed", "FREE") /\ Answer /\ UNCHANGED <<table, sizes>>

EndTrace ==
  /\ pass = "speed" /\ i = Len(trace) + 1
  /\ NextTrace
  /\ UNCHANGED <<ranges, score, sizes, brk, mem, broke>>

\* The end of main: a performance index, or "Terminated with errors".
Summary ==
  /\ pass = "read" /\ Len(valid) = NumTraces
  /\ pass' = IF errors = 0 THEN "index" ELSE "terminated"
  /\ UNCHANGED <<trace, i, table, ranges, score, sizes, heap>>

Next ==
  \/ StartValid \/ InitFails \/ ValidFails
  \/ ValidAlloc \/ ValidRealloc \/ ValidFree
  \/ StartUtil \/ UtilAlloc \/ UtilRealloc \/ UtilFree
  \/ StartSpeed \/ SpeedAgain \/ SpeedRequest \/ SpeedFree
  \/ Fails \/ EndTrace \/ Summary

Spec == Init /\ [][Next]_vars
-----------------------------------------------------------------------------
TypeOK ==
  /\ pass \in {"read", "valid", "util", "speed", "index", "terminated", "exited"}
  /\ trace \in Traces \cup {<<>>} /\ i \in 1 .. Len(trace) + 1
  /\ blocks \in [Ids -> Pointers] /\ block_sizes \in [Ids -> Nat]
  /\ ranges \in Seq([lo : Address, hi : Address])
  /\ errors \in Nat /\ valid \in Seq(BOOLEAN) /\ Len(valid) <= NumTraces
  /\ total_size \in Int /\ max_total_size \in Int
  /\ brk \in Brks \cup {HeapLo} /\ mem \in [Address -> {Junk} \cup 0 .. 255]
  /\ answers \in Seq([p : Pointers, brk : Brks])
  /\ broke \subseteq {"failed", "place", "data", "copy"}

\* Between two requests of the checking pass the range list holds the payloads
\* of the allocated blocks, each once: remove_range takes the right one away, and
\* nothing is left of an earlier trace (mdriver.c:436-465, 648-697).
RangesAreLive ==
  pass = "valid" =>
    /\ Len(ranges) = Cardinality(Live)
    /\ {ranges[k] : k \in DOMAIN ranges} =
         {Extent(blocks[id], block_sizes[id]) : id \in Live}

Apart(r, p)    == r.hi < p.lo \/ p.hi < r.lo
Encloses(r, p) == r.lo < p.lo /\ p.hi < r.hi

\* Of two ranges on the list that have bytes in common the newer has the older
\* strictly inside: that much the test of add_range does rule out
\* (mdriver.c:409-418).
OverlapsEnclose ==
  \A k, l \in DOMAIN ranges : k < l =>
    Apart(ranges[k], ranges[l]) \/ Encloses(ranges[k], ranges[l])

\* A package that keeps its promises is not reported: payloads side by side are
\* not taken to overlap, a shrinking realloc is not asked for more bytes than it
\* keeps, nothing of an earlier trace is held against it (mdriver.c:592-700).
NoFalseAlarm == [][broke' = {} => errors' = errors]_vars

\* A realloc that gives a block a good place but loses some of its bytes does not
\* pass (mdriver.c:671-684).
LossNoticed == "copy" \in broke => pass \notin {"valid", "util", "speed", "index"}

\* Nor does a payload that is misplaced, unless it encloses another one: all
\* ranges on the list are aligned and in the heap (mdriver.c:393-407).
RangesInHeap ==
  pass = "valid" =>
    \A k \in DOMAIN ranges : IS_ALIGNED(ranges[k].lo) /\ InHeap(ranges[k], brk)

Invalid == {k \in DOMAIN valid : ~ valid[k]}

\* One error is counted for each trace that is not valid, so a performance index
\* is given exactly when all traces are (mdriver.c:345-364, 592-700).
ErrorsAreInvalidTraces ==
  /\ errors = Cardinality(Invalid)
  /\ pass = "index" => Invalid = {}
  /\ pass = "terminated" => Invalid # {}

\* The utilization of a package that keeps its promises is at most one: the sizes
\* that eval_mm_util adds up are those of the allocated blocks, which are apart
\* and in the heap (mdriver.c:713-793).
UtilizationAtMostOne ==
  pass = "util" =>
    /\ total_size = MapThenSumSet(LAMBDA id : block_sizes[id], Live)
    /\ total_size <= max_total_size
    /\ broke = {} => max_total_size <= brk - HeapLo
=============================================================================
